SPECIFICATION StoreSpec
CONSTANTS
    t1 = t1
    t2 = t2
    t3 = t3
    Threads = {t1, t2, t3}
    maxByteStoreEntries = 2
    MaxResults = 5
SYMMETRY ThreadSymmetry
INVARIANTS
    OnePlace
    Bounded
PROPERTIES
    DeliveredIntact
    EvictionIsLate
CHECK_DEADLOCK FALSE
