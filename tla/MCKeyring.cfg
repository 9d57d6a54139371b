SPECIFICATION Spec
CONSTANTS
    t1 = t1
    t2 = t2
    t3 = t3
    Threads = {t1, t2, t3}
    a = a
    b = b
    Names = {a, b}
    u = u
    Values = {u}
    MaxKeys = 2
    MaxKills = 1
    Nothing = Nothing
INVARIANTS
    TypeOK
    StoredStays
PROPERTIES
    SettledKeyStays
SYMMETRY Symmetry
