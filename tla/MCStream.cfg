SPECIFICATION Spec
CONSTANTS
    s1 = s1
    Streams = {s1}
    streamBuffer = 2
    MaxItems = 4
    Kinds <- AllKinds
INVARIANTS
    Pipeline
    NothingAfterEnding
    NoOrphanProducer
PROPERTIES
    KeepsContract
    CancelReachesProducer
    EndedStreamFinishes
