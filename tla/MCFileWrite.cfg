SPECIFICATION Spec
CONSTANTS
    c1 = c1
    c2 = c2
    Calls = {c1, c2}
    MaxFiles = 2
    MaxOthers = 1
    MaxCrashes = 1
SYMMETRY CallSymmetry
CHECK_DEADLOCK FALSE
INVARIANTS
    TargetWhole
    ReportsMatchEffect
    NoStrayTemp
    CommitSurvives
PROPERTIES
    IsAtomicFile
