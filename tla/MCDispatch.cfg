SPECIFICATION Spec
CONSTANTS
    Methods <- AllMethods
    MaxCalls = 2
INVARIANTS
    TypeOK
    ResultsArrive
    FailuresAreThrown
    NothingReadableLeft
CHECK_DEADLOCK FALSE
