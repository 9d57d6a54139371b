SPECIFICATION Spec
CONSTANTS
    c1 = c1
    c2 = c2
    Calls = {c1, c2}
    MaxLosses = 1
    Nobody = Nobody
INVARIANTS
    OwnAnswer
    AnswerKept
    NothingLeft
PROPERTIES
    AnswerReturned
CHECK_DEADLOCK FALSE
