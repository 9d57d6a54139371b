SPECIFICATION Spec
CONSTANTS
    c1 = c1
    c2 = c2
    Calls = {c1, c2}
    d1 = d1
    Devices = {d1}
    Main = Main
    NoCall = NoCall
INVARIANTS
    OwnOutcome
    PendingIsReachable
PROPERTIES
    IsOneShot
    NeverWedged
CHECK_DEADLOCK FALSE
