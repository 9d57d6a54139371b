SPECIFICATION Spec
CONSTANTS
    c1 = c1
    c2 = c2
    c3 = c3
    Calls = {c1, c2, c3}
    d1 = d1
    d2 = d2
    Devices = {d1, d2}
    NoCall = NoCall
INVARIANTS
    OwnResponse
    DiscoveryFollowsActivity
PROPERTIES
    IsOneShot
    PresentedIsAnswered
CHECK_DEADLOCK FALSE
