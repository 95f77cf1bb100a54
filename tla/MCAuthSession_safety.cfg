SPECIFICATION FairSpec
CONSTANTS
    r1 = r1
    r2 = r2
    r3 = r3
    Requests = {r1, r2, r3}
    MaxLogins = 1
    MaxFaults = 1
INVARIANTS
    SessionInv
    SessionUsable
    NeverSignedOut
    NoTokenLeftBehind
PROPERTIES
    EveryCallEnds
CHECK_DEADLOCK FALSE
