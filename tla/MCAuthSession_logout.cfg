SPECIFICATION Spec
CONSTANTS
    r1 = r1
    r2 = r2
    r3 = r3
    Requests = {r1, r2, r3}
    MaxLogins = 1
    MaxFaults = 0
SYMMETRY RequestSymmetry
INVARIANTS
    LogoutClears
CHECK_DEADLOCK FALSE
