SPECIFICATION Spec
CONSTANTS
    r1 = r1
    r2 = r2
    Requests = {r1, r2}
    MaxLogins = 1
    MaxFaults = 0
SYMMETRY RequestSymmetry
INVARIANTS
    LogoutRevokes
CHECK_DEADLOCK FALSE
