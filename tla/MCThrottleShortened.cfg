CONSTANTS
    r1 = r1
    r2 = r2
    r3 = r3
    Reqs = {r1, r2, r3}
    Subjects = {"alice"}
    Networks = {}
    Factors = {"totp"}
    Window = 2
    MaxFailuresPerSubject = 1
    MaxFailuresPerIP = 1
    LockoutDuration = 3
    StaleAfter = 2
    Latency = 1
    MaxTime = 5
    MaxFaults = 0
    MaxUnlocks = 0
SPECIFICATION Spec
SYMMETRY ReqSymmetry
CHECK_DEADLOCK FALSE
PROPERTIES
    LockoutNotCut
