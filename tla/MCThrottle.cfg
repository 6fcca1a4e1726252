CONSTANTS
    r1 = r1
    r2 = r2
    r3 = r3
    Reqs = {r1, r2, r3}
    Subjects = {"alice"}
    Networks = {"net"}
    Factors = {"totp", "webauthn"}
    Window = 2
    MaxFailuresPerSubject = 1
    MaxFailuresPerIP = 1
    LockoutDuration = 3
    StaleAfter = 2
    Latency = 1
    MaxTime = 5
    MaxFaults = 1
    MaxUnlocks = 1
SPECIFICATION Spec
SYMMETRY ReqSymmetry
CONSTRAINT Load
CHECK_DEADLOCK FALSE
INVARIANTS
    TypeOK
    GuessBudget
    LockoutsAreRight
PROPERTIES
    NoGuessWhileLocked
    NothingForgottenEarly
