CONSTANTS
    q1 = q1
    q2 = q2
    q3 = q3
    q4 = q4
    TotpReqs = {q1, q2, q3, q4}
    Skew = 2
    EnrolmentTTL = 1
    Latency = 1
    MaxTime = 4
    MaxRevocations = 1
    r1 = r1
    r2 = r2
    r3 = r3
    r4 = r4
    Reqs = {r1, r2, r3, r4}
    Subjects = {"alice", "bob"}
    CodeCount = 1
    KdfSlots = 1
SPECIFICATION CodesSpec
SYMMETRY TotpSymmetry
CHECK_DEADLOCK FALSE
INVARIANTS
    StepSingleUse
    EnrolmentIsSound
    CodesAreSound
PROPERTIES
    RevokedStaysDead
    RetiredStaysDead
    SlotsReturned
