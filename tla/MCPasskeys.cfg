CONSTANTS
    alice = alice
    bob = bob
    k1 = k1
    k2 = k2
    c1 = c1
    c2 = c2
    c3 = c3
    r1 = r1
    r2 = r2
    r3 = r3
    Subjects = {alice, bob}
    Creds = {k1, k2}
    Challenges = {c1, c2, c3}
    Reqs = {r1, r2, r3}
    MaxCredentials = 1
    ChallengeTTL = 1
    Latency = 1
    MaxTime = 3
    MaxCount = 2
    MaxInterventions = 1
SPECIFICATION Spec
SYMMETRY ProcSymmetry
CONSTRAINT Load
CHECK_DEADLOCK FALSE
INVARIANTS
    CeremoniesAreSound
    CountersHeeded
PROPERTIES
    OnlyEntitledSucceed
