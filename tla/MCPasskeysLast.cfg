CONSTANTS
    alice = alice
    bob = bob
    k1 = k1
    k2 = k2
    c1 = c1
    r1 = r1
    r2 = r2
    Subjects = {alice, bob}
    Creds = {k1, k2}
    Challenges = {c1}
    Reqs = {r1, r2}
    MaxCredentials = 1
    ChallengeTTL = 1
    Latency = 1
    MaxTime = 3
    MaxCount = 2
    MaxInterventions = 1
SPECIFICATION Spec
SYMMETRY ProcSymmetry
CONSTRAINT RevokeLoad
CHECK_DEADLOCK FALSE
PROPERTIES
    LastNeedsOverride
