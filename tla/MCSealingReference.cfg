CONSTANTS
    s1 = s1
    s2 = s2
    SealCalls = {1, 2, 3}
    SealMixes <- MCSealMixes
    KeyServers = {s1, s2}
    RewrapPage = 1
    MaxVersion = 2
SPECIFICATION SealingSpec
CONSTRAINT OnePass
SYMMETRY ServerSymmetry
CHECK_DEADLOCK FALSE
INVARIANTS
    ReferencesOpen
