CONSTANTS
    MaxEntries = 2
    BufferSize = 1
    BatchSize = 2
    MaxRestarts = 1
    h1 = h1
    h2 = h2
    h3 = h3
    p1 = p1
    p2 = p2
    Handlers = {h1, h2, h3}
    Replicas = {p1, p2}
    MaxFaults = 1
    l1 = l1
    l2 = l2
    Servers = {l1, l2}
    LastVersion = 2
    Checksums = {"m", "e"}
    Builds <- MCBuilds
    LifeCalls = {"c"}
    MaxStops = 1
    x1 = x1
    x2 = x2
    Sessions = {x1, x2}
SPECIFICATION BackgroundSpec
CHECK_DEADLOCK FALSE
INVARIANTS
    PurgesAreSound
    SweepsOnce
    ServesOnItsSchema
PROPERTIES
    NoHoles
    AcceptedIsDelivered
    DueIsCompleted
    ReplicasComeUp
    CallsAreAtomic
