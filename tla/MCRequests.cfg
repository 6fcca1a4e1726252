CONSTANTS
    c1 = c1
    c2 = c2
    Callers = {c1, c2}
    LogSubjects = {"alice"}
    MaxSeq = 3
    MaxTime = 2
    PageSize = 2
    t1 = t1
    t2 = t2
    t3 = t3
    t4 = t4
    TicketCalls = {t1, t2, t3, t4}
    TicketMixes <- MCTicketMixes
    TicketTTL = 1
    MaxTicketTime = 2
    MaxDeaths = 1
    v1 = v1
    v2 = v2
    v3 = v3
    v4 = v4
    v5 = v5
    v6 = v6
    b1 = b1
    b2 = b2
    first = first
    second = second
    next = next
    Visits = {v1, v2, v3, v4, v5, v6}
    Browsers = {b1, b2}
    FirstToken = first
    SecondToken = second
    NextToken = next
    VisitMixes <- MCVisitMixes
    MaxPasskeys = 1
    WithdrawBurst = 1
    IdleTTL = 2
    AbsoluteTTL = 3
    MaxConsoleTime = 3
    SealCalls = {1, 2, 3}
    SealMixes <- MCSealMixes
    KeyServers = {s1, s2}
    RewrapPage = 1
    MaxVersion = 2
    Checks = {g1, g2}
    AssertionTTL = 1
    AssertionSkew = 0
    CacheTTL = 2
    MinGap = 1
    FetchTimeout = 1
    MaxKeys = 2
    MaxKeyTime = 4
    Requests = {r1, r2}
    Sources = {a1, a2}
    Occurrences <- MCOccurrences
    Subjects = {"carol"}
    Window = 2
    MaxTracked = 1
    PageLimit = 1
    StoreLimit = 2
    RowIds = {1, 2}
    MaxAlertTime = 3
    MaxRefusals = 2
    MaxRaised = 3
SPECIFICATION RequestsSpec
CONSTRAINTS ReadersLoad OnePass ChecksLoad AlertLoad
CHECK_DEADLOCK FALSE
INVARIANTS
    LogIsWhole
    NoFalseBreak
    NothingBehindCursor
    TicketsAreSingle
    OnlyAuthorisedRemain
    SessionsEnd
    ActsAsRendered
    PasskeySignInIsSound
    SealedValuesKept
    RotationRefusesNobody
    CacheKeepsItsTimes
    CrowdingHidesNobody
    WalkSkipsNothing
