CONSTANTS
    Callers = {c1, c2}
    LogSubjects = {"alice"}
    MaxSeq = 3
    MaxTime = 2
    PageSize = 2
SPECIFICATION ChainSpec
CONSTRAINT Writing
CHECK_DEADLOCK FALSE
INVARIANT NothingRecentIsTrimmed
