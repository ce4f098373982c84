SPECIFICATION FairSpec
CONSTANTS
    Threads = {t1}
    Sessions = {s1}
    Uses <- MCAllUse
    Allocated = {}
    ObjectCount = 1
    MaxAddress = 4
    Values = {101}
    StubDepth = 1
    Blocking = TRUE
    None = None
    t1 = t1
    t2 = t2
    s1 = s1
    s2 = s2
PROPERTY CommitReturns
CHECK_DEADLOCK FALSE
