SPECIFICATION FairSpec
CONSTANTS
    Threads = {t1, t2}
    Sessions = {s1, s2}
    Uses <- MCOneShared
    Allocated = {}
    ObjectCount = 2
    MaxAddress = 4
    Values = {101}
    StubDepth = 1
    Blocking = TRUE
    None = None
    t1 = t1
    t2 = t2
    s1 = s1
    s2 = s2
INVARIANTS Excluded TransactionOwned WrittenStays
CHECK_DEADLOCK FALSE
