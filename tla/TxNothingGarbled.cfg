SPECIFICATION Spec
CONSTANTS
    Threads = {t1}
    Sessions = {s1, s2}
    Uses <- MCAllUse
    Allocated = {}
    ObjectCount = 1
    MaxAddress = 4
    Values = {101}
    StubDepth = 1
    Blocking = FALSE
    None = None
    t1 = t1
    t2 = t2
    s1 = s1
    s2 = s2
INVARIANT NothingGarbled
