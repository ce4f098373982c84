SPECIFICATION FairSpec
CONSTANTS
    Threads = {t1}
    Sessions = {s1, s2}
    Uses <- MCAllUse
    Allocated = {s2}
    ObjectCount = 2
    MaxAddress = 7
    Values = {}
    StubDepth = 1
    Blocking = FALSE
    None = None
    t1 = t1
    t2 = t2
    s1 = s1
    s2 = s2
INVARIANTS TypeOK AddressesDistinct StoredIsClosed UnchangedIsStored
PROPERTY CallsReturn
