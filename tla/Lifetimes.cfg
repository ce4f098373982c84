SPECIFICATION FairSpec
CONSTANTS
    Threads = {t1, t2}
    Sessions = {s1, s2, s3}
    Objects = {o1}
    Programs <- MCPrograms
    None = None
    t1 = t1
    t2 = t2
INVARIANTS TypeOK LInv ListIsActive FreshWhenQuiet NothingReleasedUsed AllReleased
PROPERTY CallsReturnOrFault
CHECK_DEADLOCK FALSE
