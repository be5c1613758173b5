CONSTANTS
    Inc = 4
    ProbeLimit = 10
    NULL = NULL
    None = None
    t1 = t1
    t2 = t2
    t3 = t3
    Threads = {t1, t2}
    Ids <- FourIds
    MaxLocks <- OneWaiter
SPECIFICATION Spec
INVARIANT MutualExclusion
CHECK_DEADLOCK FALSE
