CONSTANTS
    Inc = 4
    ProbeLimit = 10
    NULL = NULL
    None = None
    t1 = t1
    t2 = t2
    t3 = t3
    Threads = {t1, t2, t3}
    Ids <- OneId
    MaxLocks <- Once
SPECIFICATION FairSpec
PROPERTY LockReturns
CHECK_DEADLOCK FALSE
