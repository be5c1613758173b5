CONSTANTS
    Inc = 2
    ProbeLimit = 10
    NULL = NULL
    None = None
    t1 = t1
    t2 = t2
    t3 = t3
    Threads = {t1, t2, t3}
    Ids <- TwoIds
    MaxLocks <- Twice
    h1 = h1
    h2 = h2
    x1 = x1
    x2 = x2
    v1 = v1
    v2 = v2
    Handles = {h1, h2}
    Tids = {x1, x2}
    Values = {v1, v2}
    NoValue = NoValue
    Nobody = Nobody
    Unreturned = Unreturned
    Uses = {"await", "clean", "close", "drop", "error"}
SPECIFICATION ThreadsSpec
INVARIANTS
    TypeOK
    AsyncTypeOK
    AwaitGivesResult
    UseAfterFreeOnlyIfDropped
PROPERTIES
    ExclusiveUnlessCopied
    OwnedUnlessCopied
    LockReturnsToSoleWaiter
    AwaitReturnsUnlessCancelled
CHECK_DEADLOCK FALSE
