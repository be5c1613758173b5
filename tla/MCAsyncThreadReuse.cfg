CONSTANTS
    h1 = h1
    h2 = h2
    x1 = x1
    x2 = x2
    v1 = v1
    v2 = v2
    Handles = {h1, h2}
    Tids = {x1, x2}
    Values = {v1, v2}
    NoValue = NoValue
    Nobody = Nobody
    Unreturned = Unreturned
    Uses = {"await", "clean"}
SPECIFICATION AsyncFairSpec

PROPERTY AwaitReturns
CHECK_DEADLOCK FALSE
