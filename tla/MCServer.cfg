CONSTANTS
    s1 = s1
    s2 = s2
    c1 = c1
    c2 = c2
    c3 = c3
    f1 = f1
    f2 = f2
    Servers = {s1, s2}
    Conns = {c1, c2, c3}
    Fds = {f1, f2}
    MaxCon = 1
    MaxRoutes = 2
    Closed = Closed
    None = None
    Inc = 2
    ProbeLimit = 0
    NULL = NULL
    v1 = v1
    v2 = v2
    Keys <- MCKeys
    Values = {v1, v2}
    MaxSize = 8
SYMMETRY Symmetry
SPECIFICATION ServerTableSpec
INVARIANTS
    ServerTypeOK
    ThreadsCountHandlers
    ConnectionLimit
    ClosesOwnConnection
    NoDescriptorLeak
    CrossTalkOnlyAfterClose
    TypeOK
    GetiAlwaysEnds
    StoredKeysFound
PROPERTY ImplementsDictionary
CHECK_DEADLOCK FALSE
