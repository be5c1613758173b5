CONSTANTS
    s1 = s1
    s2 = s2
    c1 = c1
    c2 = c2
    c3 = c3
    f1 = f1
    f2 = f2
    Servers = {s1}
    Conns = {c1, c2}
    Fds = {f1}
    MaxCon = 2
    MaxRoutes = 2
    Closed = Closed
    None = None
SPECIFICATION ServerSpec
PROPERTY ErrorReachesOwnConnection
CHECK_DEADLOCK FALSE
