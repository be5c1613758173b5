CONSTANTS
    t1 = t1
    t2 = t2
    b1 = b1
    b2 = b2
    Threads = {t1, t2}
    Buffers = {b1, b2}
    Contents = {0, 1}
    Tables = {0, 1}
    Wide = {1}
    Field = 0
    Nil = Nil
    Mods <- MCMods
    Nobody = Nobody
    MaxStack = 2
    Uses = {}
SPECIFICATION BufferSpec
INVARIANT AssertHolds
CHECK_DEADLOCK FALSE
