CONSTANTS
    Headers <- HeadersVal
    Bodies <- BodiesVal
    MaxLens = {0, 2, 9}
    Frames <- FramesVal
    WriteLens = {0, 125, 126, 127, 65535, 65536}
    MaxFrames = 2
    RequestHeaders <- RequestHeadersVal
    Forms <- FormsVal
    PlainBodies <- PlainBodiesVal
    Boundary <- BoundaryVal
    DashedBoundary <- DashedBoundaryVal
    Parameter <- ParameterVal
    MaxHeader = 8
    t1 = t1
    t2 = t2
    b1 = b1
    b2 = b2
    Threads = {t1, t2}
    Buffers = {b1, b2}
    Contents = {0, 1}
    Tables = {0, 1}
    Wide = {1}
    Field = 0
    Nil = Nil
    Mods <- MCMods
    Nobody = Nobody
    MaxStack = 2
    Uses = {"index", "error", "nested", "gc"}
SPECIFICATION PartsSpec
INVARIANTS
    TypeOK
    ContentDelivered
    HeadersFound
    FreedOnce
    MessagesAreFrames
    WrittenLengthReads
    ParserFailsOnlyIfSliced
    BodiesParsed
    BufferTypeOK
    MutexMatchesCalls
    UsedMatchesMods
PROPERTIES
    CallReturns
    BuffersAreCells
CHECK_DEADLOCK FALSE
