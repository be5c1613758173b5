CONSTANTS
    Headers = {}
    Bodies = {}
    MaxLens = {}
    Frames = {}
    WriteLens = {}
    MaxFrames = 2
    RequestHeaders <- RequestHeadersVal
    Forms <- FormsVal
    PlainBodies = {}
    Boundary <- BoundaryVal
    DashedBoundary <- DashedBoundaryVal
    Parameter <- ParameterVal
    MaxHeader = 8
SPECIFICATION Spec
INVARIANT SlicedBoundaryIsBuffered
CHECK_DEADLOCK FALSE
