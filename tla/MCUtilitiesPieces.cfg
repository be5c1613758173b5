CONSTANTS
    a1 = a1
    a2 = a2
    a3 = a3
    s1 = s1
    Null = Null
    Addr = {}
    Scalars = {s1}
    MaxCopies = 0
    Algorithms = {"md5"}
    PieceLens = {1, 64}
    MaxUpdates = 2
    max_uri_len = 8
    NumberTables = {}
    Sought = {8}
    ShuffleTables = {}
    Strings = {}
    Delimiters = {}
    ByteStrings = {}
    DigitTables = {}
    Bases = {}
    RequestPaths = {}
    Versions = {}
    Fields = {}
    Cookies = {}
    RouteLists = {}
    Paths = {}
    Queries = {}
    Escaped = {}
    Urls = {}
    HashOf <- HashOfVal
    MapProbeLimit = 0
    MimeFiles = {}
SPECIFICATION Spec
INVARIANT HashIsIncremental
CHECK_DEADLOCK FALSE
