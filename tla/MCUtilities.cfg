CONSTANTS
    a1 = a1
    a2 = a2
    a3 = a3
    s1 = s1
    Null = Null
    Addr = {a1, a2, a3}
    Scalars = {s1}
    MaxCopies = 2
    Algorithms = {"md5", "sha0", "sha1", "sha224", "sha256", "sha384", "sha512", "sha512_t", "blake224", "blake256", "blake384", "blake512", "blake2b", "blake2b_key", "blake2s", "blake2s_key"}
    PieceLens = {0, 1, 8, 55, 56, 64, 111, 112, 113}
    MaxUpdates = 3
    max_uri_len = 8
    NumberTables <- NumberTablesVal
    Sought <- SoughtVal
    ShuffleTables <- ShuffleTablesVal
    Strings <- StringsVal
    Delimiters <- DelimitersVal
    ByteStrings <- ByteStringsVal
    DigitTables <- DigitTablesVal
    Bases = {2, 3, 10}
    RequestPaths <- RequestPathsVal
    Versions <- VersionsVal
    Fields <- FieldsVal
    Cookies <- CookiesVal
    RouteLists <- RouteListsVal
    Paths <- PathsVal
    Queries <- QueriesVal
    Escaped <- EscapedVal
    Urls <- UrlsVal
    HashOf <- HashOfVal
    MapProbeLimit = 0
    MimeFiles <- MimeFilesVal
SYMMETRY Symmetry
SPECIFICATION Spec
INVARIANTS
    TypeOK
    CopiesEqualSource
    BlocksAreStandard
    PiecesMakeMessage
    SortsOrder
    TablesAnswer
    EncodingsRoundTrip
    TextsParsed
    RoutesMatch
CHECK_DEADLOCK FALSE
