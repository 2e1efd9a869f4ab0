SPECIFICATION MCSpec
CONSTANTS
    Http = {h}
    Udp = {u}
    Unsupported = {x}
    Broken = {}
    HasUdpClient = FALSE
    Cap = 1
    UdpHttp = {}
    UdpUdp = {u, b}
    UdpUnsupported = {}
    UdpBroken = {b}
    UdpHasUdpClient = TRUE
    UdpCap = 1
    SourcesTrackers = {a, b}
    SessionTrackers = {}
    SourcesBroken = {b}
    HasDht = FALSE
    HasLsd = TRUE
    Private = FALSE
    DisableTrackers = FALSE
    Streams = {1, 2}
    Conns = {1, 2}
    Incoming = {2}
    Shared = {}
    Slots = 1
    Transports = {"tcp", "utp"}
    Uploads = TRUE
    Backlog = 1
    MaxQueue = 1
    Addrs = {a, b, c}
    Honest = {a}
    InfoLen = 3
    ChunkSize = 2
    MaxSize = 4
    Limit = 1
    HasTimeout = TRUE
    Readers = {r1}
    Files <- TwoFiles
    Ranges <- TwoRanges
    PieceLength = 2
    BufLen = 2
    Lookahead = 3
    Selected = {0}
    Permits = 1
    MaxStarts = 2
    MaxChecks = 1
    Locations = {"g", "x"}
    GatewayBroken = {"x"}
    UrlsOf <- OneUrl
    Ports = {1}
    Nics <- SomeNics
    Dests <- SomeDests
INVARIANTS SourcesAreGenuine
PROPERTIES ShortageIsHeeded QueuedIsWritten WriteProceeds OutsideIsReached
    CompletionIsAnnounced
CHECK_DEADLOCK FALSE
