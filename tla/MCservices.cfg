SPECIFICATION MCSpec
CONSTANTS
    Callers = {c1}
    Scheduler = sch
    Rates = {0, 1}
    Minutes = 2
    Days = 2
    Windows <- Overnight
    MaxCalls = 3
    Hashes = {h1, h2}
    Tags = {t1}
    Trackers = {u1, u2}
    BadUrls = {b1}
    Files = {f1, f2}
    Tasks = {k1}
    Clients = {r1, r2}
    Ops <- Endpoints
    QbitMaxCalls = 2
    Cap = 2
    FilesFiles = {1, 2}
    Pads = {}
    Roots = {"r1", "r2"}
    Completed = "r2"
    DiskNames <- FileNames
    NameOf <- FirstNames
    AllowOverwrite = TRUE
    MaxFaults = 1
    MaxJobs = 2
    MaxStrangers = 1
    Layouts <- SmallLayouts
    PieceSize = 2
    ReadOnly = FALSE
    MaxWrites = 2
    MaxLosses = 1
    Values <- SmallValues
    Kinds <- AllKinds
    InfoField <- InfoKey
    CtxCap = 2
    CtxMax = 1
    Base = 2
    Octets4 = 1
    Octets6 = 2
    IdLen = 1
    Tids <- SmallTids
    Nodes <- NodeLists
    Args = 1
    DhtValues <- PeerLists
    Trees <- SmallTrees
    PieceLength = 3
    ReadSize = 2
    ChunkSize = 2
    Extra <- Strange
    Selections <- SmallSelections
    Readers = {r1, r2}
    StreamsFiles <- TwoFiles
    Ranges <- TwoRanges
    StreamsPieceLength = 2
    BufLen = 2
    Lookahead = 3
    Selected = {0}
    Permits = 2
    MaxStarts = 2
    MaxChecks = 1
    FeedNames = {"n1", "n2"}
    Entries = {"e1", "e2"}
    HasUrl = {"e1", "e2"}
    Configs <- FeedConfigs
    RuleIds = {"r1"}
    RuleBodies <- Bodies
    Limit = 1
    Torrents = {}
    Magnets = {}
    FeedsMaxCalls = 1
    NoFeeds = {}
    WatchEntries = {}
    WatchHasUrl = {}
    WatchConfigs = {}
    WatchRuleIds = {}
    WatchRuleBodies = {}
    WatchLimit = 1
    WatchTorrents = {"t1"}
    WatchMagnets = {"m1"}
    WatchMaxCalls = 3
    Library <- Libraries
    IdBits = 2
    Sids = {1}
    Directory = {1}
    Timeouts = {2}
    Channel = 1
    MaxUpdates = 2
    MaxRenewals = 1
INVARIANTS LimitsFollowMode StreamsAreServed ApiIsHonest FilesAreSound CodecsAreSound
    AdditionsAreHonest
CHECK_DEADLOCK FALSE
