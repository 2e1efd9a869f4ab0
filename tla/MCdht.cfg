SPECIFICATION MCSpec
CONSTANTS
    Addrs = {a}
    TidSpace = 8
    Burst = 1
    Refill = 1
    Timeout = 1
    NetLife = 1
    MaxMade = 6
    MaxClock = 7
    Ids = {i}
    StoreAddrs = {a, b}
    Ports = {1, 2}
    Hashes = {f, g, h}
    Near = {g, h}
    MaxTokens = 2
    MaxPeers = 2
    PerHash = 1
    PeerTtl = 2
    TokenTtl = 1
    MaxStarts = 1
    MaxDown = 4
    IdBits = 4
    Self = 5
    BucketSize = 2
    MaxSize = 4
    Known = {0, 1, 2, 4, 6}
    MaxReplaced = 1
    MaxFailing = 2
    Nodes = {1, 2, 3}
    Bootstrap = 0
    Knows <- Acquaintances
    Roots <- ClosestKnown
    MaxDepth = 2
    Limit = 2
    MaxOpen = 1
    Inactivity = 3
    Never = Never
INVARIANTS AnswerReachesItsRequest PeerStoreIsSound LookupIsSound TableIsSound
PROPERTIES LookupEnds SilentTurnsBad
CHECK_DEADLOCK FALSE
