SPECIFICATION MCSpec
CONSTANTS
    Addr = {addrA, addrB}
    NoAddr = NoAddr
    Task = {k1, k2, k3}
    NoTask = NoTask
    Seeds = {addrA}
    Blocked = {addrB}
    Announces <- SameAddress
    PeerLimit = 3
    QueueCap = 2
    DisableUpload = TRUE
    MayConnectToUs = {addrA, addrB}
    MaxEvents = 4
    Peers = {"a", "b", "c"}
    AddrOf <- PeerAddresses
    Requesters = {}
    Local = {"b"}
    HasPex = {"a"}
    HasPunch = {"a"}
    HasMetadata = {"a"}
    Pieces = {1}
    Batch = 2
    MaxSent = 1
    Privacy = {FALSE}
    PexKinds = {}
    Octets4 = 1
    Octets6 = 2
    Base = 3
    MaxMsgs = 0
    MaxChanges = 5
    MaxQueue = 2
    DispatchPeers = {"a", "c"}
    DispatchAddrOf <- PeerAddresses
    DispatchRequesters = {"a"}
    DispatchLocal = {}
    DispatchHasPex = {"a"}
    DispatchHasPunch = {"a"}
    DispatchHasMetadata = {"a"}
    DispatchPieces = {1, 2}
    DispatchBatch = 1
    DispatchMaxSent = 1
    DispatchPrivacy = {TRUE, FALSE}
    MessageKinds <- AllKinds
    DispatchOctets4 = 1
    DispatchOctets6 = 2
    DispatchBase = 3
    DispatchMaxMsgs = 2
    DispatchMaxChanges = 2
    DispatchMaxQueue = 1
    Conns = {1}
    Incoming = {}
    HavesPieces = {p, q}
    Slots = 1
    Transports = {"tcp", "utp"}
    Uploads = TRUE
    Backlog = 1
    HavesMaxQueue = 1
    BufLen = 8
    MsgCount = 3
    AcceptConns = {1, 2, 3, 4}
    AcceptAddrOf <- Addresses
    Top = 5
    AcceptBlocked <- Block
    Allowed <- Allow
    MaxHandshakes = 2
    Calls = {c2, c3}
    TrackerOf <- TwoTrackers
    Tids = {1, 2, 3}
    Nothing = Nothing
    UdpMaxSent = 3
    MaxIds = 2
    MaxAge = 1
INVARIANTS PeersAreCounted OutsideIsScreened MessagesAreHeeded
CHECK_DEADLOCK FALSE
