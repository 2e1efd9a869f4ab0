SPECIFICATION CalmSpec
CONSTANTS
  Addr = {addrA, addrB}
  NoAddr = NoAddr
  Task = {t1, t2}
  NoTask = NoTask
  Seeds = {addrA}
  Blocked = {}
  Announces <- SameAddress
  PeerLimit = 2
  QueueCap = 8
  DisableUpload = FALSE
  MayConnectToUs = {addrB}
  MaxEvents = 5
CHECK_DEADLOCK FALSE
INVARIANTS
  PeersConsistent
PROPERTIES
  FailedPeerIsRetried
  QueuedIsTried
