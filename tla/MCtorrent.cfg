SPECIFICATION FairSpec
CONSTANTS
  Client = {adder, user}
  Adder = adder
  InitPermits = 1
  MaxCalls = 3
  MaxFailures = 1
CHECK_DEADLOCK FALSE
INVARIANTS
  TorrentIsConsistent FlagIsHonoured DeletedStops
PROPERTY InitializingEnds
