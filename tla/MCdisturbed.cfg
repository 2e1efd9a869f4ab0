SPECIFICATION DisturbedSpec
CONSTANTS
  Peer = {a, b}
  NoPeer = NoPeer
  NoChunk = NoChunk
  Piece = {0, 1}
  File <- TwoFiles
  Byte <- Bytes2
  PieceOf <- PieceOf2
  ChunkOf <- ChunkOf2
  FileOf <- FileOf2
  Padding = {}
  InitialBitfield <- Seeders
  LaterHave <- Nobody
  OnlyFiles <- OneOrBoth
  Corrupt = {}
  ThiefMayStall = FALSE
  MaxDisturbances = 2
INVARIANTS  HnsInSync OnlyHashChecksAreLost
SYMMETRY PeerSymmetry
