SPECIFICATION DownloadSpec
CONSTANTS
  Peer = {a, b}
  NoPeer = NoPeer
  NoChunk = NoChunk
  Piece = {0, 1}
  File <- TwoFiles
  Byte <- Bytes4
  PieceOf <- PieceOf4
  ChunkOf <- ChunkOf4
  FileOf <- FileOf4
  Padding = {}
  InitialBitfield <- SeederAndLeech
  LaterHave <- LeechLater
  OnlyFiles <- AllFiles
  Corrupt = {b}
  ThiefMayStall = TRUE
  MaxDisturbances = 0
INVARIANTS
  DownloadInv NeededPiecePursued
PROPERTY KeepsLifecycle
