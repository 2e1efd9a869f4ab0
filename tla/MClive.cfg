SPECIFICATION FairDownloadSpec
CONSTANTS
  Peer = {a, b}
  NoPeer = NoPeer
  NoChunk = NoChunk
  Piece = {0, 1}
  File <- OneFile
  Byte <- Bytes3
  PieceOf <- PieceOf3
  ChunkOf <- ChunkOf3
  FileOf <- FileOf3
  Padding = {}
  InitialBitfield <- Seeders
  LaterHave <- Nobody
  OnlyFiles <- AllFiles
  Corrupt = {}
  ThiefMayStall = FALSE
  MaxDisturbances = 0
PROPERTY DownloadCompletes
