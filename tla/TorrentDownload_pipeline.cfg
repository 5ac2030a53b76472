\* Two pieces of a block each, a pipeline of one request, two peers.
CONSTANTS
  TotalLength = 2
  PieceLength = 1
  BlockSize = 1
  MaxDupCritical = 2
  CriticalPieces = 1
  WindowPieces = 2
  Offsets = {0, 1}
  MaxPick = 1
  Buffers = {1}
  FileEnd = 2
  PipelineDepth = 1
  MaxPending = 2
  Peers = {p1, p2}
SPECIFICATION DownloadSpec
\* A download in which all is read has nothing left to do.
CHECK_DEADLOCK FALSE
INVARIANT PipelineKept
