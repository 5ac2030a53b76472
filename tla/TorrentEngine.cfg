\* Three addresses for two slots, two dials at a time; two pieces of one block, two
\* peers, pipelines of one request.
CONSTANTS
  Addrs = {a1, a2, a3}
  MaxPeers = 2
  MaxConnecting = 2
  MaxKnown = 2
  LowPeers = 1
  MaxFound = 2
  TotalLength = 2
  PieceLength = 1
  BlockSize = 1
  MaxDupCritical = 2
  CriticalPieces = 1
  WindowPieces = 2
  Offsets = {0, 1}
  MaxPick = 1
  Buffers = {1}
  FileEnd = 2
  PipelineDepth = 1
  MaxPending = 2
  Peers = {p1, p2}
SPECIFICATION EngineSpec
SYMMETRY Symmetry
\* A stopped engine has nothing left to do.
CHECK_DEADLOCK FALSE
INVARIANT BooksAgree
PROPERTY SlotsConsistent
