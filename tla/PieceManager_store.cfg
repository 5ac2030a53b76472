\* Three pieces of 2, 2 and 1 blocks, every eviction and hash interleaving;
\* no requests, since onBlock stores a block whether or not it was requested.
CONSTANTS
  TotalLength = 5
  PieceLength = 2
  BlockSize = 1
  MaxDupCritical = 1
  CriticalPieces = 1
  WindowPieces = 2
  Offsets = {0, 2, 5}
  MaxPick = 0
  Buffers = {1, 2, 3}
SPECIFICATION Spec
INVARIANTS
  PiecesConsistent
  VerifiedReads
PROPERTY StoreSpec
