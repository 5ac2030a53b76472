\* Two pieces of 2 and 1 blocks; requests race, age, are lost and are answered.
CONSTANTS
  TotalLength = 3
  PieceLength = 2
  BlockSize = 1
  MaxDupCritical = 2
  CriticalPieces = 1
  WindowPieces = 2
  Offsets = {0, 2}
  MaxPick = 1
  Buffers = {1, 2}
SPECIFICATION FairSpec
PROPERTY HeadServed
