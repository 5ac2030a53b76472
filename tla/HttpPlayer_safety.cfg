\* Ranges of two blocks in a file of three, two lanes, one retry, seeks to both ends.
CONSTANTS
  Length = 3
  Chunk = 2
  Late = 1
  Lanes = 2
  MaxRetries = 1
  Ahead = 4
  Behind = 0
  Startup = 1
  Resume = 2
  Low = 1
  Seeks = {0, 2}
SPECIFICATION FairSpec
\* A player that has stopped has nothing left to do.
CHECK_DEADLOCK FALSE
PROPERTIES
  LanesConsistent
  BlockedIsServed
  RebufferingEnds
