\* A resource of up to four bytes, three sockets of which one is secure and two
\* descriptors, a video and two media sources, an arena of up to four
\* pages, inputs of up to five units, two calls on a tree of four paths, and a file
\* of five bytes.
CONSTANTS
  Lengths = {2, 4}
  MaxRead = 2
  SkipForwardMax = 2
  Targets <- MCTargets
  MaxExtra = 1
  Sockets = {p, q, x}
  Secure = {x}
  Videos = {v}
  Tasks = {t1, t2}
  SlabPages = 2
  ArenaSizes = {3, 4}
  CodeFloor = 2
  Headroom = 1
  CodeCaps = {1, 5}
  MaxCode = 3
SPECIFICATION IoSpec
\* A handle that made all its loads, with nothing in flight, is done, as is a stream at its end.
CHECK_DEADLOCK FALSE
INVARIANT ArenaAccounted
PROPERTIES
  ArenaIsMemory
  StreamFollowsPosition
  DescriptorsAccounted
  LoadsAccounted
  PackingWhole
  TreeKept
  FileReadOnce
