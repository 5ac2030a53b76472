\* Two contexts that share a gradient, and three wrappers over two GL names, so that
\* a name is given out again while a wrapper of its former object is left.
CONSTANTS
  Contexts = {c1, c2}
  Gradients = {g1}
  NoGradient = NoGradient
  Sizes = {0, 1, 2, 3}
  TooLarge = 3
  Marks = {"a", "b"}
  MaxStates = 2
  MaxPath = 2
  Numbers <- MCNumbers
  FontSizes = {20}
  DashLists <- MCDashLists
  MaxStyles = 2
  MaxStops = 2
  MaxVersions = 3
  Extents = {1, 2, 3}
  Positions <- MCPositions
  Wrappers = {w1, w2, w3}
  Names = {1, 2}
  MaxMade = 3
  Widths <- MCWidths
  Heights <- MCHeights
  MaxSize = 4
  Pixels = {0, 3}
  Alignments = {1, 3}
  RowLengths = {0, 1, 3}
  Lengths = {0, 12, 22, 31}
  Offsets = {0, 11, 63}
  Counts = {0, 2, 12, 58, 63}
  Vectors = {1, 3}
  Word = 64
SPECIFICATION Spec
\* A copy of pixels is one call, and versions and objects are bounded.
CHECK_DEADLOCK FALSE
INVARIANTS
  CanvasDrawsOnItsOwn
  StyleDrawsAsSet
  DrawsCurrentPixels
  
  ObjectsAsNamed
  BytesInView
