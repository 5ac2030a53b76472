\* Chunks of up to three bytes over a resource of four; two torrents of two
\* files, three engines and an index out of range; two addresses for one slot.
CONSTANTS
  Size = 4
  MaxProvide = 3
  MaxRead = 2
  Hashes = {h1, h2}
  Files = {0, 1}
  Largest = 0
  Indexes = {0, 1, 2}
  MaxEngines = 3
  Null = Null
  Addrs = {a1, a2}
SPECIFICATION StreamingSpec
\* Once all engines are made, stopped and settled, nothing is left to do.
CHECK_DEADLOCK FALSE
INVARIANTS
  SourceConsistent
  RegistryConsistent
PROPERTIES
  BlockedReadEnds
  RetainKeepsWindow
  ConnectingEnds
  StopDrains
  AddressTried
