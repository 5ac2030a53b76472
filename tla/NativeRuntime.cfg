\* Two promises: one is handled late while the other is pending.  Grants below and
\* above what V8 asks for at least, an arena that cannot be had, and limits on both
\* sides of the smallest heap.  And a source and a gain, a ring of three frames,
\* timelines of three events, and three graphs for two voices.
CONSTANTS
  Promises = {p1, p2}
  None = None
  Regimes <- MCRegimes
  Grants = {0, 60, 137, 300}
  Arenas = {0, 256, 1024}
  Limits = {0, 16, 64, 900}
  MayFail = {"hidsys"}
  Sources = {s1}
  Gains = {g1}
  Dest = d
  Voices = {0, 1}
  Buffers = {1, 2}
  Graphs = {a1, a2, a3}
  Capacity = 3
  Quantum = 2
  MaxWrite = 2
  MaxFrames = 7
SPECIFICATION RuntimeSpec
\* The program ends; a graph that was freed, and a stream or a clock at its
\* bound, are done.
CHECK_DEADLOCK FALSE
INVARIANTS
  ResourcesReturned
  StreamConsistent
  SinksConsistent
PROPERTIES
  ErrorsLeaveAWayOut
  StreamIsQueue
  GraphConsistent
  TimelineKept
