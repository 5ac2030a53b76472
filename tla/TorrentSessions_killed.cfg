\* A torrent is played, cancelled and played again.
CONSTANTS
  Hashes = {h1, h2}
  Files = {0, 1}
  Largest = 0
  Indexes = {0, 1, 2}
  MaxEngines = 3
  Null = Null
\* Once all engines are made, stopped and settled, nothing is left to do.
CHECK_DEADLOCK FALSE
SPECIFICATION SessionsSpec
INVARIANTS
  PlayedEngineRuns
