\* Three libraries, two of which may hold the same plugin, and three SIGTERMs.
SPECIFICATION FairSpec
CONSTANTS
  NumLibs = 3
  Ids = {p, q}
  Main = main
  Workers = {w1, w2}
  Nobody = nobody
  MaxSignals = 3
INVARIANTS
  ServedAreLoaded
  OpenedAreLoaded
  UnloadedOnce
  KilledAfterUnload
PROPERTY SigtermEndsProcess
CHECK_DEADLOCK FALSE
