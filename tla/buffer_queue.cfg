\* More buffers than a queue holds, and a clear in between.
SPECIFICATION FairSpec
CONSTANTS
  Producers = {p1, p2}
  Consumers = {c1, c2}
  Owner = owner
  Buffers = {b1, b2, b3}
  NoBuffer = noBuffer
  Depth = 2
  MaxClears = 1
INVARIANTS
  TypeOK
  OnePlace
  StuckOnlyWhenFull
  NoLostWakeup
PROPERTIES
  BuffersGoRound
  CycleSpec
