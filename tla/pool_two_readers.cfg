\* Two consumer threads share the pool: rotation, waits, aborts and trims.
SPECIFICATION Spec
CONSTANTS
  Readers = {r1, r2}
  Producer = producer
  Controller = controller
  Nobody = nobody
  Garbage = garbage
  NoRead = noRead
  Capacity = 2
  MaxPush = 4
  Offsets <- FewOffsets
  Lengths <- FewLengths
  Word <- MCWord
  Calls <- CallsShared
  StopJoins = FALSE
INVARIANTS
  RingIsStreamTail
  NeverAheadOfProducer
PROPERTIES
  ReadServesStream
  TrimStopsAtLastRead
  WindowSpec
