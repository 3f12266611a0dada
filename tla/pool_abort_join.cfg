\* abortAllOperations() with a producer whose stop() joins its thread.
SPECIFICATION FairSpec
CONSTANTS
  Readers = {r1}
  Producer = producer
  Controller = controller
  Nobody = nobody
  Garbage = garbage
  NoRead = noRead
  Capacity = 2
  MaxPush = 2
  Offsets <- FewOffsets
  Lengths <- FewLengths
  Word <- MCWord
  Calls <- CallsAbort
  StopJoins = TRUE
PROPERTY
  AbortStopsProducer
CHECK_DEADLOCK FALSE
