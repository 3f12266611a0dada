\* One consumer thread, as clear() requires; a producer that is restarted after
\* clear(); then the owner destroys the pool, whose producer's stop() joins.
SPECIFICATION FairSpec
CONSTANTS
  Readers = {r1}
  Producer = producer
  Controller = controller
  Nobody = nobody
  Garbage = garbage
  NoRead = noRead
  Capacity = 2
  MaxPush = 5
  Offsets <- MCOffsets
  Lengths <- MCLengths
  Word <- MCWord
  Calls <- CallsOneConsumer
  StopJoins = TRUE
INVARIANTS
  TypeOK
  NonEmptyAtCopy
  DestroyedPoolUnused
PROPERTIES
  
  ReadReturns
CHECK_DEADLOCK FALSE
