\* Every call and a turn of the ring: nothing is lost between the threads' flags.
SPECIFICATION Spec
CONSTANTS
  Capacity = 3
  ReadAhead = 1
  LiveThreshold = 1
  IdleLimit = 1
  SeekDistance = 1
  MaxTurns = 1
  Calls <- CallsClear
INVARIANTS TypeOK NoLostWakeup LastReadBehindThrottle
PROPERTIES  TrimKeepsRead
