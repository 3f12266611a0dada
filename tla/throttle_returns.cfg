\* Whoever waits in the throttle is let go, and the destructor joins.
SPECIFICATION FairSpec
CONSTANTS
  Capacity = 2
  ReadAhead = 1
  LiveThreshold = 0
  IdleLimit = 0
  SeekDistance = 1
  MaxTurns = 1
  Calls <- CallsReturns
PROPERTIES  DestructorReturns
CHECK_DEADLOCK FALSE
