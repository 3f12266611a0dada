\* One client, one file, two updates.
SPECIFICATION Spec
CONSTANTS
  Clients = {c1}
  Files = {config}
  Watched = {{config}}
  Dropped = {}
  MaxUpdates = 2
INVARIANT SleepersHaveReadAll
CHECK_DEADLOCK FALSE
