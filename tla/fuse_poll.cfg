\* Two clients, one file that stays and one that comes and goes.
SPECIFICATION FairSpec
CONSTANTS
  Clients = {c1, c2}
  Files = {config, extra}
  Watched = {{config}, {config, extra}}
  Dropped = {extra}
  MaxUpdates = 1
INVARIANTS
  TypeOK
  RegisteredAreLive
  SleeperIsRegistered
PROPERTIES
  NotifiedSelectReturns
  ReaderComesToRest
CHECK_DEADLOCK FALSE
