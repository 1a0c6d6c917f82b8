SPECIFICATION FairSpec
CONSTANTS
  Procs = {g1, g2, g3}
  Supervised = {g1}
  Ports = {n1}
  PortOf <- SamePort
  Patience = 2
  Pause = 2
  RetryFor = 4
  StaleAge = 4
  None = None
  MaxCrashes = 2
INVARIANTS TypeOK FileAccounted
PROPERTY StartsGetThrough
CHECK_DEADLOCK FALSE
