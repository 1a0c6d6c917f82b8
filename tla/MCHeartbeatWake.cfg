SPECIFICATION FairSpec
CONSTANTS
  Targets = {"t1","t2"}
  Requests = {"interval", "action", "other"}
  TargetOf <- MCTarget
  PriorityOf <- MCPriority
  DelayOf <- MCDelay
  DEFAULT_COALESCE = 1
  DEFAULT_RETRY = 2
  MaxHandlers = 2
  MaxBatches = 2
  MaxErrors = 1
INVARIANTS TypeOK WakeKept NoStall BatchesApart
PROPERTIES CooldownKept WakesAnswered
CHECK_DEADLOCK FALSE
