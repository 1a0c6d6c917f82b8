SPECIFICATION FairSpec
CONSTANTS
  Msgs = {"a", "c", "r", "s"}
  Unroutable = "nowhere"
  Solo = {"s"}
  Abortable = {"s"}
  Redelivered = {}
  Queues = {1}
  Clears = FALSE
  Foreign = TRUE
  MaxTurns = 1
  MaxFailures = 1
  Policies <- Dissolving
  RouteOf <- MCRoute
  SenderOf <- MCSender
INVARIANT MixedNeverMerged
PROPERTY QueueDissolves
CHECK_DEADLOCK FALSE
