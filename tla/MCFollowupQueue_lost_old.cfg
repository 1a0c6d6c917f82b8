SPECIFICATION Spec
CONSTANTS
  Msgs = {"a", "b", "c"}
  Unroutable = "nowhere"
  Solo = {}
  Abortable = {}
  Redelivered = {}
  Queues = {1}
  Clears = FALSE
  Foreign = FALSE
  MaxTurns = 1
  MaxFailures = 0
  Policies <- DroppingOld
  RouteOf <- MCRoute
  SenderOf <- MCSender
INVARIANT Accounted
CHECK_DEADLOCK FALSE
