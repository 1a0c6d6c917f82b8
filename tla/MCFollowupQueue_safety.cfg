SPECIFICATION Spec
CONSTANTS
  Msgs = {"a", "c", "s"}
  Unroutable = "nowhere"
  Solo = {"s"}
  Abortable = {"s"}
  Redelivered = {"a"}
  Queues = {1, 2}
  Clears = TRUE
  Foreign = TRUE
  MaxTurns = 1
  MaxFailures = 1
  Policies <- Refusing
  RouteOf <- MCRoute
  SenderOf <- MCSender
INVARIANT TypeOK
INVARIANT RegisteredHolds
INVARIANT Accounted
INVARIANT HandIsHead
INVARIANT OncePerQueue
INVARIANT LifecycleSettled
CHECK_DEADLOCK FALSE
