SPECIFICATION Spec
CONSTANTS
  Msgs = {"m"}
  Kinds <- Swallowing
  Drains = {"telegram"}
  MAX_RETRIES = 2
  MaxCrashes = 1
  MaxFaults = 0
INVARIANT FailureTracked
CHECK_DEADLOCK FALSE
