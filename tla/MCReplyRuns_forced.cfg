SPECIFICATION Spec
CONSTANTS
  Turns = {o1, o2}
  FollowUps = {o2}
  None = None
  MaxSids = 2
  MaxAttempts = 2
  MaxRecoveries = 1
PROPERTY ForceClearsItsRun
CHECK_DEADLOCK FALSE
