SPECIFICATION FairSpec
CONSTANTS
  Turns = {o1, o2}
  FollowUps = {o2}
  None = None
  MaxSids = 2
  MaxAttempts = 2
  MaxRecoveries = 1
INVARIANTS TypeOK RegistryExact IndexExact WaitersLive
PROPERTIES AttachedIsRegistered OnlyItsOwnEnd TurnsEnd
CHECK_DEADLOCK FALSE
