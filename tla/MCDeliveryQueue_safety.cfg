SPECIFICATION FairSpec
CONSTANTS
  Msgs = {"m"}
  Kinds <- AllKinds
  Drains = {"telegram"}
  MAX_RETRIES = 2
  MaxCrashes = 1
  MaxFaults = 1
INVARIANTS
  TypeOK
  OneOwner
  NothingLost
PROPERTIES
  MarkedSentOnce
  RetriesEnd
CHECK_DEADLOCK FALSE
