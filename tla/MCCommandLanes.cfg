SPECIFICATION FairSpec
CONSTANTS
  main = main
  probe = probe
  a1 = a1
  a2 = a2
  b1 = b1
  Lanes = {main, probe}
  ProbeLanes = {probe}
  Entries = {a1, a2, b1}
  LaneOf <- MCLaneOf
  TimedEntries = {a1, a2}
  Waiters = {1}
  TimedWaiters = {1}
  Widths = {0, 1, 2}
  MaxGeneration = 1
INVARIANTS
  TypeOK
  GenerationSound
  NoIdleSlot
  NothingLost
  WaitersExact
PROPERTIES
  SlotsRespected
  NoOvertaking
  TimedLaneDrains
