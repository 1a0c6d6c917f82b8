SPECIFICATION FairSpec
CONSTANTS
  r1 = r1
  r2 = r2
  r3 = r3
  c1 = c1
  s1 = s1
  Runs = {r1, c1}
  Sessions = {s1}
  SessionOf <- MCOneSession
  ManualCron = {c1}
  TimedRuns = {r1, c1}
  GlobalWidths = {1}
  MaxGeneration = 1
PROPERTIES
  RunsAnswered
