SPECIFICATION Spec
CONSTANTS
  r1 = r1
  r2 = r2
  r3 = r3
  c1 = c1
  s1 = s1
  Runs = {r1, r2, r3}
  Sessions = {s1}
  SessionOf <- MCOneSession
  ManualCron = {}
  TimedRuns = {r1}
  GlobalWidths = {1, 2}
  MaxGeneration = 1
SYMMETRY MCSymmetry
INVARIANTS
  SessionSerial
PROPERTIES
  ServesSessions
