SPECIFICATION VariantsSpec
CONSTANTS
  j1 = j1
  j2 = j2
  j3 = j3
  r1 = r1
  r2 = r2
  s1 = s1
  s2 = s2
  NoFile = NoFile
  NoJob = NoJob
  Jobs = {j1, j2, j3, r1, r2}
  Spillable = {r1}
  Sessions = {s1}
  MaxAttempts = 2
  MaxFree = 0
  Parallel = 1
  QueueMax = 2
  MaxDeaths = 0
  MaxStops = 0
  MaxErrors = 0
  MaxRequeues = 2
SYMMETRY Symmetry
INVARIANTS RequeuedSafely
PROPERTIES ThreadsInOrder
CHECK_DEADLOCK FALSE
