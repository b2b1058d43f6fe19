SPECIFICATION RequeueSpec
CONSTANTS
  NoFile = NoFile
  NoJob = NoJob
  j1 = j1
  s1 = s1
  Jobs = {j1}
  Spillable = {}
  Sessions = {s1}
  MaxAttempts = 5
  MaxFree = 0
  Parallel = 1
  QueueMax = 1
  MaxDeaths = 0
  MaxStops = 0
  MaxErrors = 0
  MaxRequeues = 1
SYMMETRY Symmetry
INVARIANTS JobNotLost
CHECK_DEADLOCK FALSE
