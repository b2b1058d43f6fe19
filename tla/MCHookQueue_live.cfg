SPECIFICATION FairSpec
CONSTANTS
  NoFile = NoFile
  NoJob = NoJob
  j1 = j1
  j2 = j2
  s1 = s1
  Jobs = {j1, j2}
  Spillable = {}
  Sessions = {s1}
  MaxAttempts = 2
  MaxFree = 1
  Parallel = 1
  QueueMax = 2
  MaxDeaths = 1
  MaxStops = 1
  MaxErrors = 0
PROPERTIES EveryJobEnds
CHECK_DEADLOCK FALSE
