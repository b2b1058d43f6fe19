SPECIFICATION Spec
CONSTANTS
  NoFile = NoFile
  NoJob = NoJob
  j1 = j1
  j2 = j2
  s1 = s1
  Jobs = {j1, j2}
  Spillable = {j1, j2}
  Sessions = {s1}
  MaxAttempts = 2
  MaxFree = 1
  Parallel = 2
  QueueMax = 1
  MaxDeaths = 1
  MaxStops = 1
  MaxErrors = 1
SYMMETRY Symmetry
CONSTRAINT AtMostTwo
INVARIANTS TypeOK JobNotLost PayloadKept RetriesAreFair WrittenOnce
PROPERTIES ImplementsService SessionOrder
CHECK_DEADLOCK FALSE
