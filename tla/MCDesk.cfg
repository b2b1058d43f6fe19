SPECIFICATION DeskSpec
CONSTANTS
  Off = Off
  k1 = k1
  k2 = k2
  p1 = p1
  p2 = p2
  s1 = s1
  s2 = s2
  c1 = c1
  c2 = c2
  h1 = h1
  l1 = l1
  l2 = l2
  w1 = w1
  w2 = w2
  daemon = daemon
  enricher = enricher
  Lines = {l1, l2}
  Workspaces = {w1, w2}
  DaemonEnvs = {"none", w1}
  MaxSwitches = 1
  Accounts = {"a1", "a2"}
  Environments <- DeskShells
  MaxCommands = 2
  MaxFaults = 1
  MaxMoves = 1
  Shells = {s1, s2}
  Olds = 2
  Lessons = 2
  Changes = {c1, c2}
  Extra = 3
  MaxSize = 6
  Cap = 2
  MaxRows = 3
  MaxTop = 1
  Widths <- DeskWidths
  Keys = {k1}
  MaxOps = 2
  MaxStamp = 2
  MaxFiles = 2
  Prints = {p1}
  Senders = {s1, s2}
  MaxQueue = 1
  DailyCap = 2
  ManualCap = 1
  MaxReports = 2
INVARIANTS DeskTypesOK LessonsReplaySafely SlicesPartition SetupIsTrue  AnswersAreComplete
PROPERTIES  ReportsAreKept 
CHECK_DEADLOCK FALSE
