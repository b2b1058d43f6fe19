SPECIFICATION RSpec
CONSTANTS
  NoPath = NoPath
  NoEvent = NoEvent
  Nobody = Nobody
  Operator = Operator
  p1 = p1
  i1 = i1
  i2 = i2
  i3 = i3
  h1 = h1
  h2 = h2
  w1 = w1
  w2 = w2
  Paths = {p1}
  Ids = {i1, i2, i3}
  Hooks = {h1, h2}
  Workers = {w1, w2}
  Slice = 2
  Over = 1
  SpawnCap = 0
  HoldSettings = {FALSE, TRUE}
  MaxSize = 2
  MaxFaults = 1
  MaxCommands = 2
SYMMETRY Symmetry
CONSTRAINT SameHold
ACTION_CONSTRAINT KeepsHold
INVARIANTS ReleasedSafely
PROPERTIES DoneIsNotRequeued ForcedMarkInherited
CHECK_DEADLOCK FALSE
