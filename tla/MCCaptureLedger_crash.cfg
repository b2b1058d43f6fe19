SPECIFICATION Spec
CONSTANTS
  NoPath = NoPath
  NoEvent = NoEvent
  Nobody = Nobody
  Operator = Operator
  p1 = p1
  i1 = i1
  i2 = i2
  i3 = i3
  h1 = h1
  h2 = h2
  w1 = w1
  w2 = w2
  Paths = {p1}
  Ids = {i1, i2, i3}
  Hooks = {h1, h2}
  Workers = {w1, w2}
  Slice = 1
  Over = 0
  SpawnCap = 0
  HoldSettings = {FALSE, TRUE}
  MaxSize = 2
  MaxFaults = 2
  MaxCommands = 1
SYMMETRY Symmetry
INVARIANTS TypeOK NothingLost NoByteSkipped
PROPERTIES ImplementsService HoldImportsNothing
CHECK_DEADLOCK FALSE
