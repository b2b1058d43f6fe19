SPECIFICATION Spec
CONSTANTS
  NoPath = NoPath
  NoEvent = NoEvent
  Nobody = Nobody
  Operator = Operator
  p1 = p1
  i1 = i1
  i2 = i2
  i3 = i3
  h1 = h1
  h2 = h2
  h3 = h3
  w1 = w1
  w2 = w2
  w3 = w3
  Paths = {p1}
  Ids = {i1, i2, i3}
  Hooks = {h1, h2, h3}
  Workers = {w1, w2, w3}
  Slice = 1
  Over = 0
  SpawnCap = 2
  HoldSettings = {FALSE}
  MaxSize = 1
  MaxFaults = 0
  MaxCommands = 0
SYMMETRY Symmetry
INVARIANTS NeverStranded
CHECK_DEADLOCK FALSE
