SPECIFICATION DaemonSpec
CONSTANTS
  Nobody = Nobody
  h1 = h1
  h2 = h2
  h3 = h3
  d1 = d1
  d2 = d2
  d3 = d3
  Hooks = {h1, h2, h3}
  Drainers = {d1, d2, d3}
  MaxDeaths = 1
  j1 = j1
  r1 = r1
  r2 = r2
  w1 = w1
  p1 = p1
  p2 = p2
  q1 = q1
  q2 = q2
  l1 = l1
  l2 = l2
  Turns = 2
  Tools = 1
  Quick = TRUE
  LegacyWorkers = {l1, l2}
  Agent = l1
  Items = {j1}
  MaxClears = 1
INVARIANTS DaemonTypesOK NeverStranded OneConsumer 
PROPERTIES DrainsEnd DaemonStops  ViewerAnswers OnlyQuietRowsRecovered
CHECK_DEADLOCK FALSE
