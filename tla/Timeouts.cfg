SPECIFICATION Spec
CONSTANTS
  w1 = w1
  w2 = w2
  r1 = r1
  r2 = r2
  l1 = l1
  l2 = l2
  t1 = t1
  t2 = t2
  None = None
  Waitpoint = {w1, w2}
  Engine = {}
  Choice = {"approve"}
  Offered <- MCOffered
  Strategy <- MCStrategy
  Policy <- MCPolicy
  RunOf <- MCRunOf
  ById = {}
  Click = {}
  Api = {}
  Library = {l1, l2}
  Target <- MCTarget
  Pick <- MCPick
  Tick = {t1, t2}
  MaxFaults = 2
INVARIANT
  OneResolution
PROPERTIES
  CancelOnlyUnanswered
CHECK_DEADLOCK FALSE
