SPECIFICATION Spec
CONSTANTS
  d1 = d1
  d2 = d2
  w1 = w1
  w2 = w2
  t1 = t1
  t2 = t2
  i1 = i1
  i2 = i2
  c1 = c1
  c2 = c2
  c3 = c3
  c4 = c4
  ab = ab
  a_b = a_b
  k = k
  None = None
  NoRun = NoRun
  Drawer = {d1, d2}
  Room <- MCRoom
  Waiter = {w1, w2}
  Matches <- MCMatches
  Expiring = {w2}
  Trigger = {t1, t2}
  Role <- MCRole
  BatchSize = 2
  MaxFaults = 1
  Item = {i1, i2}
  Subscriptions <- MCSubscriptions
  MinCount = 2
  MaxBatch = 2
  MaxCrossings = 1
  MaxFails = 2
  Call = {c1, c2, c3, c4}
  KeyOf <- MCKeyOf
  Valid = {c1, c2, c3, c4}
  Skills = {ab, a_b}
  SkillOf <- MCSkillOf
  IdParts <- MCIdParts
  Declared <- MCDeclared
INVARIANTS
  FanOutIsAccountedFor
  WaitersAreServed
  ItemsAreAccountedFor
  RequestsCollapse
CHECK_DEADLOCK FALSE
PROPERTY IngressIsServed
