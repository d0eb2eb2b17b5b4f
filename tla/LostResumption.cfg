SPECIFICATION Spec
CONSTANTS
  w1 = w1
  r1 = r1
  c1 = c1
  c2 = c2
  c3 = c3
  p1 = p1
  t1 = t1
  None = None
  Waitpoint = {w1}
  Engine = {w1}
  Choice = {"approve", "reject", "edit", "later"}
  Offered <- MCOffered
  Strategy <- MCStrategy
  Policy <- MCPolicy
  RunOf <- MCRunOf
  ById = {}
  Click = {c1, c2, c3}
  Api = {p1}
  Library = {}
  Target <- MCTarget
  Pick <- MCPick
  Tick = {t1}
  MaxFaults = 1
INVARIANT SettledWinnerResumes
CHECK_DEADLOCK FALSE
