SPECIFICATION LiveSpec
CONSTANTS
  c1 = c1
  c2 = c2
  c3 = c3
  c4 = c4
  c5 = c5
  NoCall = NoCall
  Call <- MCCall
  NumGroups = 3
  Groups <- MCGroups
  Concurrency = 4
INVARIANTS MutualExclusion FifoGrant NoCircularWait
PROPERTY WaiterRuns
CHECK_DEADLOCK FALSE
