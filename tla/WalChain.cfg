SPECIFICATION Spec
CONSTANTS
  w1 = w1
  w2 = w2
  Upgrade = Upgrade
  Old = Old
  Writers = {w1, w2}
  Window = 3
  BatchSize = 2
  MaxFlags = 1
  MaxRows = 5
  MaxChecks = 1
  MaxStragglers = 1
  MaxAltered = 2
  MaxRetained = 1
  MaxInits = 1
  MaxEvents = 2
INVARIANTS
  Linked
  TamperingIsDetected
  AlarmsHaveCause
SYMMETRY WriterSymmetry
CHECK_DEADLOCK FALSE
