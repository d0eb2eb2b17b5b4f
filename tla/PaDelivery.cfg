SPECIFICATION LiveSpec
CONSTANTS
  r1 = r1
  r2 = r2
  k1 = k1
  th1 = th1
  c1 = c1
  c2 = c2
  None = None
  NoKey = NoKey
  Request = {r1, r2}
  Key <- MCKey
  Thread <- MCThread
  Consumer = {c1, c2}
  MaxRetries = 2
  MaxCrashes = 1
  MaxOverruns = 1
INVARIANTS
  DuplicatesAreAccountedFor
  DeadOnlyAfterFailures
PROPERTY Delivered
CHECK_DEADLOCK FALSE
