SPECIFICATION LiveDispatch
CONSTANTS
  k1 = k1
  k2 = k2
  k3 = k3
  N = 6
  Kind <- MCKind
  KeyOf <- MCKeyOf
  Later = {4}
  BatchSize = 3
  MaxAttempts = 2
  MaxFaults = 2
INVARIANTS
  PostsAreAccountedFor
PROPERTY Dispatched
CHECK_DEADLOCK FALSE
