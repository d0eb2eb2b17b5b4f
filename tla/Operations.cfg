SPECIFICATION Spec
CONSTANTS
  Window = 3
  HardCap = 8
  MaxBacklog = 2
  MaxUpsets = 1
  Runs = {r1, r2}
  MaxClients = 3
  MaxDeaths = 1
  NoClient = NoClient
INVARIANTS
  VerdictIsFair
  PoolIsSound
PROPERTY
  WaitsEnd
CHECK_DEADLOCK FALSE
