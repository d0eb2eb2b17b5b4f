SPECIFICATION LiveSpec
CONSTANTS
  j1 = j1
  j2 = j2
  j3 = j3
  Job = {j1}
  Kinds = {"shell", "ai", "pipeline", "unknown"}
  Concurrency = 1
  Attempts = 2
  Threshold = 2
  MaxFaults = 1
  MaxStops = 1
INVARIANTS
  SuccessIsExplained
  OneAlertPerStreak
PROPERTIES
  LiveLoopsAreSpared
  RunsEnd
CHECK_DEADLOCK FALSE
