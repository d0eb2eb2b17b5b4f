SPECIFICATION Spec
CONSTANTS
  sonnet = sonnet
  opus = opus
  gpt = gpt
  s1 = s1
  s2 = s2
  pa = pa
  mon = mon
  Models <- MCModels
  Anthropic = {sonnet, opus}
  Price <- MCPrice
  Usage = {1, 2}
  MaxTurns = 3
  MaxAttempts = 2
  MaxSame = 2
  MaxErrors = 2
  MaxSpend = 3
  MaxTokens = 4
  MaxTools = 2
  Slot = {s1, s2}
  Talk = {pa}
  Monitor = mon
  Budget = 2
  RunCap = 2
  TurnCost = 1
  TalkCost = 2
  MaxRuns = 4
  MaxDays = 2
  MaxErrs = 1
  MaxStops = 1
INVARIANTS
  SpendIsCapped
  OvershootIsBounded
  PausesAreOwned
PROPERTY
  PausesEnd
CHECK_DEADLOCK FALSE
