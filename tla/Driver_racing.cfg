SPECIFICATION LiveSpec
CONSTANTS
  c1 = c1
  c2 = c2
  c3 = c3
  c4 = c4
  Calls = {c1, c2, c3, c4}
  MaxConcurrency = 2
  MaxInvocations = 3
  PoolLock = FALSE
INVARIANTS
  SlotsAccounted
  ChannelHasRoom
  BudgetExact
  DrainSignalled
PROPERTIES
  RetiredEnds
CHECK_DEADLOCK FALSE
