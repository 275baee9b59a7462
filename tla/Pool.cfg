SPECIFICATION LiveSpec
CONSTANTS
  c1 = c1
  c2 = c2
  c3 = c3
  Calls = {c1, c2, c3}
  MaxInstances = 3
  PoolSize = 2
  MaxConcurrency = 1
  MaxInvocations = 2
  MinInstances = 1
  RuntimeStops = TRUE
INVARIANTS
  TypeOK
  WithinPoolSize
  ClosedStaysEmpty
  OneSweeper
  SurplusIsSwept
  PeakCovers
PROPERTIES
  QuietPoolShrinks
CHECK_DEADLOCK FALSE
