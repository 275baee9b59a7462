SPECIFICATION Spec
CONSTANTS
  c1 = c1
  c2 = c2
  c3 = c3
  Calls = {c1, c2, c3}
  MaxConcurrency = 2
  MaxInvocations = 0
  PoolLock = TRUE
INVARIANTS
  DrainsWhatItTook
CHECK_DEADLOCK FALSE
