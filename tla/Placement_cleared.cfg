SPECIFICATION Spec
CONSTANTS
  Hosts = {h1, h2}
  None = None
  Pins = {None}
  MaxLag = 3
  MaxInbox = 2
  MaxFaults = 2
INVARIANTS
  NothingToStop
CHECK_DEADLOCK FALSE
