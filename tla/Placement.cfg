SPECIFICATION LiveSpec
CONSTANTS
  Hosts = {h1, h2}
  None = None
  Pins = {None, h1}
  MaxLag = 3
  MaxInbox = 2
  MaxFaults = 1
INVARIANTS
  HeldWhereRecorded
PROPERTIES
  
  NeverRebound
  DeletionCompletes
  PlacementSettles
CHECK_DEADLOCK FALSE
