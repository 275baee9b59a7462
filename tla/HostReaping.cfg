SPECIFICATION LiveSpec
CONSTANTS
  Window = 6
  Interval = 1
  ProbeTimeout = 1
  MaxLag = 1
PROPERTIES
  JustReaps
  DeadIsReaped
