SPECIFICATION LiveSpec
CONSTANTS
  Window = 12
  Interval = 3
  ProbeTimeout = 1
  MaxLag = 0
PROPERTIES
  DeafnessCondemnsNobody
