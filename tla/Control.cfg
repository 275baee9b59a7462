SPECIFICATION LiveSpec
CONSTANTS
  a1 = a1
  p1 = p1
  h1 = h1
  Starts = {a1}
  Stops = {p1}
  Queries = {}
  Heartbeats = {h1}
  MaxPendingStarts = 1
  MaxPendingQueries = 1
  MaxConcurrentStarts = 1
  MaxAttachments = 2
INVARIANTS
  TypeOK
  OneController
  ShutdownHonest
PROPERTIES
  StopsServed
  ShutdownEnds
CHECK_DEADLOCK FALSE
