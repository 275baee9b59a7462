SPECIFICATION LiveSpec
CONSTANTS
  s1 = s1
  w1 = w1
  Ids = {w1}
  PluginIds = {}
  NoId = NoId
  NumBindings = 2
  MaxReservations = 2
  MaxConcurrentStarts = 1
  Stoppers = {s1}
  Task = Task
  Nobody = Nobody
  OffRuntimeDrops = TRUE
INVARIANTS
  Ownership
  NeverAbandoned
  RunningIntact
  Accounted
PROPERTIES
  ReportedFailureKept
  ImplementsPromise
  StartSettles
  TeardownCompletes
