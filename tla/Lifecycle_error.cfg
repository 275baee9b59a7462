SPECIFICATION Spec
CONSTANTS
  s1 = s1
  w1 = w1
  Ids = {w1}
  PluginIds = {}
  NoId = NoId
  NumBindings = 1
  MaxReservations = 2
  MaxConcurrentStarts = 1
  Stoppers = {s1}
  Task = Task
  Nobody = Nobody
  OffRuntimeDrops = FALSE
SYMMETRY Symmetry
INVARIANTS
  ErrorHoldsNothing
