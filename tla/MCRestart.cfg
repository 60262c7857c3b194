CONSTANTS
  Requests = {r1}
  Replenisher = replenisher
  Saver = saver
  Ids = {w1, w2, w3}
  Names = {}
  IPs = {a1, a2}
  None = None
  MaxWorkspaces = 1
  MaxForks = 1
  PoolEnabled = TRUE
  TargetFree = 1
  MaxPoolSize = 1
  PoolBudget = 1
  CidStart = 3
  CidLimit = 8
  Calls = {"create", "stop", "destroy", "save"}
  OneCallAtATime = TRUE
  Faults = {"network", "crash"}
SPECIFICATION Spec
CONSTRAINT FreeListBound
SYMMETRY Symmetry
INVARIANTS SavedCounterFresh
PROPERTIES RestartKeepsWorkspaces
