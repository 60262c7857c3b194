CONSTANTS
  Requests = {r1, r2}
  Replenisher = replenisher
  Saver = saver
  Ids = {w1, w2, w3}
  Names = {}
  IPs = {a1, a2}
  None = None
  MaxWorkspaces = 2
  MaxForks = 1
  PoolEnabled = FALSE
  TargetFree = 0
  MaxPoolSize = 0
  PoolBudget = 0
  CidStart = 3
  CidLimit = 8
  Calls = {"create", "fork", "start", "stop", "destroy"}
  OneCallAtATime = TRUE
  Faults = {"network", "launch"}
SPECIFICATION Spec
SYMMETRY Symmetry
INVARIANTS CidsOwnedOnce IpsOwnedOnce VmsAccountedFor
PROPERTIES DisksAccountedFor
