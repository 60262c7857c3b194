CONSTANTS
  Requests = {r1, r2}
  Replenisher = replenisher
  Saver = saver
  Ids = {w1, w2}
  Names = {}
  IPs = {a1, a2}
  None = None
  MaxWorkspaces = 1
  MaxForks = 1
  PoolEnabled = FALSE
  TargetFree = 0
  MaxPoolSize = 0
  PoolBudget = 0
  CidStart = 3
  CidLimit = 4
  Calls = {"create", "start", "stop", "destroy", "save"}
  OneCallAtATime = FALSE
  Faults = {"storage", "configure", "tap", "vm"}
SPECIFICATION Spec
CONSTRAINT FreeListBound
SYMMETRY Symmetry
INVARIANTS TypeOK QuotaHeld FileIsCurrent
