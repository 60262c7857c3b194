CONSTANTS
  Requests = {r1}
  Replenisher = replenisher
  Saver = saver
  Ids = {w1, w2}
  Names = {}
  IPs = {a1, a2}
  None = None
  MaxWorkspaces = 2
  MaxForks = 1
  PoolEnabled = TRUE
  TargetFree = 1
  MaxPoolSize = 1
  PoolBudget = 1
  CidStart = 3
  CidLimit = 8
  Calls = {"create", "fork", "destroy", "save"}
  OneCallAtATime = TRUE
  Faults = {"destroy", "save"}
SPECIFICATION FairSpec
 
PROPERTIES RequestsReturn DestroyForgets
