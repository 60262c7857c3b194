CONSTANTS
  Ids = {w1, w2, w3}
  None = None
  MaxWorkspaces = 3
  Names = {"core", "sub"}
  Requests = {t1, t2}
  Orders <- SomeOrders
  MaxVms = 3
  MaxNestingDepth = 1
  Runners = {r1}
  Plans <- SomePlans
  MaxParallel = 1
SPECIFICATION Spec
CONSTRAINT NoRaceYet
SYMMETRY Symmetry
INVARIANTS TeamsInv RunCleansUp  
