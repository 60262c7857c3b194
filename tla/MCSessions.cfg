CONSTANTS
  Requests = {r1, r2}
  Sids = {s1, s2}
  Ids = {w1, w2, w3}
  None = None
  MaxWorkspaces = 2
  MaxMemory = 2
  MaxBatch = 2
  Calls = {"create", "fork", "destroy", "adoptAll"}
SPECIFICATION Spec
SYMMETRY Symmetry
INVARIANTS TypeOK WithinQuota OwnershipSound
PROPERTIES LosesOnlyToAdopters
