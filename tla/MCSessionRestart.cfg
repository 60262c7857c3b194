CONSTANTS
  Requests = {r1}
  Sids = {s1, s2, s3}
  Ids = {w1}
  None = None
  MaxWorkspaces = 1
  MaxMemory = 1
  MaxBatch = 1
  Calls = {"create", "destroy", "prepare", "adopt", "adoptAll", "restart"}
SPECIFICATION Spec
SYMMETRY Symmetry
INVARIANT OwnershipSound
