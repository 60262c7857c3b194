CONSTANTS
  Tasks = {t1, t2}
  Paths = {0, 1, 2}
  None = None
  Faults = {"crash"}
  VaultCalls <- Looks
  Agents = {a1, a2}
  MaxTask = 2
  BoardCalls = {"create", "claim", "release", "start", "fail"}
  OneCallPerTask = TRUE
SPECIFICATION Spec
SYMMETRY Symmetry
INVARIANTS ClaimHolds
PROPERTIES BoardAtomic
