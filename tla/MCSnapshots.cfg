CONSTANTS
  Ids = {w1, w2}
  Root = w1
  None = None
  Tasks = {t1, t2}
  Names = {s1, s2}
  Data = {d1, d2}
  MaxSnapshots = 2
  MaxWorkspaces = 2
  OneCallAtATime = TRUE
  Faults = {"zfs", "launch"}
SPECIFICATION Spec
CONSTRAINT OneApart
SYMMETRY Symmetry
INVARIANTS TreeMatchesZfs NothingForgotten
PROPERTIES RestoreGivesBack
CHECK_DEADLOCK FALSE
