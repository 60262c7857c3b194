CONSTANTS
  Tasks = {t1, t2}
  Paths = {1, 2}
  None = None
  Faults = {"io", "crash"}
  VaultCalls <- AllCalls
SPECIFICATION FairVaultSpec
CONSTRAINT Short
INVARIANTS VaultInv
PROPERTIES NotesAtomic CallsAnswered
