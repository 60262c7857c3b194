CONSTANTS
  Ids = {w1, w2, w3}
  Resting = {w3}
  Last = 4
  Gateway = 1
  NoReply = NoReply
  Exhausted = Exhausted
  None = None
  Tasks = {t1, t2}
  Policies <- SomePolicies
  Ports = {80}
  OneCallAtATime = TRUE
  NetFaults = {"tap", "nft", "launch"}
SPECIFICATION QuietSpec
CONSTRAINT OneOfEach
SYMMETRY Symmetry
INVARIANTS Inv  
PROPERTIES AllocateReturns PoolSpec
