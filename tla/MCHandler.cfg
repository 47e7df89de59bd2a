SPECIFICATION Spec
CONSTANTS
  Requests = {r1, r2}
  Kinds = {"buffer", "flush"}
  NumDB = 2
  MaxOpenConns = 1
  MaxOps = 3
  Dots = {o1, o2}
SYMMETRY Symmetry
INVARIANTS
  PageMeansSaved
  FailureKeepsNothing
  BodyFitsStatus
  StatusReachesClient
  
  NoLeakedTx
  DotExclusive
PROPERTIES
  ImplementsConnections
