SPECIFICATION FairSpec
CONSTANTS
  NumFiles = 2
  Names <- MCNames
  InitNames <- MCInitNames
  Own = "own"
  None = "none"
  Pattern <- MCPattern
  Contents <- MCContents
  NumNats = 2
  Requests = {r1}
  MaxOpenConns = 0
  MaxLoads = 2
INVARIANTS
  LastDefinitionRuns
  RoutesComplete
  InitsBeforePublish
PROPERTIES
  NatsStopped
  ReloadReturns
