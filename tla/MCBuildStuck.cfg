SPECIFICATION FairSpec
CONSTANTS
  NumFiles = 2
  Names <- MCNames
  InitNames <- MCInitNames
  Own = "own"
  None = "none"
  Pattern <- MCPattern
  Contents <- MCSmallContents
  NumNats = 2
  Requests = {r1}
  MaxOpenConns = 1
  MaxLoads = 2
PROPERTIES
  ReloadReturns
