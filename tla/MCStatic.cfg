SPECIFICATION FairSpec
CONSTANTS
  Paths <- MCPaths
  Size <- MCSize
  MaxWrites = 3
  MaxRemovals = 1
  Skews = {1}
  Requests = {r1}
INVARIANTS
  EncodingsAgree
  SmallestFirst
PROPERTIES
  CheckNoticesStale
  Converges
