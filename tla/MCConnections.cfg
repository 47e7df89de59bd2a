SPECIFICATION FairSpec
CONSTANTS
  Requests = {r1, r2}
  NumDB = 2
  MaxOpenConns = 1
  MaxOps = 6
PROPERTIES
  RequestsFinish
  ConnsReturned
