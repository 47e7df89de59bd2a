SPECIFICATION Spec
CONSTANTS
  Requests = {r1}
  Maxes <- MCMaxes
  Forever = Forever
  MaxOps = 2
  MaxMsgs = 2
INVARIANTS
  RepeatComplete
  DeliverySafe
PROPERTIES
  GoroutinesEnd
  StopEndsStreams
  ClientEndsStreams
