SPECIFICATION FairSpec
CONSTANTS
  Threads = {t1, t2}
  NoThread = NoThread
  Requests = {r1}
  MaxInstances = 4
  MaxDisk = 1
INVARIANTS
  OnlyCurrentLive
  SignalAfterSwap
  ServedByNewest
PROPERTIES
  NeverBackwards
  CallsReturn
  WaitersReleased
  ImplementsHotSwap
