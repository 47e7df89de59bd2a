SPECIFICATION Spec
CONSTANTS
  Threads = {t1}
  NoThread = NoThread
  Requests = {r1}
  MaxInstances = 2
  MaxDisk = 0
INVARIANTS
  RefusedOnlyWhenStopped
