SPECIFICATION AppSpec
CONSTANTS
  Threads = {w}
  NoThread = NoThread
  Watcher = w
  Requests = {r1}
  MaxInstances = 4
  MaxDisk = 3
  MaxEdits = 3
INVARIANTS
  AtRestCaughtUp
PROPERTIES
  SeenEditsLoaded
