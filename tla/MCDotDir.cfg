SPECIFICATION Spec
CONSTANTS
  Requests = {r1, r2}
  Handles = {h1, h2, h3}
  Dirs <- MCDirs
  Names = {"foo", "world"}
  Tree <- MCTree
  MaxOps = 4
SYMMETRY Symmetry
INVARIANTS
  OnlyReturnedStayOpen
