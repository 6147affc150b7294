\* Two requests at a time over a tree of two directories.
CONSTANTS
  Clients = {c1, c2}
  Paths <- MCPaths
  Requests <- MCRequests
  Trees <- MCTrees
  MaxCalls = 3
  MaxAlone = 4
SYMMETRY MCSymmetry
SPECIFICATION Spec
INVARIANTS
  TwinsCame
  FoundWasThere
PROPERTY ExactAlone
