\* The same, with the promise to resolve once more.
CONSTANTS
  Clients = {c1}
  Paths <- MCPaths
  Requests <- StaleRequests
  Trees <- StaleTrees
  MaxCalls = 5
  MaxAlone = 5
SPECIFICATION Spec
INVARIANT AbsentIsTrue
