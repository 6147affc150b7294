SPECIFICATION MCSpec
CONSTANTS
  Calls = {c1, c2}
  Sources = {"rooted"}
  RootOf <- MCRoot
  Paths <- MCPaths
  Names = {a, b}
  a = a  b = b  r = r  Drives = {"aliyun", "quark"}
  Ids <- MCIds
  Planted <- MCPlanted
  Parts = 1
  Ops = {"list", "get", "mkdir", "delete", "rename", "put", "copy"}
  MaxCalls = 2
INVARIANTS CacheTrue OkIsDone ListedIsWhole
PROPERTIES TouchesOnlyItsPaths
CHECK_DEADLOCK FALSE
SYMMETRY CallSymmetry
