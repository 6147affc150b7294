SPECIFICATION MCSpec
CONSTANTS
  Calls = {c1, c2}
  Sources = {"top", "inner"}
  RootOf <- MCRoot
  Paths <- MCPaths
  Names = {a, b}
  a = a  b = b  r = r  Drives = {"aliyun"}
  Ids <- MCIds
  Planted <- MCPlanted
  Parts = 1
  Ops = {"list", "delete", "rename"}
  MaxCalls = 2
INVARIANT ActsOnNamed
CHECK_DEADLOCK FALSE
