\* A link imported by force.
CONSTANTS
  u1 = u1
  u2 = u2
  u3 = u3
  h1 = h1
  h2 = h2
  Nil = Nil
  Kinds = {"share"}
  Uploads = {u1, u2}
  Size <- MCSize
  MaxSize = 3
  Threads <- MCThreads
  VipSlice = 2
  MaxBlocks = 2
  MaxTries = 2
  Reads = {t1, t2}
  Hosts <- MCHosts
  MaxLinks = 3
  MaxAttempts = 2
  Items = {i1, i2}
  Keys = {k1, k2}
  Literal = Literal
  Home = Home
  Imports = {c1, c2}
  Configs <- MCManaged
  Sharers <- MCManaged
  Forces <- MCForced
  Idle = Idle
SPECIFICATION MCSpec
INVARIANT ShownIsReadable
