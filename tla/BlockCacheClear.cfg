\* The cache of a file is cleared while a stream still writes through it.
CONSTANTS
  Streams = {s1, s2}
  Sizes = {3}
  U = 2
SYMMETRY StreamSymmetry
SPECIFICATION Spec
INVARIANT OnlyCoveredBlocksHit
