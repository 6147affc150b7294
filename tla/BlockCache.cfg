\* Two streams on a file of two blocks, the second one short.
CONSTANTS
  Streams = {s1, s2}
  Sizes = {3, 5}
  U = 2
CONSTRAINT NotOvertaken
SYMMETRY StreamSymmetry
SPECIFICATION Spec
INVARIANTS
  HitsAreReal
  BlocksCounted
  Durable
PROPERTY NeverRolledBack
