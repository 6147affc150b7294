\* Every mode over one and two volumes, two threads, one per volume.
CONSTANTS
  Plans <- SmallPlans
  Modes = {"playback", "bulk", "warm"}
  T = 2
  P = 1
  MaxSplit = 2
  ChanMin = 1
  ChanMax = 2
  OutCap = 1
SPECIFICATION FairSpec
INVARIANTS
  TypeOK
  CountersMatch
  ConnectionLimits
  WindowFeedsHead
PROPERTIES
  QuietAfterEnd
  StreamEnds
  ImplementsOrderedStream
