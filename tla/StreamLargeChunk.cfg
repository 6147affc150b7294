\* Playback with chunks larger than their channel (max_split above 8 MiB).
CONSTANTS
  Plans <- LargeChunk
  Modes = {"playback"}
  T = 2
  P = 1
  MaxSplit = 2
  ChanMin = 1
  ChanMax = 1
  OutCap = 1
SPECIFICATION FairSpec
PROPERTY EveryStreamEnds
