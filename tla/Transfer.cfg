\* Ranges over one and several volumes, with and without a disguise header; uploads of
\* up to four units; copies of up to two files of up to two volumes.
CONSTANTS
  SmallSplit = 1
  SmallCount = 2
  Layouts <- SmallLayouts
  Headers <- SmallHeaders
  Splits = {2, 3}
  HeaderLens = {0, 2}
  CacheBlock = 2
  OutputBatch = 2
  CacheReadBatch = 1
  CacheWriteBatch = 2
  Attempts = 2
  Files <- MCFiles
  MaxItem = 3
  MaxPending = 2
  Configs <- MCConfigs
  MaxFiles = 2
  MaxVolumes = 2
  Idle = Idle
SPECIFICATION MCSpec
INVARIANTS
  PlansExact
  BytesExact
  WholeOrNothing
  PutsAwaited
  NothingLost
PROPERTIES
  KeepsExisting
  TransfersEnd
