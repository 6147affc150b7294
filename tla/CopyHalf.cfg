\* The same copies, among them a file of two volumes, without encryption or disguise, to a
\* plain source.
CONSTANTS
  SmallSplit = 1
  SmallCount = 2
  Layouts <- SmallLayouts
  Headers <- SmallHeaders
  Splits = {2, 3}
  HeaderLens = {0, 2}
  CacheBlock = 2
  OutputBatch = 2
  CacheReadBatch = 1
  CacheWriteBatch = 2
  Attempts = 2
  Files <- MCFiles
  MaxItem = 3
  MaxPending = 2
  Configs <- MCConfigs
  MaxFiles = 2
  MaxVolumes = 2
  Idle = Idle
SPECIFICATION MCSpec
INVARIANT NeverHalfAFile
