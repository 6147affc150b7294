\* Bulk download over two volumes: the window can fill up without the
\* chunk the serializer waits for.
CONSTANTS
  Plans <- LongTail
  Modes = {"bulk"}
  T = 2
  P = 1
  MaxSplit = 2
  ChanMin = 1
  ChanMax = 2
  OutCap = 1
SPECIFICATION Spec
INVARIANT CurrentChunkInWindow
