SPECIFICATION FairSpec
CONSTANTS
  p1 = p1  p2 = p2
  Reader = {p1, p2}
  Closer = c
  Size = 2
  Asks <- MCAsks
  Puts <- MCPuts
  Cuts = {1, 3}
  Chunk = 1
  Window = 1
  MinWindow = 1
  MaxSkip = 0
  ReadAhead = 0
  MaxErrorCount = 1
  Retries = 2
  MaxDownloaders = 2
  MaxReads = 2
  MaxChanges = 1
  MaxEvents = 1
INVARIANTS RangesExact ReadsNoHole ClosedIsStill
PROPERTIES ReadsReturn CloseReturns
CHECK_DEADLOCK FALSE
