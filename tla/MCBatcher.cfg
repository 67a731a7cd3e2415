SPECIFICATION FairSpec
CONSTANTS
  Item = {i1, i2, i3, i4}
  Closer = {s1, s2}
  Size = 2
  NoOne = NoOne
INVARIANTS OncePlaced OwnAnswer FlushedAtExit
PROPERTIES CommitReturns ShutdownReturns
CHECK_DEADLOCK FALSE
