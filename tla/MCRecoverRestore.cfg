SPECIFICATION RSpec
CONSTANTS
  Proc = {p1}
  NoProc = NoProc
  Spoilt = Spoilt
  Byte = {"a", "b"}
  Size = 3
  Image <- MCImage
  ChunkSizes = {2, 3}
  Block = 2
  Detectable = TRUE
  StageIsRam = TRUE
  MaxVersions = 2
  MaxFaults = 2
  Restorer = {q1, q2}
  Missing = Missing
  Foreign = Foreign
  RemoteRots = TRUE
INVARIANT RestoredIsSnapshot
PROPERTIES NeverReplaced
SYMMETRY Symmetry
