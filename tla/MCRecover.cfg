SPECIFICATION RFairSpec
CONSTANTS
  Proc = {p1, p2}
  NoProc = NoProc
  Spoilt = Spoilt
  Byte = {"a", "b"}
  Size = 3
  Image <- MCImage
  ChunkSizes = {2}
  Block = 2
  Detectable = TRUE
  StageIsRam = FALSE
  MaxVersions = 2
  MaxFaults = 2
  Restorer = {q1}
  Missing = Missing
  Foreign = Foreign
  RemoteRots = FALSE
INVARIANTS TypeOK SingleWriter Resumable VerifiedIsStored BytesSurvive JournalIsSnapshot ReportedIsComplete StagingIsClean
PROPERTIES Completes RestoreCompletes
