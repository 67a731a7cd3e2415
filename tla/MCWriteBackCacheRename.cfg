SPECIFICATION RenameSpec
CONSTANTS
  Handle = {1}
  Name = {a}
  Thread = {t1, t2}
  Delay = 1
  MaxUploadDelay = 1
  Transfers = 1
  MaxCalls = 10
  MaxErrors = 0
  MaxStops = 0
  MaxWrites = 2
  MaxOpens = 2
  MaxCrashes = 0
  Faults = {}
INVARIANT ClosedSurvives
CHECK_DEADLOCK FALSE
