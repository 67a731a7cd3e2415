SPECIFICATION FairSpec
CONSTANTS
  Handle = {1, 2}
  Name = {a}
  Thread = {t1, t2}
  Delay = 1
  MaxUploadDelay = 2
  Transfers = 1
  MaxCalls = 3
  MaxStops = 1
  MaxErrors = 1
INVARIANTS UploadsCounted NoneForgotten Awake
PROPERTIES CallsReturn Drains
CHECK_DEADLOCK FALSE
