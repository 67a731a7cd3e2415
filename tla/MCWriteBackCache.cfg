SPECIFICATION CacheSpec
CONSTANTS
  Handle = {1}
  Name = {a}
  Thread = {t1, t2}
  Delay = 1
  MaxUploadDelay = 2
  Transfers = 1
  MaxCalls = 10
  MaxErrors = 1
  MaxStops = 0
  MaxWrites = 3
  MaxOpens = 3
  MaxCrashes = 1
  Faults = {"torn", "save", "parts", "empty"}
INVARIANTS ClosedSurvives DirtyIsQueued
SYMMETRY Symmetry
CHECK_DEADLOCK FALSE
