SPECIFICATION FairSpec
CONSTANTS
  f1 = f1  f2 = f2  d1 = d1  d2 = d2
  File = {f1, f2}
  Dir = {d1, d2}
  DirOf <- TwoDirs
  Content = {a}
  Absent = Absent
  Checker = {c1}
  Renamer = {r1}
  Transfer = {t1}
  Backlog = 1
  Options <- LiveOptions
  Faults = {"srclist", "fatal", "limit", "maxdelete", "cancel"}
  MaxFaults = 1
PROPERTY Returns
CHECK_DEADLOCK FALSE
