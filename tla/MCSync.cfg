SPECIFICATION Spec
CONSTANTS
  f1 = f1  f2 = f2  d1 = d1  d2 = d2
  File = {f1, f2}
  Dir = {d1, d2}
  DirOf <- TwoDirs
  Content = {a, b}
  Absent = Absent
  Checker = {c1, c2}
  Renamer = {r1}
  Transfer = {t1}
  Backlog = 1
  Options <- SafetyOptions
  Faults = {"srclist", "dstlist", "backup", "rename", "copy", "fatal", "limit", "delete", "maxdelete", "cancel"}
  MaxFaults = 1
INVARIANTS PipesSafe Synced DeletesOnlyAbsent DeletesLast NothingLost BackedUp
SYMMETRY Symmetry
