SPECIFICATION Spec
CONSTANTS
  f1 = f1  f2 = f2  d1 = d1  d2 = d2
  File = {f1, f2}
  Dir = {d1, d2}
  DirOf <- TwoDirs
  Content = {a, b}
  Absent = Absent
  Checker = {c1}
  Renamer = {r1}
  Transfer = {t1}
  Backlog = 1
  Options <- During
  Faults = {"srclist"}
  MaxFaults = 1
INVARIANT OnlyAbsentDeleted
SYMMETRY Symmetry
