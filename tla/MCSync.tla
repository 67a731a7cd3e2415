------------------------------ MODULE MCSync ------------------------------
(* Instances of Sync: the first file has a directory to itself. *)
EXTENDS Sync, TLC

CONSTANTS f1, f2, d1, d2

TwoDirs == [f \in File |-> IF f = f1 THEN d1 ELSE d2]

With(delete, cutoff, flags) == [delete |-> delete, cutoff |-> cutoff, flags |-> flags]

\* Every way to delete and every flag occurs, and each stage is used.
SafetyOptions ==
  {With("after", "hard", {}),
   With("after", "off", {"track-renames", "backup-dir"}),
   With("before", "off", {"immutable"}),
   With("during", "soft", {"backup-dir"}),
   With("off", "soft", {"move", "check-first", "order-by"}),
   With("off", "off", {"move", "backup-dir"}),
   With("off", "off", {"move", "ignore-existing"}),
   With("off", "off", {"move", "update"}),
   With("after", "off", {"update"}),
   With("during", "off", {"ignore-times"})}

LiveOptions ==
  {With("after", "hard", {"track-renames", "ignore-errors"}),
   With("during", "soft", {}),
   With("off", "off", {"move", "check-first", "order-by"})}

During == {With("during", "off", {})}

\* Contents are only compared; goroutines of a stage are alike.
Symmetry == Permutations(Content) \cup Permutations(Checker) \cup Permutations(Transfer)
=============================================================================
