----------------------------- MODULE MCWriteBack -----------------------------
(* WriteBack with two files that are renamed to one name, so that the rename *)
(* of one removes the other.                                                 *)
EXTENDS WriteBack

=============================================================================
