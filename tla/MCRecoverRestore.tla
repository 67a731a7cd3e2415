--------------------------- MODULE MCRecoverRestore ---------------------------
(* Small instances of an upload and restores of the same image. *)
EXTENDS RecoverRestore, TLC

\* Three units in chunks of two: the last chunk is shorter than the others.
MCImage == <<"a", "b", "a">>

\* The restorers are interchangeable.
Symmetry == Permutations(Restorer)
=============================================================================
