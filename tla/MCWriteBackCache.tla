--------------------------- MODULE MCWriteBackCache ---------------------------
(* Instances of WriteBackCache: threads are interchangeable.                 *)
EXTENDS WriteBackCache, TLC

Symmetry == Permutations(Thread)

=============================================================================
