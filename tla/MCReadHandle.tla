---------------------------- MODULE MCReadHandle ----------------------------
(* A file of four bytes read through two buffers of at most two bytes, of a  *)
(* pool that another client shares.                                          *)
EXTENDS ReadHandle

CONSTANTS f, w

MCWants == [c \in {f, w} |-> IF c = f THEN 1 ELSE 2]

\* A request from the start, one further on, one across the end, one beyond it.
MCAsk == {[off |-> 0, n |-> 1], [off |-> 2, n |-> 3], [off |-> 5, n |-> 1]}

=============================================================================
