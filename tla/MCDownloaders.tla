---------------------------- MODULE MCDownloaders ----------------------------
(* An instance of Downloaders: the readers read different parts of the file; *)
(* a write replaces its last byte and adds another.                          *)
EXTENDS Downloaders, TLC

CONSTANTS p1, p2

MCAsks == p1 :> {Span(0, 1)} @@ p2 :> {Span(1, 1)}
MCPuts == {Span(1, 2)}

=============================================================================
