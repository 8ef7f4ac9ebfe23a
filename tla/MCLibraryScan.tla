--------------------------- MODULE MCLibraryScan ---------------------------
(* Two libraries, one of two files and one of a single file. *)
EXTENDS LibraryScan
CONSTANTS A, B, x, y
MCLibOf == [p \in Paths |-> IF p = 3 THEN B ELSE A]
MCInitialDisks == {<<x, y, NULL>>, <<x, NULL, x>>}
=============================================================================
