--------------------------- MODULE MCStdioEngine ---------------------------
(***************************************************************************)
(* StdioEngine on small instances.  The callers are interchangeable in the *)
(* safety runs; the liveness runs do not use symmetry.                     *)
(***************************************************************************)
EXTENDS StdioEngine, TLC

Symmetry == Permutations(Callers)
=============================================================================
