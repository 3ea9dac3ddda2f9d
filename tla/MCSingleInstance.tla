------------------------- MODULE MCSingleInstance -------------------------
(***************************************************************************)
(* SingleInstance on small instances; the shells are interchangeable, and  *)
(* so are the pids.                                                        *)
(***************************************************************************)
EXTENDS SingleInstance, TLC

Symmetry == Permutations(Shells) \cup Permutations(Pids)
=============================================================================
