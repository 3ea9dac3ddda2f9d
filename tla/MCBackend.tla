----------------------------- MODULE MCBackend -----------------------------
(***************************************************************************)
(* Backend on a small instance.  Its run checks liveness too, so it does   *)
(* without symmetry.                                                       *)
(***************************************************************************)
EXTENDS Backend, TLC
=============================================================================
