------------------------------ MODULE MCSession ------------------------------
(***************************************************************************)
(* Session on a small instance.  Its run checks liveness too, so it does   *)
(* without symmetry.                                                       *)
(***************************************************************************)
EXTENDS Session, TLC
=============================================================================
