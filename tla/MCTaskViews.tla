----------------------------- MODULE MCTaskViews -----------------------------
(***************************************************************************)
(* TaskViews on a small instance.  Its runs check liveness, so they do     *)
(* without symmetry.                                                       *)
(***************************************************************************)
EXTENDS TaskViews, TLC
=============================================================================
