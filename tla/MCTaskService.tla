--------------------------- MODULE MCTaskService ---------------------------
(***************************************************************************)
(* TaskService on small instances.  TLC takes no symmetry here, for one of *)
(* the properties is about liveness.                                       *)
(***************************************************************************)
EXTENDS TaskService
=============================================================================
