------------------------- MODULE MCSurrogateTraining -------------------------
(* Three losses and NaN over five epochs with a patience of two; a training   *)
(* set of one sample, which leaves nothing to train on, and one of twenty.    *)
EXTENDS SurrogateTraining

MCLosses == 1..3
MCSampleSizes == {1, 20}
=============================================================================
