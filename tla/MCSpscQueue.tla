---------------------------- MODULE MCSpscQueue ----------------------------
(* SpscQueue on rings small enough that the indices wrap around.           *)
EXTENDS SpscQueue
=============================================================================
