-------------------------- MODULE MCLaneAllocation --------------------------
(* LaneAllocation over every share, budget and pair of queues in the bounds. *)
EXTENDS LaneAllocation
=============================================================================
