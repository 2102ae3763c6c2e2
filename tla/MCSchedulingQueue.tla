-------------------------- MODULE MCSchedulingQueue --------------------------
(* Two queued pods, one of them urgent. *)
EXTENDS SchedulingQueue, TLC

CONSTANTS p1, p2

MCPrio == (p1 :> 0) @@ (p2 :> 1)
=============================================================================
