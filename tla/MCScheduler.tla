----------------------------- MODULE MCScheduler -----------------------------
(* Two pods and two nodes: roomy nodes take both pods, tight ones one each. *)
EXTENDS Scheduler, TLC

Ones  == [p \in Pods |-> 1]
Roomy == [n \in Nodes |-> 2]
Tight == [n \in Nodes |-> 1]

Symmetry == Permutations(Pods) \cup Permutations(Nodes)
=============================================================================
