------------------------------ MODULE Handover ------------------------------
(***************************************************************************)
(* What a migration promises of a workload's pod, whatever fails on the    *)
(* way: it runs at its source until a replacement has finished its output  *)
(* stage at the target, and no migration takes that replacement away.      *)
(* A pod that dies by itself, or is deleted by others, is not given up by  *)
(* a migration and keeps its place here.                                   *)
(***************************************************************************)
CONSTANT Pods

VARIABLE places   \* places[p]: where p is, "source", "target" or both

Init == places = [p \in Pods |-> {"source"}]

Arrive(p) == places' = [places EXCEPT ![p] = @ \cup {"target"}]

Leave(p) == /\ "target" \in places[p]
            /\ places' = [places EXCEPT ![p] = @ \ {"source"}]

Next == \E p \in Pods : Arrive(p) \/ Leave(p)

Spec == Init /\ [][Next]_places

\* Each pod is somewhere.
NeverHomeless == \A p \in Pods : places[p] # {}
=============================================================================
