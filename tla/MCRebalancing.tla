--------------------------- MODULE MCRebalancing ---------------------------
(* The preemptions, load balancing jobs and autoscalers of the orchestrator.  They share no
   state, so each behaviour is one of one of them. *)
EXTENDS Preemption, LoadBalancing, Autoscaling, TLC

CONSTANTS v1, v2, v3, j1, j2, n1, n2, n3, p1, p2

VARIABLE controller  \* the one that takes steps

vars == <<controller, preVars, lbVars, scaleVars>>

\* v3 is the most important pod; v1 and v2 have the same score.
Priorities == [v \in Victims |-> IF v = v3 THEN 5 ELSE 0]
Scores     == [v \in Victims |-> IF v = v3 THEN 1 ELSE 0]
Amounts    == [v \in Victims |-> [memory |-> IF v = v1 THEN 3 ELSE 2,
                                  cpu |-> IF v = v2 THEN 2 ELSE 1]]
Preempt(r, t, m, b) == [resource |-> r, target |-> t, max |-> m, below |-> b]
Preempts == {Preempt("memory", 4, 3, 9), Preempt("cpu", 2, 2, 9), Preempt("all", 2, 3, 3)}

Balance(st, sc, pe) == [strategy |-> st, scoped |-> sc, periodic |-> pe, max |-> 2]
Balances == {Balance("pod_count", TRUE, TRUE), Balance("pod_count", FALSE, FALSE),
             Balance("load", FALSE, TRUE)}

TypeOK == PreTypeOK /\ LbTypeOK /\ ScaleTypeOK

\* The controllers that take no step start in one state; the second preemption always
\* asks for cpu.
Init ==
  /\ controller \in {"preemption", "loadbalancing", "autoscaling"}
  /\ PreInit /\ LbInit /\ ScaleInit
  /\ preAsked[j2] = Preempt("cpu", 2, 2, 9)
  /\ controller # "preemption" => preAsked[j1] = Preempt("cpu", 2, 2, 9)
  /\ controller # "loadbalancing" => /\ \A p \in LbPods : podNode[p] = n1
                                     /\ \A j \in LbJobs : lbAsked[j] = Balance("load", FALSE, TRUE)
  /\ controller # "autoscaling" => reads = "spec" /\ specReplicas = MinReplicas /\ demand = 0

Next ==
  /\ UNCHANGED controller
  /\ \/ controller = "preemption" /\ PreNext /\ UNCHANGED <<lbVars, scaleVars>>
     \/ controller = "loadbalancing" /\ LbNext /\ UNCHANGED <<preVars, scaleVars>>
     \/ controller = "autoscaling" /\ ScaleNext /\ UNCHANGED <<preVars, lbVars>>

Spec == Init /\ [][Next]_vars /\ LbFairness /\ ScaleFairness
=============================================================================
