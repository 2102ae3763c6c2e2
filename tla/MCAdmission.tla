----------------------------- MODULE MCAdmission -----------------------------
(* A pod on its way to the scheduling cycle: the webhook, on claims, which a user gives any   *)
(* two fields and another webhook a third, and on Pods with a claim given one field; the      *)
(* queue, with two pods, one of them urgent; and the nominator, with two pods and two nodes.  *)
(* They share no state, so each behaviour is one of one of them.                              *)
EXTENDS SchedulingQueue, Nominator, Webhook, TLC

CONSTANTS p1, p2, n1, n2

VARIABLE part  \* the one that takes steps

MCPrio == (p1 :> 0) @@ (p2 :> 1)

Values(f) ==
  CASE f \in DOMAIN RulePoints -> DOMAIN RulePoints[f] \ {"none"}
    [] f \in DOMAIN LegacyPoints -> DOMAIN LegacyPoints[f] \ {"none"}
    [] f = "stage" -> Stages \cup {"other"}
    [] f = "storageTier" -> {"L1", "capacity", "other"}
    [] f \in {"tier", "label", "hint"} -> {"L3", "burst", "other"}
    [] f = "class" -> {"storage-l3", "storage-burst"}
    [] f = "spec" -> {"storage-l2", "storage-capacity", "nfs-client", "custom"}
    [] OTHER -> {}

Late(f) == IF f \in {"role", "priority", "weight", "hint"} THEN Values(f) ELSE {}

Extend(S) == S \cup UNION {{[c EXCEPT ![f] = v] : v \in Values(f)} : c \in S, f \in ClaimFields}
OneGiven == Extend({BlankClaim})
TwoGiven == Extend(OneGiven)

\* A Pod that a Job controls has labels.
AdmittedPods ==
  {[BlankPod EXCEPT !.annots = a] : a \in {None, "map"}} \cup
  {[BlankPod EXCEPT !.labels = "map", !.annots = a, !.stage = s, !.gpu = g, !.framework = f,
                    !.owner = o] :
     a \in {None, "map"}, s \in {None, "train"}, g \in {None, "some"},
     f \in {None, "pipeline"}, o \in {None, "job"}}

MCInit ==
  /\ part \in {"claims", "pods", "queue", "nominator"}
  /\ QueueInit /\ Init /\ WebhookInit

WebhookStep ==
  /\ WebhookNext
  /\ part = "claims" => podPc' = "none"
  /\ part = "pods" => claimPc' # "changed" /\ (claimPc = "none" => claim' \in OneGiven)

MCNext ==
  /\ UNCHANGED part
  /\ \/ part = "queue" /\ QueueNext /\ UNCHANGED <<vars, webhookVars>>
     \/ part = "nominator" /\ Next /\ UNCHANGED <<queueVars, webhookVars>>
     \/ part \in {"claims", "pods"} /\ WebhookStep /\ UNCHANGED <<queueVars, vars>>

MCSpec ==
  /\ MCInit /\ [][MCNext]_<<part, queueVars, vars, webhookVars>>
  /\ part = "queue" => QueueFairness
=============================================================================
