----------------------------- MODULE MCPolicies -----------------------------
(* The execution of one policy of every kind, and the population of policies.  The two share *)
(* no state, so each behaviour is one of one of them.                                        *)
EXTENDS PolicyReconciler, PolicyPool

VARIABLE part  \* the one that takes steps

MCInit ==
  /\ part \in {"reconciler", "pool"}
  /\ Init /\ PoolInit
  /\ part # "reconciler" => kind = "undo"

MCNext ==
  /\ UNCHANGED part
  /\ \/ part = "reconciler" /\ Next /\ UNCHANGED poolVars
     \/ part = "pool" /\ PoolNext /\ UNCHANGED vars

\* The fairness of each part, which counts while it is the one that takes steps.  The
\* reconciler's is that of FairSpec.  In the pool time passes, the cache follows, the ticker
\* ticks, and of the deletions of one policy that are tried again and again one succeeds.
MCSpec ==
  /\ MCInit /\ [][MCNext]_<<vars, poolVars, part>>
  /\ WF_vars(part = "reconciler" /\ Controller)
  /\ WF_vars(part = "reconciler" /\ Deliver)
  /\ WF_vars(part = "reconciler" /\ Tick)
  /\ WF_poolVars(part = "pool" /\ PoolTick)
  /\ WF_poolVars(part = "pool" /\ (StartSweep \/ EndSweep))
  /\ WF_poolVars(part = "pool" /\ \E i \in PolicyIds : SweepDeletes(i) \/ SweepFails(i))
  /\ \A i \in PolicyIds : /\ WF_poolVars(part = "pool" /\ CacheCatchesUp(i))
                          /\ SF_poolVars(part = "pool" /\ SweepDeletes(i))
=============================================================================
