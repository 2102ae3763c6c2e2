------------------------ MODULE MCStorageControllers ------------------------
(* The provisionings and the caches of the orchestrator: two requests of each.  The two
   controllers share no state, so each behaviour is one of one of them. *)
EXTENDS Provisioning, Caching, TLC

CONSTANTS r1, r2, w1, d1, d2, c1, c2, nvme, s3

VARIABLE controller  \* the one that takes steps

vars == <<controller, provVars, cacheVars>>

OneWorkload == [r \in Provisionings |-> w1]

TypeOK == ProvTypeOK /\ CacheTypeOK

Init ==
  /\ controller \in {"provisioning", "caching"}
  /\ ProvInit
  /\ CacheInit
  /\ controller = "provisioning" => cacheTier = [c \in Caches |-> nvme]

Next ==
  /\ UNCHANGED controller
  /\ \/ controller = "provisioning" /\ ProvNext /\ UNCHANGED cacheVars
     \/ controller = "caching" /\ CacheNext /\ UNCHANGED provVars

Spec == Init /\ [][Next]_vars /\ ProvFairness /\ CacheFairness
=============================================================================
