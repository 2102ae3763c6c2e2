----------------------------- MODULE Migration -----------------------------
(***************************************************************************)
(* The orchestrator's migrations                                           *)
(* (ai-storage-orchestrator/pkg/controller/migration.go): each accepted    *)
(* request is a job with a goroutine of its own, executeMigration, that    *)
(* takes the pod through the stages decode, filter and output as a fresh   *)
(* pod of the target node each, and then deletes the original.  Jobs share *)
(* the concurrency slots, the plan store and the cluster.                  *)
(*                                                                         *)
(* A call to the API server succeeds, fails, or fails although it took     *)
(* effect ("landed"); once the job's context has expired it fails before   *)
(* it is sent.  A crash of the orchestrator loses everything but the       *)
(* cluster.  Metrics, hints to Gluesys, temporary directories and the      *)
(* marker file the orchestrator itself writes when an output pod is ready  *)
(* are left out: a stage is complete when its pod is ready or succeeded.   *)
(***************************************************************************)
EXTENDS Naturals, FiniteSets

CONSTANTS
  Pods,           \* the workloads' pods
  Jobs,           \* the migration requests
  PodOf,          \* PodOf[j]: the pod to migrate
  First,          \* First[j]: the stage it starts with
  Preserve,       \* the jobs with preserve_pv
  MaxConcurrent,  \* MAX_CONCURRENT_MIGRATIONS
  MaxCrashes      \* bound: crashes of the orchestrator

Stages == {"decode", "filter", "output"}

ASSUME MigrationAssumption ==
  /\ IsFiniteSet(Jobs)
  /\ PodOf \in [Jobs -> Pods]
  /\ First \in [Jobs -> Stages]
  /\ Preserve \subseteq Jobs
  /\ MaxConcurrent \in Nat \ {0}
  /\ MaxCrashes \in Nat

VARIABLES
  pc,        \* pc[j]: the next step of j's goroutine
  status,    \* status[j]: job.Status; "unknown" if mc.migrations has no such job
  stage,     \* stage[j]: the stage it is at
  expired,   \* the jobs whose context has timed out
  slots,     \* the tokens in concurrencyCh
  plans,     \* plans[p]: the request whose stage plan is stored for p
  orig,      \* orig[p]: the original pod
  stagePod,  \* stagePod[j][s]: the pod that runs stage s for job j
  pvc,       \* pvc[j]: the checkpoint PVC
  arrived,   \* history: the jobs whose output pod has completed its stage
  crashes

vars == <<pc, status, stage, expired, slots, plans, orig, stagePod, pvc, arrived, crashes>>
cluster == <<orig, stagePod, pvc, arrived>>
memory  == <<status, stage, expired, slots, plans>>

Working == {"start", "capture", "checkpoint", "plan", "create", "wait", "drop", "remove",
            "cleanup", "finish", "release"}
NoJob   == "none"
PodStates == {"none", "pending", "ready", "succeeded", "failed", "deleted", "vanished"}

TypeOK ==
  /\ pc \in [Jobs -> Working \cup {"idle", "over", "lost"}]
  /\ status \in [Jobs -> {"unknown", "pending", "running", "completed", "failed"}]
  /\ stage \in [Jobs -> Stages]
  /\ expired \subseteq Jobs
  /\ slots \in Nat
  /\ plans \in [Pods -> Jobs \cup {NoJob}]
  /\ orig \in [Pods -> {"running", "deleted", "vanished"}]
  /\ stagePod \in [Jobs -> [Stages -> PodStates]]
  /\ pvc \in [Jobs -> {"none", "there", "deleted"}]
  /\ arrived \subseteq Jobs
  /\ crashes \in Nat

Active == {j \in Jobs : pc[j] \in Working}

-----------------------------------------------------------------------------
Goto(j, l) == pc' = [pc EXCEPT ![j] = l]

\* How a call to the API server may end for job j.
Answers(j) == IF j \in expired THEN {"error"} ELSE {"ok", "error", "landed"}

\* Mutant: the early return of a failure forgets the slot.
Fail_KeepsSlot(j) ==
  /\ status' = [status EXCEPT ![j] = "failed"]
  /\ Goto(j, "over")
  /\ UNCHANGED <<stage, expired, slots, plans>>

\* failMigration, and the return of executeMigration, which leaves only the deferred
\* release to be done: nothing the job has created is cleaned up.
Fail(j) ==
  /\ status' = [status EXCEPT ![j] = "failed"]
  /\ Goto(j, "release")
  /\ UNCHANGED <<stage, expired, slots, plans>>

Continue(j, l) == Goto(j, l) /\ UNCHANGED memory

\* StartMigration: the plan is stored first, for a request without a run or a policy
\* name under its pod's; without a free slot the request is then refused.
Request(j) ==
  /\ pc[j] = "idle"
  /\ plans' = [plans EXCEPT ![PodOf[j]] = j]
  /\ IF slots < MaxConcurrent
     THEN /\ slots' = slots + 1
          /\ status' = [status EXCEPT ![j] = "pending"]
          /\ Goto(j, "start")
     ELSE UNCHANGED <<slots, status, pc>>
  /\ UNCHANGED <<stage, expired, cluster, crashes>>

Begin(j) ==
  /\ pc[j] = "start"
  /\ status' = [status EXCEPT ![j] = "running"]
  /\ Goto(j, "capture")
  /\ UNCHANGED <<stage, expired, slots, plans, cluster, crashes>>

\* captureContainerStates needs the original pod.
Capture(j) ==
  /\ pc[j] = "capture"
  /\ \/ /\ j \notin expired /\ orig[PodOf[j]] = "running"
        /\ Continue(j, IF j \in Preserve THEN "checkpoint" ELSE "plan")
     \/ Fail(j)
  /\ UNCHANGED <<cluster, crashes>>

CreateCheckpoint(j) ==
  /\ pc[j] = "checkpoint"
  /\ \E a \in Answers(j) :
       /\ pvc' = IF a = "error" THEN pvc ELSE [pvc EXCEPT ![j] = "there"]
       /\ IF a = "ok" THEN Continue(j, "plan") ELSE Fail(j)
  /\ UNCHANGED <<orig, stagePod, arrived, crashes>>

\* Mutant: the original makes way before its replacement has run.
Plan_RemovesFirst(j) ==
  /\ pc[j] = "plan"
  /\ j \notin expired /\ orig[PodOf[j]] = "running"
  /\ orig' = [orig EXCEPT ![PodOf[j]] = "deleted"]
  /\ stage' = [stage EXCEPT ![j] = First[j]]
  /\ Goto(j, "create")
  /\ UNCHANGED <<status, expired, slots, plans, stagePod, pvc, arrived, crashes>>

\* executeStagePipeline, up to its loop: the original pod is read once more.
Plan(j) ==
  /\ pc[j] = "plan"
  /\ \/ /\ j \notin expired /\ orig[PodOf[j]] = "running"
        /\ stage' = [stage EXCEPT ![j] = First[j]]
        /\ Goto(j, "create")
        /\ UNCHANGED <<status, expired, slots, plans>>
     \/ Fail(j)
  /\ UNCHANGED <<cluster, crashes>>

CreateStagePod(j) ==
  /\ pc[j] = "create"
  /\ \E a \in Answers(j) :
       /\ stagePod' = IF a = "error" THEN stagePod
                      ELSE [stagePod EXCEPT ![j][stage[j]] = "pending"]
       /\ IF a = "ok" THEN Continue(j, "wait") ELSE Fail(j)
  /\ UNCHANGED <<orig, pvc, arrived, crashes>>

\* waitForStageCompletion sees the pod complete its stage.
StageDone(j) ==
  /\ pc[j] = "wait"
  /\ j \notin expired /\ stagePod[j][stage[j]] \in {"ready", "succeeded"}
  /\ arrived' = IF stage[j] = "output" THEN arrived \cup {j} ELSE arrived
  /\ Continue(j, IF stage[j] = "output" THEN "remove" ELSE "drop")
  /\ UNCHANGED <<orig, stagePod, pvc, crashes>>

\* Mutant: a stage pod that never gets ready is waited for without a deadline.
StageFails_NoDeadline(j) ==
  /\ pc[j] = "wait"
  /\ j \in expired \/ stagePod[j][stage[j]] \in {"failed", "vanished"}
  /\ Fail(j)
  /\ UNCHANGED <<cluster, crashes>>

\* It gives up: the pod failed or is gone, it could not be read, the context or the
\* deadline of the stage has expired.
StageFails(j) ==
  /\ pc[j] = "wait"
  /\ Fail(j)
  /\ UNCHANGED <<cluster, crashes>>

Following(s) == IF s = "decode" THEN "filter" ELSE "output"

\* Mutant: the next stage starts beside the pod of the last one.
DropStagePod_Keeps(j) ==
  /\ pc[j] = "drop"
  /\ stage' = [stage EXCEPT ![j] = Following(stage[j])]
  /\ Goto(j, "create")
  /\ UNCHANGED <<status, expired, slots, plans, cluster, crashes>>

\* The pod of a finished intermediate stage is deleted before the next stage starts.
DropStagePod(j) ==
  /\ pc[j] = "drop"
  /\ \E a \in Answers(j) :
       /\ a # "error" => stagePod[j][stage[j]] # "vanished"
       /\ stagePod' = IF a = "error" THEN stagePod
                      ELSE [stagePod EXCEPT ![j][stage[j]] = "deleted"]
       /\ IF a = "ok"
          THEN /\ stage' = [stage EXCEPT ![j] = Following(stage[j])]
               /\ Goto(j, "create")
               /\ UNCHANGED <<status, expired, slots, plans>>
          ELSE Fail(j)
  /\ UNCHANGED <<orig, pvc, arrived, crashes>>

\* deleteOriginalPod: an error is only a warning.
RemoveOriginal(j) ==
  /\ pc[j] = "remove"
  /\ \E a \in Answers(j) :
       orig' = IF a # "error" /\ orig[PodOf[j]] = "running"
               THEN [orig EXCEPT ![PodOf[j]] = "deleted"] ELSE orig
  /\ Continue(j, "cleanup")
  /\ UNCHANGED <<stagePod, pvc, arrived, crashes>>

\* cleanupIntermediateArtifacts: likewise.
Cleanup(j) ==
  /\ pc[j] = "cleanup"
  /\ \E a \in Answers(j) :
       pvc' = IF j \in Preserve /\ a # "error" THEN [pvc EXCEPT ![j] = "deleted"] ELSE pvc
  /\ Continue(j, "finish")
  /\ UNCHANGED <<orig, stagePod, arrived, crashes>>

\* completeMigration.
Complete(j) ==
  /\ pc[j] = "finish"
  /\ status' = [status EXCEPT ![j] = "completed"]
  /\ Goto(j, "release")
  /\ UNCHANGED <<stage, expired, slots, plans, cluster, crashes>>

\* The deferred function of executeMigration.
Release(j) ==
  /\ pc[j] = "release"
  /\ slots' = slots - 1
  /\ Goto(j, "over")
  /\ UNCHANGED <<status, stage, expired, plans, cluster, crashes>>

-----------------------------------------------------------------------------
(* Time, the cluster and the process.                                      *)

ContextExpires(j) ==
  /\ pc[j] \in Working /\ j \notin expired
  /\ expired' = expired \cup {j}
  /\ UNCHANGED <<pc, status, stage, slots, plans, cluster, crashes>>

\* A stage pod starts, ends, or disappears by itself.
StagePodMoves(j, s) ==
  /\ \E next \in CASE stagePod[j][s] = "pending"   -> {"ready", "failed", "vanished"}
                   [] stagePod[j][s] = "ready"     -> {"succeeded", "failed", "vanished"}
                   [] stagePod[j][s] = "succeeded" -> {"vanished"}
                   [] stagePod[j][s] = "failed"    -> {"vanished"}
                   [] OTHER                        -> {} :
       stagePod' = [stagePod EXCEPT ![j][s] = next]
  /\ UNCHANGED <<pc, memory, orig, pvc, arrived, crashes>>

OriginalVanishes(p) ==
  /\ orig[p] = "running"
  /\ orig' = [orig EXCEPT ![p] = "vanished"]
  /\ UNCHANGED <<pc, memory, stagePod, pvc, arrived, crashes>>

\* The process dies and is started again: jobs, slots and plans are gone.
Restart ==
  /\ crashes < MaxCrashes
  /\ crashes' = crashes + 1
  /\ pc' = [j \in Jobs |-> IF pc[j] \in Working THEN "lost" ELSE pc[j]]
  /\ status' = [j \in Jobs |-> "unknown"]
  /\ slots' = 0
  /\ expired' = {}
  /\ plans' = [p \in Pods |-> NoJob]
  /\ UNCHANGED <<stage, cluster>>

Init ==
  /\ pc = [j \in Jobs |-> "idle"]
  /\ status = [j \in Jobs |-> "unknown"]
  /\ stage = First
  /\ expired = {}
  /\ slots = 0
  /\ plans = [p \in Pods |-> NoJob]
  /\ orig = [p \in Pods |-> "running"]
  /\ stagePod = [j \in Jobs |-> [s \in Stages |-> "none"]]
  /\ pvc = [j \in Jobs |-> "none"]
  /\ arrived = {}
  /\ crashes = 0

Step(j) ==
  \/ Begin(j) \/ Capture(j) \/ CreateCheckpoint(j) \/ Plan(j)
  \/ CreateStagePod(j) \/ StageDone(j) \/ StageFails(j) \/ DropStagePod(j)
  \/ RemoveOriginal(j) \/ Cleanup(j) \/ Complete(j) \/ Release(j)

Next ==
  \/ \E j \in Jobs : Request(j) \/ Step(j) \/ ContextExpires(j)
  \/ \E j \in Jobs, s \in Stages : StagePodMoves(j, s)
  \/ \E p \in Pods : OriginalVanishes(p)
  \/ Restart

Spec == Init /\ [][Next]_vars

\* Every goroutine runs: its calls return, and its waits have deadlines.
FairSpec == Spec /\ \A j \in Jobs : WF_vars(Step(j))

-----------------------------------------------------------------------------
\* Every slot that is taken belongs to a job that will give it back, and no more jobs
\* run than are allowed: no exit of executeMigration, and no restart, leaks a slot or
\* frees one twice.
SlotsAreJobs == /\ slots = Cardinality(Active)
                /\ slots <= MaxConcurrent

Exists(s) == s \notin {"none", "deleted", "vanished"}

\* A job has at most one stage pod at a time, apart from one that is being deleted, even
\* when a call fails after it took effect: they would all mount the checkpoint, which is
\* ReadWriteOnce.
OneStagePod ==
  \A j \in Jobs, s, t \in Stages :
    Exists(stagePod[j][s]) /\ Exists(stagePod[j][t]) => s = t

\* What a migration has promised its pod, whatever fails or crashes on the way.
Replaced(p) ==
  \E j \in arrived : PodOf[j] = p /\ stagePod[j]["output"] # "deleted"

Places == [p \in Pods |-> (IF orig[p] # "deleted" THEN {"source"} ELSE {})
                          \cup (IF Replaced(p) THEN {"target"} ELSE {})]

H == INSTANCE Handover WITH places <- Places

Implements == H!Spec

\* Every accepted migration ends and gives its slot back, unless the process dies.
MigrationEnds == \A j \in Jobs : (pc[j] \in Working) ~> (pc[j] \in {"over", "lost"})

\* What the output stage wrote outlives the migration (migration.go:248: "output stage is
\* never removed"); with preserve_pv it is in the checkpoint, which is mounted at the
\* stage's path.  A PVC whose deletion was asked for goes with the last pod that uses it.
OutputIsKept == \A j \in Jobs : status[j] = "completed" /\ j \in Preserve => pvc[j] = "there"
=============================================================================
