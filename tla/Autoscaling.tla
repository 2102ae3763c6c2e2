---------------------------- MODULE Autoscaling ----------------------------
(***************************************************************************)
(* The orchestrator's two autoscalers, the one of the HTTP interface       *)
(* (ai-storage-orchestrator/pkg/controller/autoscaling.go) and the         *)
(* reconciler of StorageHPA objects (storagehpa_controller.go).  Both      *)
(* compute, from the replicas they see and the metrics, how many are       *)
(* wanted, stabilise that with the recommendations of a window of time,    *)
(* and write it to the workload.  The first sees the replicas that exist   *)
(* (Status.Replicas), the second the replicas that are asked for           *)
(* (Spec.Replicas).                                                        *)
(*                                                                         *)
(* The recommendation of the metrics is a number of replicas, the demand,  *)
(* that the environment changes; time is counted in ticks.                 *)
(***************************************************************************)
EXTENDS Integers, FiniteSets

CONSTANTS
  MinReplicas, MaxReplicas,
  MaxUp, MaxDown,          \* MaxScaleChange of the policies; 0: no limit
  UpWindow, DownWindow,    \* the stabilisation windows, in ticks
  MaxDemand,               \* bound: replicas a metric may ask for, or a user
  MaxDisturbances          \* bound: changes of the demand, failing calls, manual scalings

ASSUME AutoscalingAssumption ==
  /\ MinReplicas \in Nat \ {0} /\ MaxReplicas \in Nat /\ MinReplicas <= MaxReplicas
  /\ MaxUp \in Nat /\ MaxDown \in Nat /\ UpWindow \in Nat /\ DownWindow \in Nat
  /\ MaxDemand \in Nat /\ MaxDisturbances \in Nat

VARIABLES
  reads,         \* which autoscaler this is: it reads the "status" or the "spec"
  scalerOn,      \* it exists
  specReplicas,  \* the workload's Spec.Replicas
  podReplicas,   \* its Status.Replicas
  demand,        \* the recommendation of the metrics
  upHistory, downHistory,  \* recommendations, with their age in ticks
  decision,      \* the replicas a tick is about to write, or Idle
  disturbances,  \* how often something has disturbed the loop
  manual         \* history: somebody else has scaled the workload

scaleVars == <<reads, scalerOn, specReplicas, podReplicas, demand, upHistory, downHistory,
               decision, disturbances, manual>>

Idle == -1
Oldest == IF UpWindow > DownWindow THEN UpWindow ELSE DownWindow
Recommendations == [replicas : Int, age : 0..Oldest]

ScaleTypeOK ==
  /\ reads \in {"status", "spec"}
  /\ scalerOn \in BOOLEAN
  /\ specReplicas \in Nat /\ podReplicas \in Nat
  /\ demand \in 0..MaxDemand
  /\ upHistory \subseteq Recommendations /\ downHistory \subseteq Recommendations
  /\ decision \in Nat \cup {Idle}
  /\ disturbances \in 0..MaxDisturbances
  /\ manual \in BOOLEAN

-----------------------------------------------------------------------------
Clamp(n) == IF n < MinReplicas THEN MinReplicas ELSE IF n > MaxReplicas THEN MaxReplicas ELSE n

\* Mutant: there are no bounds.
DesiredReplicas_Unbounded(current, wanted) == wanted

\* calculateDesiredReplicas: the largest recommendation, within the bounds, and no further
\* from what is seen than the policies allow.
DesiredReplicas(current, wanted) ==
  LET cur == IF current = 0 THEN 1 ELSE current
      n == Clamp(wanted)
  IN IF MaxUp > 0 /\ n - cur > MaxUp THEN cur + MaxUp
     ELSE IF MaxDown > 0 /\ cur - n > MaxDown THEN cur - MaxDown
     ELSE n

\* Mutant: recommendations do not leave the window.
Fresh_All(h, window) == h

Fresh(h, window) == {r \in h : r.age < window}

\* The largest recommendation of the window, or the new one when there is no window.
Stabilized(h, desired) ==
  IF h = {} THEN desired
  ELSE CHOOSE n \in {r.replicas : r \in h} : \A r \in h : r.replicas <= n

Older(h) == {[r EXCEPT !.age = IF @ < Oldest THEN @ + 1 ELSE @] : r \in h}

\* Mutant: scaling down goes by the recommendations of both directions.
ApplyStabilizationWindow_OneHistory(current, desired) ==
  LET new == [replicas |-> desired, age |-> 0]
      up == Fresh(Older(upHistory) \cup {new}, UpWindow)
      down == Fresh(Older(upHistory \cup downHistory) \cup {new}, DownWindow)
  IN \/ /\ desired > current
        /\ upHistory' = up
        /\ downHistory' = Older(downHistory)
        /\ decision' = Stabilized(up, desired)
     \/ /\ desired < current
        /\ upHistory' = Older(upHistory)
        /\ downHistory' = down
        /\ decision' = Stabilized(down, desired)
     \/ /\ desired = current
        /\ upHistory' = {} /\ downHistory' = {}
        /\ decision' = Idle

\* applyStabilizationWindow: one history is pruned and used, both are forgotten when nothing
\* is to change.
ApplyStabilizationWindow(current, desired) ==
  LET new == [replicas |-> desired, age |-> 0]
      up == Fresh(Older(upHistory) \cup {new}, UpWindow)
      down == Fresh(Older(downHistory) \cup {new}, DownWindow)
  IN \/ /\ desired > current
        /\ upHistory' = up
        /\ downHistory' = Older(downHistory)
        /\ decision' = Stabilized(up, desired)
     \/ /\ desired < current
        /\ upHistory' = Older(upHistory)
        /\ downHistory' = down
        /\ decision' = Stabilized(down, desired)
     \/ /\ desired = current
        /\ upHistory' = {} /\ downHistory' = {}
        /\ decision' = Idle

ScaleInit ==
  /\ reads \in {"status", "spec"}
  /\ scalerOn = FALSE
  /\ specReplicas \in MinReplicas..MaxReplicas
  /\ podReplicas = specReplicas
  /\ demand \in 0..MaxDemand
  /\ upHistory = {} /\ downHistory = {}
  /\ decision = Idle
  /\ disturbances = 0
  /\ manual = FALSE

\* A new autoscaler of the HTTP interface has no history; the reconciler keeps its own by
\* the name of the object, which outlives the object.
CreateScaler ==
  /\ ~scalerOn
  /\ scalerOn' = TRUE
  /\ IF reads = "status"
     THEN upHistory' = {} /\ downHistory' = {}
     ELSE UNCHANGED <<upHistory, downHistory>>
  /\ UNCHANGED <<reads, specReplicas, podReplicas, demand, decision, disturbances, manual>>

\* A tick that has decided still writes.
DeleteScaler ==
  /\ scalerOn
  /\ disturbances < MaxDisturbances
  /\ disturbances' = disturbances + 1
  /\ scalerOn' = FALSE
  /\ UNCHANGED <<reads, specReplicas, podReplicas, demand, upHistory, downHistory, decision,
                 manual>>

Decide(current, wanted) ==
  /\ scalerOn
  /\ decision = Idle
  /\ ApplyStabilizationWindow(current, DesiredReplicas(current, wanted))
  /\ UNCHANGED <<reads, scalerOn, specReplicas, podReplicas, demand, manual>>

\* runAutoscaler, at a tick whose two reads succeed (otherwise the tick changes nothing);
\* a workload without pods has no metrics.
AutoscalerTick ==
  /\ reads = "status"
  /\ podReplicas > 0
  /\ Decide(podReplicas, demand)
  /\ UNCHANGED disturbances

ReconcileHPA ==
  /\ reads = "spec"
  /\ Decide(specReplicas, demand)
  /\ UNCHANGED disturbances

\* Without metrics the reconciler goes by simulated ones.
ReconcileSimulated ==
  /\ reads = "spec"
  /\ disturbances < MaxDisturbances
  /\ disturbances' = disturbances + 1
  /\ \E n \in 0..MaxDemand : Decide(specReplicas, n)

\* ScaleWorkload, if the decision differs from what was read; equal ones write nothing.
ScaleWorkload ==
  /\ decision # Idle
  /\ specReplicas' = decision
  /\ decision' = Idle
  /\ UNCHANGED <<reads, scalerOn, podReplicas, demand, upHistory, downHistory, disturbances,
                 manual>>

ScaleFails ==
  /\ decision # Idle
  /\ disturbances < MaxDisturbances
  /\ disturbances' = disturbances + 1
  /\ decision' = Idle
  /\ UNCHANGED <<reads, scalerOn, specReplicas, podReplicas, demand, upHistory, downHistory,
                 manual>>

\* The workload's controller creates or deletes a pod.
PodsFollow ==
  /\ podReplicas # specReplicas
  /\ podReplicas' = IF podReplicas < specReplicas THEN podReplicas + 1 ELSE podReplicas - 1
  /\ UNCHANGED <<reads, scalerOn, specReplicas, demand, upHistory, downHistory, decision,
                 disturbances, manual>>

ChangeDemand ==
  /\ disturbances < MaxDisturbances
  /\ disturbances' = disturbances + 1
  /\ demand' \in 0..MaxDemand
  /\ UNCHANGED <<reads, scalerOn, specReplicas, podReplicas, upHistory, downHistory, decision,
                 manual>>

ManualScale ==
  /\ disturbances < MaxDisturbances
  /\ disturbances' = disturbances + 1
  /\ specReplicas' \in 1..MaxDemand
  /\ manual' = TRUE
  /\ UNCHANGED <<reads, scalerOn, podReplicas, demand, upHistory, downHistory, decision>>

ScaleNext ==
  \/ CreateScaler
  \/ DeleteScaler
  \/ AutoscalerTick
  \/ ReconcileHPA
  \/ ReconcileSimulated
  \/ ScaleWorkload
  \/ ScaleFails
  \/ PodsFollow
  \/ ChangeDemand
  \/ ManualScale

ScaleSpec == ScaleInit /\ [][ScaleNext]_scaleVars

\* The ticker ticks, the queue requeues, the calls return and pods come and go.
ScaleFairness ==
  /\ WF_scaleVars(AutoscalerTick \/ ReconcileHPA)
  /\ WF_scaleVars(ScaleWorkload)
  /\ WF_scaleVars(PodsFollow)

-----------------------------------------------------------------------------
(* Properties. *)

\* The reconciler's histories and limits never lead it out of the bounds
\* (storagehpa_controller.go:303, 327), as long as nobody else scales the workload.
HPAWithinBounds ==
  (reads = "spec" /\ ~manual) => specReplicas \in MinReplicas..MaxReplicas

\* A recommendation to scale down never scales up, although what is written is the largest
\* recommendation of a window in which the workload was larger, calls failed and the object
\* was deleted and created again (storagehpa_controller.go:377).
DownNeverRaises ==
  [][(/\ ReconcileHPA
      /\ ~manual
      /\ DesiredReplicas(specReplicas, demand) < specReplicas)
       => decision' <= specReplicas]_scaleVars

\* Once the autoscaler stays and nothing disturbs the loop any more, which happens when the
\* bound of the disturbances is reached, the workload gets the replicas that the metrics ask
\* for, within the bounds, in spite of windows, limits per change and pods that lag
\* (autoscaling.go:235, storagehpa_controller.go:240).
FollowsDemand == <>[]scalerOn => <>[](specReplicas = Clamp(demand))
=============================================================================
