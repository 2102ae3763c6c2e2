--------------------------- MODULE LoadBalancing ---------------------------
(***************************************************************************)
(* The orchestrator's load balancing                                       *)
(* (ai-storage-orchestrator/pkg/controller/loadbalancing.go): a job        *)
(* analyses the nodes, plans migrations from loaded nodes to others by     *)
(* its strategy and asks the migration controller for them, once or at     *)
(* every tick until it is cancelled.                                       *)
(*                                                                         *)
(* The strategies are of two kinds: pod_count compares the numbers of pods *)
(* on the nodes; the others compare a load that each computes from the     *)
(* metrics in its own way, which is a number chosen at every analysis.  A  *)
(* plan's calls to the API server are one step.  What becomes of an        *)
(* accepted migration (module Migration) is that its pod runs on the       *)
(* target some time later, or does not.  Scores and improvements are only  *)
(* reported and left out.                                                  *)
(***************************************************************************)
EXTENDS Integers, FiniteSets

CONSTANTS
  LbNodes,
  LbPods,
  ControlPods,   \* the pods of the namespaces kube-system and apollo
  ScopePods,     \* the pods of the namespace a scoped request names
  LbJobs,
  LbRequests,    \* what a job may ask: [strategy, scoped, periodic, max]
  LoadLevels,    \* the loads of a node
  OverLoad, UnderLoad  \* above the first a node is overloaded, below the second underloaded

ASSUME LoadBalancingAssumption ==
  /\ IsFiniteSet(LbNodes) /\ IsFiniteSet(LbPods)
  /\ ControlPods \subseteq LbPods /\ ScopePods \subseteq LbPods
  /\ LoadLevels \subseteq Nat /\ OverLoad \in Nat /\ UnderLoad \in Nat
  /\ \A q \in LbRequests : q.max \in Nat \ {0}

VARIABLES
  podNode,      \* podNode[p]: the node p runs on
  moving,       \* accepted migrations that are not over: [pod, to]
  lbAsked,      \* lbAsked[j]: j's request
  lbPc,         \* lbPc[j]: the next step of runLoadbalancing
  lbStatus,     \* lbStatus[j]: job.Status
  lbSeen,       \* lbSeen[j]: what the analysis of the current cycle compares
  lbPlan,       \* lbPlan[j]: planned migrations not asked for yet: [pod, from, to]
  lbCancelled,  \* the jobs whose context is cancelled
  lbActive      \* metrics.ActiveLoadbalancingJobs

lbVars == <<podNode, moving, lbAsked, lbPc, lbStatus, lbSeen, lbPlan, lbCancelled, lbActive>>

LbTerminal == {"Completed", "Failed", "Cancelled"}

LbTypeOK ==
  /\ podNode \in [LbPods -> LbNodes]
  /\ moving \subseteq [pod : LbPods, to : LbNodes]
  /\ lbAsked \in [LbJobs -> LbRequests]
  /\ lbPc \in [LbJobs -> {"none", "analyze", "plan", "execute", "end", "wait", "leave", "over"}]
  /\ lbStatus \in [LbJobs -> {"Pending", "Analyzing", "Executing"} \cup LbTerminal]
  /\ \A j \in LbJobs : /\ lbPlan[j] \subseteq [pod : LbPods, from : LbNodes, to : LbNodes]
                       /\ DOMAIN lbSeen[j] \subseteq LbNodes
  /\ lbCancelled \subseteq LbJobs
  /\ lbActive \in Nat

-----------------------------------------------------------------------------
LbGoto(j, l) == lbPc' = [lbPc EXCEPT ![j] = l]
SetLbStatus(j, s) == lbStatus' = [lbStatus EXCEPT ![j] = s]

InScope(q) == IF q.scoped THEN ScopePods ELSE LbPods
PodsOn(n, q) == {p \in InScope(q) : podNode[p] = n}

\* The nodes of S, at most k of them, that come first when the list is sorted by f, highest
\* first, equal ones in any order.
Highest(S, f, k) ==
  {T \in SUBSET S : /\ Cardinality(T) = IF Cardinality(S) <= k THEN Cardinality(S) ELSE k
                    /\ \A a \in T, b \in S \ T : f[a] >= f[b]}

\* The counts, over the mean (total / nodes) by more than the threshold less one: 1 in a
\* namespace, else ceil(mean / 2) if that is more.
IsSource(n, q, seen, total) ==
  LET nodes == Cardinality(DOMAIN seen)
      half == (total + 2 * nodes - 1) \div (2 * nodes)
      threshold == IF q.scoped \/ half < 1 THEN 1 ELSE half
  IN seen[n] * nodes > total + nodes * (threshold - 1)

\* Mutant: the targets are sorted like the sources.
FewestPods_Most(n, seen) ==
  {t \in DOMAIN seen \ {n} : \A u \in DOMAIN seen \ {n} : seen[t] >= seen[u]}

FewestPods(n, seen) ==
  {t \in DOMAIN seen \ {n} : \A u \in DOMAIN seen \ {n} : seen[t] <= seen[u]}

\* calculatePodCountPlan: of each source one pod, to the node with the fewest.
PodCountPlans(q, seen) ==
  LET total == Cardinality({p \in InScope(q) : podNode[p] \in DOMAIN seen})
      movable(n) == PodsOn(n, q) \ ControlPods
      sources == {n \in DOMAIN seen : IsSource(n, q, seen, total) /\ movable(n) # {}}
  IN IF Cardinality(DOMAIN seen) < 2 \/ total = 0 THEN {{}}
     ELSE UNION {{{[pod |-> pick[n], from |-> n, to |-> goal[n]] : n \in T} :
                    pick \in {f \in [T -> LbPods] : \A n \in T : f[n] \in movable(n)},
                    goal \in {g \in [T -> LbNodes] : \A n \in T : g[n] \in FewestPods(n, seen)}} :
                 T \in Highest(sources, seen, q.max)}

\* calculateLoadSpreadingPlan, calculateStorageIOBalancedPlan and the weighted plans: all
\* pods of the overloaded nodes, most loaded node first, to one node: the first of the
\* underloaded ones, of which the list is sorted most loaded first.
LoadPlans(q, seen) ==
  LET over == {n \in DOMAIN seen : seen[n] > OverLoad}
      under == {n \in DOMAIN seen : seen[n] <= OverLoad /\ seen[n] < UnderLoad}
      pods == {p \in InScope(q) : podNode[p] \in over}
  IN IF over = {} \/ under = {} THEN {{}}
     ELSE {{[pod |-> p, from |-> podNode[p], to |-> t] : p \in S} :
             S \in Highest(pods, [p \in pods |-> seen[podNode[p]]], q.max),
             t \in UNION Highest(under, seen, 1)}

LbInit ==
  /\ podNode \in [LbPods -> LbNodes]
  /\ moving = {}
  /\ lbAsked \in [LbJobs -> LbRequests]
  /\ lbPc = [j \in LbJobs |-> "none"]
  /\ lbStatus = [j \in LbJobs |-> "Pending"]
  /\ lbSeen = [j \in LbJobs |-> <<>>]
  /\ lbPlan = [j \in LbJobs |-> {}]
  /\ lbCancelled = {}
  /\ lbActive = 0

StartLoadbalancing(j) ==
  /\ lbPc[j] = "none"
  /\ lbActive' = lbActive + 1
  /\ LbGoto(j, "analyze")
  /\ UNCHANGED <<podNode, moving, lbAsked, lbStatus, lbSeen, lbPlan, lbCancelled>>

\* A node whose state cannot be read is left out; without the list of nodes the job fails.
AnalyzeClusterState(j) ==
  /\ lbPc[j] = "analyze"
  /\ \/ /\ SetLbStatus(j, "Analyzing")
        /\ \E S \in SUBSET LbNodes :
             IF lbAsked[j].strategy = "pod_count"
             THEN lbSeen' = [lbSeen EXCEPT ![j] =
                               [n \in S |-> Cardinality(PodsOn(n, lbAsked[j]))]]
             ELSE \E f \in [S -> LoadLevels] : lbSeen' = [lbSeen EXCEPT ![j] = f]
        /\ LbGoto(j, "plan")
     \/ /\ SetLbStatus(j, "Failed")
        /\ LbGoto(j, "leave")
        /\ UNCHANGED lbSeen
  /\ UNCHANGED <<podNode, moving, lbAsked, lbPlan, lbCancelled, lbActive>>

\* pod_count reads the pods again.
CalculateMigrationPlan(j) ==
  /\ lbPc[j] = "plan"
  /\ LET q == lbAsked[j]
         seen == IF q.strategy = "pod_count"
                 THEN [n \in DOMAIN lbSeen[j] |-> Cardinality(PodsOn(n, q))]
                 ELSE lbSeen[j]
     IN \E P \in IF q.strategy = "pod_count" THEN PodCountPlans(q, seen) ELSE LoadPlans(q, seen) :
       /\ lbSeen' = [lbSeen EXCEPT ![j] = seen]
       /\ lbPlan' = [lbPlan EXCEPT ![j] = P]
       /\ IF P = {} THEN LbGoto(j, "end") /\ UNCHANGED lbStatus
                    ELSE LbGoto(j, "execute") /\ SetLbStatus(j, "Executing")
  /\ UNCHANGED <<podNode, moving, lbAsked, lbCancelled, lbActive>>

\* StartMigration accepts or refuses; neither the context nor a migration of the same pod
\* is looked at.
ExecuteMigrations(j) ==
  /\ lbPc[j] = "execute"
  /\ IF lbPlan[j] = {}
     THEN LbGoto(j, "end") /\ UNCHANGED <<lbPlan, moving>>
     ELSE \E m \in lbPlan[j] :
       /\ lbPlan' = [lbPlan EXCEPT ![j] = @ \ {m}]
       /\ \/ moving' = moving \cup {[pod |-> m.pod, to |-> m.to]}
          \/ UNCHANGED moving
       /\ UNCHANGED lbPc
  /\ UNCHANGED <<podNode, lbAsked, lbStatus, lbSeen, lbCancelled, lbActive>>

\* The state is analysed once more for the report.
EndCycle(j) ==
  /\ lbPc[j] = "end"
  /\ IF lbAsked[j].periodic
     THEN LbGoto(j, "wait") /\ UNCHANGED lbStatus
     ELSE LbGoto(j, "leave") /\ SetLbStatus(j, "Completed")
  /\ lbSeen' = [lbSeen EXCEPT ![j] = <<>>]
  /\ UNCHANGED <<podNode, moving, lbAsked, lbPlan, lbCancelled, lbActive>>

Tick(j) ==
  /\ lbPc[j] = "wait"
  /\ LbGoto(j, "analyze")
  /\ UNCHANGED <<podNode, moving, lbAsked, lbStatus, lbSeen, lbPlan, lbCancelled, lbActive>>

\* Mutant: the context is tested only before the first cycle, never in the select.
SeeCancelled_Never(j) ==
  /\ lbPc[j] = "wait"
  /\ j \in lbCancelled
  /\ lbStatus[j] = "Pending"
  /\ SetLbStatus(j, "Cancelled")
  /\ LbGoto(j, "leave")
  /\ UNCHANGED <<podNode, moving, lbAsked, lbSeen, lbPlan, lbCancelled, lbActive>>

SeeCancelled(j) ==
  /\ lbPc[j] = "wait"
  /\ j \in lbCancelled
  /\ SetLbStatus(j, "Cancelled")
  /\ LbGoto(j, "leave")
  /\ UNCHANGED <<podNode, moving, lbAsked, lbSeen, lbPlan, lbCancelled, lbActive>>

\* The deferred end of runLoadbalancing.
LeaveLoadbalancing(j) ==
  /\ lbPc[j] = "leave"
  /\ lbActive' = lbActive - 1
  /\ LbGoto(j, "over")
  /\ UNCHANGED <<podNode, moving, lbAsked, lbStatus, lbSeen, lbPlan, lbCancelled>>

\* Mutant: cancelling also sets the status, which the goroutine may have set meanwhile.
CancelLoadbalancing_SetsStatus(j) ==
  /\ lbPc[j] # "none"
  /\ lbStatus[j] \notin LbTerminal
  /\ lbCancelled' = lbCancelled \cup {j}
  /\ SetLbStatus(j, "Cancelled")
  /\ UNCHANGED <<podNode, moving, lbAsked, lbPc, lbSeen, lbPlan, lbActive>>

CancelLoadbalancing(j) ==
  /\ lbPc[j] # "none"
  /\ lbStatus[j] \notin LbTerminal
  /\ lbCancelled' = lbCancelled \cup {j}
  /\ UNCHANGED <<podNode, moving, lbAsked, lbPc, lbStatus, lbSeen, lbPlan, lbActive>>

\* A migration ends: its pod runs on the target, or stays.
MigrationOver(m) ==
  /\ m \in moving
  /\ moving' = moving \ {m}
  /\ \/ podNode' = [podNode EXCEPT ![m.pod] = m.to]
     \/ UNCHANGED podNode
  /\ UNCHANGED <<lbAsked, lbPc, lbStatus, lbSeen, lbPlan, lbCancelled, lbActive>>

LbCycle(j) ==
  \/ AnalyzeClusterState(j)
  \/ CalculateMigrationPlan(j)
  \/ ExecuteMigrations(j)
  \/ EndCycle(j)
  \/ LeaveLoadbalancing(j)

LbNext ==
  \/ \E j \in LbJobs :
       \/ StartLoadbalancing(j)
       \/ LbCycle(j)
       \/ Tick(j)
       \/ SeeCancelled(j)
       \/ CancelLoadbalancing(j)
  \/ \E m \in moving : MigrationOver(m)

LbSpec == LbInit /\ [][LbNext]_lbVars

\* The calls of a cycle return.  When the tick and the cancellation are both ready, the
\* select of Go chooses one at random: the cancellation is chosen some time.
LbFairness ==
  \A j \in LbJobs : WF_lbVars(LbCycle(j)) /\ SF_lbVars(SeeCancelled(j)) /\ WF_lbVars(Tick(j))

-----------------------------------------------------------------------------
(* Properties. *)

\* A planned migration leads downhill (loadbalancing.go:606, 678, 796, 898): its target had
\* fewer pods, or less load, than its source, and no cycle asks for more than the limit.
MovesGoDown ==
  \A j \in LbJobs :
    /\ Cardinality(lbPlan[j]) <= lbAsked[j].max
    /\ \A m \in lbPlan[j] : lbSeen[j][m.to] < lbSeen[j][m.from]

\* A job that reports an end has ended (loadbalancing.go:160, 168, 195, 1063): it keeps its
\* status and asks for no migration, however cancel requests and cycles interleave.
EndedIsEnded ==
  [][\A j \in LbJobs : lbStatus[j] \in LbTerminal =>
       /\ lbStatus'[j] = lbStatus[j]
       /\ lbPlan'[j] = lbPlan[j]]_lbVars

\* A periodic job that is cancelled ends (loadbalancing.go:195), although its ticker may
\* be ready each time.
CancelledEnds == \A j \in LbJobs : (j \in lbCancelled) ~> (lbPc[j] = "over")
=============================================================================
