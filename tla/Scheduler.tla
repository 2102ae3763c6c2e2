------------------------------ MODULE Scheduler ------------------------------
(***************************************************************************)
(* The ai-storage-scheduler as a whole: the API server's pods and nodes,   *)
(* the informers' three listeners (eventhandler.go), the cache             *)
(* (SchedulerCache), the scheduling loop and the binding goroutines        *)
(* (schedule_one.go).  The active queue is a set here: which queued pod a  *)
(* pop returns, and the threads inside the queue, are SchedulingQueue's.   *)
(*                                                                         *)
(* Each listener drains notifications of its own in order, so the same     *)
(* pod event can reach the queue long before or after it reaches the       *)
(* cache.  Notifications are queued as the handler call the filter turns   *)
(* them into; one that the filter rejects is not queued.                   *)
(*                                                                         *)
(* The initial state is any cluster the scheduler may be started in, with  *)
(* the informers' stores empty and their first lists still to come, so it  *)
(* is also the state after a restart of its process.                       *)
(***************************************************************************)
EXTENDS SchedulerCache, Sequences, Functions, FiniteSetsExt

CONSTANTS
  Req,          \* Req[p]: what a pod requests
  Cap,          \* Cap[n]: what a node can allocate
  MaxEarly,     \* bound: starts of ScheduleOne before the initial lists are delivered
  MaxUpdates,   \* bound: updates of pods and nodes that move nothing
  MaxNodeAdds,  \* bound: nodes that join
  MaxFlaps,     \* bound: nodes that leave
  MaxGaps,      \* bound: watches that are lost
  MaxFails      \* bound: Bind calls that fail although the pod is pending

ASSUME SchedulerAssumption ==
  /\ IsFiniteSet(Pods)
  /\ Pods \cap {"none"} = {} /\ Nodes \cap {"absent", "pending", "gone"} = {}
  /\ Req \in [Pods -> Nat]
  /\ Cap \in [Nodes -> Nat]
  /\ {MaxEarly, MaxUpdates, MaxNodeAdds, MaxFlaps, MaxGaps, MaxFails} \subseteq Nat

VARIABLES
  api,      \* api[p]: "absent", "pending", the node p is bound to, or "gone"
  nodes,    \* the nodes in the API server
  gap,      \* the informers' watches are broken
  seen,     \* [pods, nodes]: what the informers' stores hold
  toCache,  \* calls pending at the pods -> cache listener
  toQueue,  \* calls pending at the pods -> queue listener
  toNodes,  \* calls pending at the nodes listener
  checked,  \* the pod of a queue update that was found not to be assumed
  cache,    \* the SchedulerCache record
  queued,   \* the pods in the active queue
  loop,     \* [pc, pod, node]: the scheduling cycle in progress
  binds,    \* the binding goroutines: [pod, node]
  budget    \* how often each bounded event has happened

vars == <<api, nodes, gap, seen, toCache, toQueue, toNodes, checked, cache, queued,
          loop, binds, budget>>
cluster   == <<api, nodes, gap, seen>>
listeners == <<toCache, toQueue, toNodes, checked>>
inside    == <<cache, queued, loop, binds>>

NoPod  == "none"
Idle   == [pc |-> "idle", pod |-> NoPod, node |-> NoNode]
Up     == ~cache.down

ApiStates == {"absent", "pending", "gone"} \cup Nodes
PodCalls  == [op : {"add", "update", "remove"}, pod : Pods, node : Nodes \cup {NoNode}]
NodeCalls == [op : {"set", "remove"}, node : Nodes]
Kinds     == {"early", "update", "nodeAdd", "flap", "gap", "fail"}

TypeOK ==
  /\ api \in [Pods -> ApiStates]
  /\ nodes \subseteq Nodes
  /\ gap \in BOOLEAN
  /\ seen \in [pods : [Pods -> ApiStates], nodes : SUBSET Nodes]
  /\ toCache \in Seq(PodCalls)
  /\ toQueue \in Seq(PodCalls)
  /\ toNodes \in Seq(NodeCalls)
  /\ checked \in Pods \cup {NoPod}
  /\ cache \in Caches
  /\ queued \subseteq Pods
  /\ loop \in      [pc : {"off", "idle"}, pod : {NoPod}, node : {NoNode}]
             \cup [pc : {"picked"}, pod : Pods, node : {NoNode}]
             \cup [pc : {"chosen"}, pod : Pods, node : Nodes]
  /\ binds \subseteq [pod : Pods, node : Nodes]
  /\ budget \in [Kinds -> Nat]

-----------------------------------------------------------------------------
(* Notifications.                                                          *)

NodeOf(s)    == IF s \in Nodes THEN s ELSE NoNode
Exists(s)    == s \notin {"absent", "gone"}
Call(o, p, n) == <<[op |-> o, pod |-> p, node |-> n]>>

\* What the pods -> cache listener is called with when the store's p goes from a to
\* b.  Its filter is assignedPod; a tombstone (the deletion was missed, a is the
\* last state the store knew) passes it whatever it holds.
CacheCall(p, a, b, tomb) ==
  CASE b = "gone" /\ (a \in Nodes \/ tomb) -> Call("remove", p, NodeOf(a))
    [] b \in Nodes /\ a \in Nodes          -> Call("update", p, b)
    [] b \in Nodes /\ a \notin Nodes       -> Call("add", p, b)
    [] OTHER                               -> <<>>

\* The same for the pods -> queue listener, whose filter is "not assigned"; it
\* rejects every tombstone.
QueueCall(p, a, b, tomb) ==
  CASE b = "pending" /\ a = "pending"          -> Call("update", p, NoNode)
    [] b = "pending" /\ a # "pending"          -> Call("add", p, NoNode)
    [] b # "pending" /\ a = "pending" /\ ~tomb -> Call("remove", p, NoNode)
    [] OTHER                                   -> <<>>

NodeCall(o, n) == <<[op |-> o, node |-> n]>>

\* The watch delivers one change of p.
NotifyPod(p, b) ==
  IF gap THEN UNCHANGED <<seen, toCache, toQueue>>
  ELSE /\ seen' = [seen EXCEPT !.pods[p] = b]
       /\ toCache' = toCache \o CacheCall(p, api[p], b, FALSE)
       /\ toQueue' = toQueue \o QueueCall(p, api[p], b, FALSE)

NotifyNode(o, n, after) ==
  IF gap THEN UNCHANGED <<seen, toNodes>>
  ELSE /\ seen' = [seen EXCEPT !.nodes = after]
       /\ toNodes' = toNodes \o NodeCall(o, n)

Spend(kind, max) == /\ budget[kind] < max
                    /\ budget' = [budget EXCEPT ![kind] = @ + 1]

-----------------------------------------------------------------------------
(* The cluster.                                                            *)

SetPod(p, b) == /\ api' = [api EXCEPT ![p] = b]
                /\ NotifyPod(p, b)

CreatePod(p) ==
  /\ api[p] = "absent"
  /\ SetPod(p, "pending")
  /\ UNCHANGED <<nodes, gap, toNodes, checked, inside, budget>>

TouchPod(p) ==
  /\ Exists(api[p]) /\ Spend("update", MaxUpdates)
  /\ SetPod(p, api[p])
  /\ UNCHANGED <<nodes, gap, toNodes, checked, inside>>

DeletePod(p) ==
  /\ Exists(api[p])
  /\ SetPod(p, "gone")
  /\ UNCHANGED <<nodes, gap, toNodes, checked, inside, budget>>

AddNode(n) ==
  /\ n \notin nodes /\ Spend("nodeAdd", MaxNodeAdds)
  /\ nodes' = nodes \cup {n}
  /\ NotifyNode("set", n, nodes')
  /\ UNCHANGED <<api, gap, toCache, toQueue, checked, inside>>

TouchNode(n) ==
  /\ n \in nodes /\ Spend("update", MaxUpdates)
  /\ NotifyNode("set", n, nodes)
  /\ UNCHANGED <<api, nodes, gap, toCache, toQueue, checked, inside>>

TakeNodeAway(n) ==
  /\ n \in nodes /\ Spend("flap", MaxFlaps)
  /\ nodes' = nodes \ {n}
  /\ NotifyNode("remove", n, nodes')
  /\ UNCHANGED <<api, gap, toCache, toQueue, checked, inside>>

LoseWatch ==
  /\ ~gap /\ loop.pc # "off" /\ Spend("gap", MaxGaps)
  /\ gap' = TRUE
  /\ UNCHANGED <<api, nodes, seen, listeners, inside>>

\* The informers list again, and bring their stores up to date one object at a time,
\* with one notification for all that happened to it meanwhile: a tombstone, if it
\* has disappeared.  An object that came and went unseen has none.
Missed(p) == api[p] # seen.pods[p] /\ (Exists(api[p]) \/ Exists(seen.pods[p]))

CatchUpPod(p) ==
  /\ gap /\ Missed(p)
  /\ seen' = [seen EXCEPT !.pods[p] = api[p]]
  /\ toCache' = toCache \o CacheCall(p, seen.pods[p], api[p], api[p] = "gone")
  /\ toQueue' = toQueue \o QueueCall(p, seen.pods[p], api[p], api[p] = "gone")
  /\ UNCHANGED <<api, nodes, gap, toNodes, checked, inside, budget>>

\* The filter of the nodes listener rejects tombstones.
CatchUpNode(n) ==
  /\ gap
  /\ \/ /\ n \in nodes \ seen.nodes
        /\ seen' = [seen EXCEPT !.nodes = @ \cup {n}]
        /\ toNodes' = toNodes \o NodeCall("set", n)
     \/ /\ n \in seen.nodes \ nodes
        /\ seen' = [seen EXCEPT !.nodes = @ \ {n}]
        /\ UNCHANGED toNodes
  /\ UNCHANGED <<api, nodes, gap, toCache, toQueue, checked, inside, budget>>

Watch ==
  /\ gap /\ seen.nodes = nodes /\ \A p \in Pods : ~Missed(p)
  /\ gap' = FALSE
  /\ UNCHANGED <<api, nodes, seen, listeners, inside, budget>>

-----------------------------------------------------------------------------
(* The listeners' handlers.                                                *)

\* addPodToCache, updatePodInCache, deletePodFromCache.
CacheHandler ==
  /\ Up /\ toCache # <<>>
  /\ LET e == Head(toCache) IN
       cache' = CASE e.op = "add"    -> AddPod(cache, e.pod, e.node)
                  [] e.op = "update" -> UpdatePod(cache, e.pod, e.node, e.node)
                  [] e.op = "remove" -> RemovePod(cache, e.pod, e.node)
  /\ toCache' = Tail(toCache)
  /\ UNCHANGED <<cluster, toQueue, toNodes, checked, queued, loop, binds, budget>>

\* addPodToSchedulingQueue, deletePodFromSchedulingQueue, and the first half of
\* updatePodInSchedulingQueue, up to the answer of IsAssumedPod.
QueueHandler ==
  /\ Up /\ toQueue # <<>> /\ checked = NoPod
  /\ LET e == Head(toQueue) IN
       /\ queued' = CASE e.op = "add"    -> queued \cup {e.pod}
                      [] e.op = "remove" -> queued \ {e.pod}
                      [] OTHER           -> queued
       /\ checked' = IF e.op = "update" /\ ~IsAssumedPod(cache, e.pod)
                     THEN e.pod ELSE NoPod
  /\ toQueue' = Tail(toQueue)
  /\ UNCHANGED <<cluster, toCache, toNodes, cache, loop, binds, budget>>

\* The second half: SchedulingQueue.Update, on an answer that may be stale.
QueueUpdate ==
  /\ Up /\ checked # NoPod
  /\ queued' = queued \cup {checked}
  /\ checked' = NoPod
  /\ UNCHANGED <<cluster, toCache, toQueue, toNodes, cache, loop, binds, budget>>

\* addNodeToCache, updateNodeInCache (which requeues nothing), deleteNodeFromCache.
NodeHandler ==
  /\ Up /\ toNodes # <<>>
  /\ LET e == Head(toNodes) IN
       cache' = IF e.op = "set" THEN SetNode(cache, e.node) ELSE RemoveNode(cache, e.node)
  /\ toNodes' = Tail(toNodes)
  /\ UNCHANGED <<cluster, toCache, toQueue, checked, queued, loop, binds, budget>>

-----------------------------------------------------------------------------
(* The scheduling loop and the binding goroutines.                         *)

\* What the informers have listed has been delivered.
Synced == ~gap /\ toCache = <<>> /\ toQueue = <<>> /\ toNodes = <<>> /\ checked = NoPod

\* InitScheduler waits for the caches of informers that Run has not started yet,
\* which is no wait at all: the loop may start early.
Start ==
  /\ Up /\ loop.pc = "off"
  /\ IF Synced THEN UNCHANGED budget ELSE Spend("early", MaxEarly)
  /\ loop' = Idle
  /\ UNCHANGED <<cluster, listeners, cache, queued, binds>>

Pop(p) ==
  /\ Up /\ loop.pc = "idle" /\ p \in queued
  /\ queued' = queued \ {p}
  /\ loop' = [pc |-> "picked", pod |-> p, node |-> NoNode]
  /\ UNCHANGED <<cluster, listeners, cache, binds, budget>>

\* NodeInfo.Requested, in the one resource modelled.
Requested(c, n) == SumFunctionOnSet([p \in Pods |-> c.count[n][p] * Req[p]], Pods)

\* Mutant: a node is filtered by its capacity alone.
Fits_IgnoresUsage(c, p, n) == n \in c.real /\ Req[p] <= Cap[n]

\* Mutant: a pod that would fill the node exactly is turned away.
Fits_Strict(c, p, n) == n \in c.real /\ Req[p] < Cap[n] - Requested(c, n)

\* NodeResourcesFit on a node with a Node object behind it.
Fits(c, p, n) == n \in c.real /\ Req[p] <= Cap[n] - Requested(c, n)

\* schedulePod: any node the filters leave may score best; with none left the
\* scheduling cycle fails and the pod is dropped.
SchedulePod ==
  /\ Up /\ loop.pc = "picked"
  /\ \/ \E n \in Nodes : /\ Fits(cache, loop.pod, n)
                         /\ loop' = [loop EXCEPT !.pc = "chosen", !.node = n]
     \/ /\ \A n \in Nodes : ~Fits(cache, loop.pod, n)
        /\ loop' = Idle
  /\ UNCHANGED <<cluster, listeners, cache, queued, binds, budget>>

\* assume, and the start of the binding goroutine.  A pod that is in the cache
\* already fails the cycle.
Assume ==
  /\ Up /\ loop.pc = "chosen"
  /\ cache' = AssumePod(cache, loop.pod, loop.node)
  /\ binds' = IF MayAssume(cache, loop.pod)
              THEN binds \cup {[pod |-> loop.pod, node |-> loop.node]} ELSE binds
  /\ loop' = Idle
  /\ UNCHANGED <<cluster, listeners, queued, budget>>

\* DefaultBinder.Bind is accepted: the pod was still pending.
BindLands(b) ==
  /\ Up /\ b \in binds /\ api[b.pod] = "pending"
  /\ SetPod(b.pod, b.node)
  /\ binds' = binds \ {b}
  /\ UNCHANGED <<nodes, gap, toNodes, checked, cache, queued, loop, budget>>

\* Bind is refused (the pod is gone or bound), or fails on the way.  The pod stays
\* assumed: nothing un-assumes it and nothing tries again.
BindFails(b) ==
  /\ Up /\ b \in binds
  /\ IF api[b.pod] = "pending" THEN Spend("fail", MaxFails) ELSE UNCHANGED budget
  /\ binds' = binds \ {b}
  /\ UNCHANGED <<cluster, listeners, cache, queued, loop>>

-----------------------------------------------------------------------------
\* The pods bound in the API server fit the nodes they are bound to.
BoundFits ==
  \A n \in Nodes :
    SumFunctionOnSet([p \in Pods |-> IF api[p] = n THEN Req[p] ELSE 0], Pods) <= Cap[n]

Init ==
  /\ nodes \in SUBSET Nodes
  /\ api \in [Pods -> {"absent", "pending"} \cup nodes]
  /\ BoundFits
  /\ gap = TRUE
  /\ seen = [pods |-> [p \in Pods |-> "absent"], nodes |-> {}]
  /\ toCache = <<>>
  /\ toQueue = <<>>
  /\ toNodes = <<>>
  /\ checked = NoPod
  /\ cache = EmptyCache
  /\ queued = {}
  /\ loop = [Idle EXCEPT !.pc = "off"]
  /\ binds = {}
  /\ budget = [k \in Kinds |-> 0]

Loop     == Start \/ (\E p \in Pods : Pop(p)) \/ SchedulePod \/ Assume
Relist   == Watch \/ (\E p \in Pods : CatchUpPod(p)) \/ (\E n \in Nodes : CatchUpNode(n))
Binding  == \E b \in binds : BindLands(b) \/ BindFails(b)

Next ==
  \/ \E p \in Pods : CreatePod(p) \/ TouchPod(p) \/ DeletePod(p)
  \/ \E n \in Nodes : AddNode(n) \/ TouchNode(n) \/ TakeNodeAway(n)
  \/ LoseWatch \/ Watch
  \/ \E p \in Pods : CatchUpPod(p)
  \/ \E n \in Nodes : CatchUpNode(n)
  \/ CacheHandler \/ QueueHandler \/ QueueUpdate \/ NodeHandler
  \/ Start \/ (\E p \in Pods : Pop(p)) \/ SchedulePod \/ Assume
  \/ \E b \in binds : BindLands(b) \/ BindFails(b)

Spec == Init /\ [][Next]_vars

\* Each listener drains its notifications, the loop keeps going while it has a pod,
\* every binding goroutine returns, and a lost watch is re-established.
FairSpec ==
  /\ Spec
  /\ WF_vars(CacheHandler) /\ WF_vars(QueueHandler \/ QueueUpdate) /\ WF_vars(NodeHandler)
  /\ WF_vars(Loop) /\ WF_vars(Binding) /\ WF_vars(Relist)

-----------------------------------------------------------------------------
\* A pod's requests are charged at most once, and only to the node its cache entry
\* names: whatever order the listeners, the loop and the nodes' coming and going
\* take, no NodeInfo keeps a phantom.
ChargedOnce ==
  \A n \in Nodes, p \in Pods :
    cache.count[n][p] <= (IF cache.state[p] = n /\ n \in cache.infos THEN 1 ELSE 0)

\* A pod that exists has at most one binding goroutine, and it binds to the node the
\* cache charges: popping a pod twice, or queueing it on a stale answer of
\* IsAssumedPod, never binds it twice.
OneBind ==
  \A b \in binds : api[b.pod] # "gone" =>
    /\ \A d \in binds : d.pod = b.pod => d = b
    /\ cache.state[b.pod] = b.node

\* What makes the two inductive.  Named(p, n): some part of the system takes n for
\* the node p is bound to.
Named(p, n) ==
  \/ api[p] = n
  \/ seen.pods[p] = n
  \/ \E e \in Range(toCache) : e.pod = p /\ e.node = n
  \/ cache.state[p] = n /\ p \notin cache.assumed

\* A pod is bound once in its life, and nobody names a node before that.
OneHome ==
  \A p \in Pods, m, n \in Nodes :
    Named(p, m) => /\ Named(p, n) => m = n
                   /\ api[p] \notin {"absent", "pending"}

\* A removal is only on its way for a deleted pod; the other calls name a node.
CallsFit ==
  \A e \in Range(toCache) :
    IF e.op = "remove" THEN api[e.pod] = "gone" ELSE e.node \in Nodes

\* p is in the queue, or on its way into or out of it.
InQueueSide(p) ==
  \/ p \in queued \/ loop.pod = p \/ checked = p
  \/ \E e \in Range(toQueue) : e.pod = p /\ e.op # "remove"

\* A pod there exists or existed; one that is bound is known to the cache, which
\* refuses to assume it.
QueueSideKnown ==
  \A p \in Pods :
    /\ InQueueSide(p) => /\ api[p] # "absent"
                         /\ api[p] \in Nodes => cache.state[p] # NoNode
    /\ api[p] = "absent" => seen.pods[p] = "absent"

\* The pod of a binding goroutine is pending, or deleted.
BindsOpen ==
  \A b \in binds : api[b.pod] \in {"pending", "gone"}

SchedulerInv == /\ TypeOK /\ ChargedOnce /\ OneBind
                /\ OneHome /\ CallsFit /\ QueueSideKnown /\ BindsOpen

\* No node is bound beyond its capacity (NodeResourcesFit, ARCHITECTURE.md:216:
\* "Checks CPU/Memory availability").
NoOvercommit == BoundFits

\* Nothing is on its way to the scheduler.
Quiet == Synced /\ binds = {} /\ loop.pc = "idle" /\ Up

\* The loop was started as InitScheduler means it to be, and no node has left so far.
Steady == budget["early"] = 0 /\ budget["flap"] = 0

\* Once everything has been delivered, the cache is the cluster: its nodes are the
\* nodes, and each bound pod is charged to its node.
QuietCacheIsCurrent ==
  Quiet => /\ cache.real = nodes
           /\ \A p \in Pods : api[p] \in nodes => cache.count[api[p]][p] = 1

\* The handlers report the errors of the cache and go on (eventhandler.go:264-266);
\* they never end the process.
NeverDown == Up

\* The three hold while the system is steady: the loop waited for the first lists, as
\* waitForCacheSync (scheduler.go) is there to make it, and no node has left.  Lost
\* watches, failing Bind calls, updates and joining nodes do not break them.
SteadyFits           == Steady => NoOvercommit
SteadyCacheIsCurrent == Steady => QuietCacheIsCurrent
SteadyUp             == Steady => NeverDown

\* A node has room for p beside the pods bound to it.
HasRoom(p) ==
  \E n \in nodes :
    SumFunctionOnSet([q \in Pods |-> IF q = p \/ api[q] = n THEN Req[q] ELSE 0], Pods)
      <= Cap[n]

\* No pod stays pending for ever while a node has room for it all along
\* (ARCHITECTURE.md:206-212: a detected pod enters the queue, is scheduled and bound).
PendingIsBound ==
  \A p \in Pods : ~<>[](api[p] = "pending" /\ HasRoom(p))
=============================================================================
