--------------------------- MODULE SchedulerProofs ---------------------------
(***************************************************************************)
(* What the scheduler guarantees for every finite set of pods, every set   *)
(* of nodes, whatever they request and can allocate, and under any bounds. *)
(*                                                                         *)
(* ChargedOnce and OneBind follow from SchedulerInv, which is inductive.   *)
(* Its proof begins with the cache alone: what each of its methods does to *)
(* a cache that charges every pod at most once (Charged).                  *)
(*                                                                         *)
(* SteadyFits, SteadyCacheIsCurrent and SteadyUp follow from SteadyInv.    *)
(* It adds to SchedulerInv where the cache may have a pod (PlacesInv, true *)
(* of every behaviour), and, while the loop was not started early and no   *)
(* node has left, that no part of the system lags behind so far that a pod *)
(* it knows to be bound, being bound or assumed is missing from the room   *)
(* that schedulePod counts with (SteadyParts).                             *)
(***************************************************************************)
EXTENDS Scheduler, FiniteSums, TLAPS

Charged(c) ==
  /\ c \in Caches
  /\ \A n \in Nodes, p \in Pods :
       c.count[n][p] <= (IF c.state[p] = n /\ n \in c.infos THEN 1 ELSE 0)

\* r knows p to be on n (as an assumed pod, if so it is said), and all others as c does.
Moved(c, r, p, n, assume) ==
  /\ r.state = [c.state EXCEPT ![p] = n]
  /\ r.assumed \ {p} = c.assumed \ {p}
  /\ assume => p \in r.assumed

\* r knows the same pods as c.
Same(c, r) == r.state = c.state /\ r.assumed = c.assumed

\* The one change of the count of a single entry that keeps a cache well formed.
LEMMA CountOk ==
  ASSUME NEW c \in Caches, NEW n \in Nodes, NEW p \in Pods, NEW k \in Nat
  PROVE  /\ [c EXCEPT !.count[n][p] = k] \in Caches
         /\ [c EXCEPT !.count[n][p] = k].count = [c.count EXCEPT ![n][p] = k]
BY DEF Caches

\* Dropping a NodeInfo un-charges pods.
LEMMA DropInfoOk ==
  ASSUME NEW c, Charged(c), NEW n \in Nodes
  PROVE  Charged(DropInfo(c, n)) /\ Same(c, DropInfo(c, n))
<1> DEFINE r == DropInfo(c, n)
<1>0. c \in Caches
  BY DEF Charged
<1>1. r \in Caches
  BY <1>0 DEF DropInfo, Caches
<1>2. /\ r.state = c.state /\ r.assumed = c.assumed
      /\ r.count = [c.count EXCEPT ![n] = [p \in Pods |-> 0]]
      /\ r.infos = c.infos \ {n}
  BY <1>0 DEF DropInfo, Caches
<1> HIDE DEF r
<1>3. ASSUME NEW m \in Nodes, NEW q \in Pods
      PROVE  r.count[m][q] <= (IF r.state[q] = m /\ m \in r.infos THEN 1 ELSE 0)
  BY <1>0, <1>2 DEF Charged, Caches
<1> QED
  BY <1>1, <1>2, <1>3 DEF Charged, Same, r

\* The node handlers charge nobody.
LEMMA NodeOk ==
  ASSUME NEW c, Charged(c), NEW n \in Nodes
  PROVE  /\ Charged(SetNode(c, n)) /\ Same(c, SetNode(c, n))
         /\ Charged(RemoveNode(c, n)) /\ Same(c, RemoveNode(c, n))
<1> DEFINE r == SetNode(c, n)
<1>0. c \in Caches
  BY DEF Charged
<1>1. r \in Caches
  BY <1>0 DEF SetNode, Caches
<1>2. /\ r.state = c.state /\ r.assumed = c.assumed /\ r.count = c.count
      /\ r.infos = c.infos \cup {n}
  BY <1>0 DEF SetNode, Caches
<1>3. Charged(r) /\ Same(c, r)
  <2> HIDE DEF r
  <2>1. ASSUME NEW m \in Nodes, NEW q \in Pods
        PROVE  r.count[m][q] <= (IF r.state[q] = m /\ m \in r.infos THEN 1 ELSE 0)
    BY <1>0, <1>2 DEF Charged, Caches
  <2> QED
    BY <1>1, <1>2, <2>1 DEF Charged, Same
<1> QED
  BY <1>3, DropInfoOk DEF RemoveNode, Same

\* addPod charges a pod the cache did not know.
LEMMA AddToNodeOk ==
  ASSUME NEW c, Charged(c), NEW p \in Pods, c.state[p] = NoNode, NEW n \in Nodes,
         NEW a \in BOOLEAN
  PROVE  Charged(AddToNode(c, p, n, a)) /\ Moved(c, AddToNode(c, p, n, a), p, n, a)
<1> DEFINE r == AddToNode(c, p, n, a)
           z == [c.count EXCEPT ![n][p] = @ + 1]
           s == [c EXCEPT !.infos = @ \cup {n}, !.count = z, !.state[p] = n,
                          !.assumed = IF a THEN @ \cup {p} ELSE @]
<1>0. c \in Caches
  BY DEF Charged
<1>1. \A m \in Nodes : c.count[m][p] = 0
  BY <1>0, CacheAssumption DEF Charged, Caches
<1>2. /\ r.state = [c.state EXCEPT ![p] = n]
      /\ r.assumed = IF a THEN c.assumed \cup {p} ELSE c.assumed
      /\ r.count = [c.count EXCEPT ![n][p] = @ + 1]
      /\ r.infos = c.infos \cup {n}
  BY <1>0 DEF AddToNode, Caches
<1>3. r \in Caches
  <2>1. z \in [Nodes -> [Pods -> Nat]]
    BY <1>0 DEF Caches
  <2>2. r = s
    BY DEF AddToNode
  <2> HIDE DEF z, r
  <2> QED
    BY <1>0, <2>1, <2>2 DEF Caches
<1> HIDE DEF r
<1>4. ASSUME NEW m \in Nodes, NEW q \in Pods
      PROVE  r.count[m][q] <= (IF r.state[q] = m /\ m \in r.infos THEN 1 ELSE 0)
  BY <1>0, <1>1, <1>2 DEF Charged, Caches
<1>5. Charged(r)
  BY <1>3, <1>4 DEF Charged
<1>6. Moved(c, r, p, n, a)
  <2>1. r.assumed \ {p} = c.assumed \ {p} /\ (a => p \in r.assumed)
    BY <1>2
  <2> QED
    BY <1>2, <2>1 DEF Moved
<1> QED
  BY <1>5, <1>6 DEF r

\* removePod from the node the cache recorded forgets the pod, and leaves nobody
\* charged who was not.
LEMMA TakeOffOk ==
  ASSUME NEW c, Charged(c), NEW p \in Pods, NEW n \in Nodes, c.state[p] = n,
         RemoveResult(c, p, n) = "ok"
  PROVE  /\ Charged(TakeOff(c, p, n))
         /\ Moved(c, TakeOff(c, p, n), p, NoNode, FALSE)
<1> DEFINE d == IF n \in c.infos THEN [c EXCEPT !.count[n][p] = @ - 1] ELSE c
           e == IF n \in c.infos \ c.real /\ \A q \in Pods : d.count[n][q] = 0
                THEN DropInfo(d, n) ELSE d
           r == [e EXCEPT !.state[p] = NoNode, !.assumed = @ \ {p}]
<1>0. c \in Caches /\ r = TakeOff(c, p, n)
  BY DEF Charged, TakeOff
<1>1. /\ c.count[n][p] = (IF n \in c.infos THEN 1 ELSE 0)
      /\ \A m \in Nodes \ {n} : c.count[m][p] = 0
  BY <1>0 DEF Charged, RemoveResult, Caches
<1>2. /\ d \in Caches /\ Same(c, d) /\ d.infos = c.infos
      /\ d.count = IF n \in c.infos THEN [c.count EXCEPT ![n][p] = 0] ELSE c.count
  <2>1. CASE n \notin c.infos
    BY <1>0, <2>1 DEF Same
  <2>2. CASE n \in c.infos
    <3> DEFINE k == c.count[n][p] - 1
    <3>1. k = 0 /\ d = [c EXCEPT !.count[n][p] = k]
      BY <1>0, <1>1, <2>2
    <3> HIDE DEF k, d
    <3>2. d \in Caches /\ d.count = [c.count EXCEPT ![n][p] = 0]
      BY <1>0, <3>1, CountOk
    <3>3. Same(c, d) /\ d.infos = c.infos
      BY <1>0, <3>1 DEF Same, Caches
    <3> QED
      BY <2>2, <3>2, <3>3
  <2> QED
    BY <2>1, <2>2
<1> HIDE DEF d
<1>3. ASSUME NEW m \in Nodes, NEW q \in Pods
      PROVE  d.count[m][q] <= (IF c.state[q] = m /\ m \in d.infos THEN 1 ELSE 0)
  BY <1>0, <1>2 DEF Charged, Caches
<1>4. Charged(d) /\ \A m \in Nodes : d.count[m][p] = 0
  BY <1>0, <1>1, <1>2, <1>3 DEF Charged, Same, Caches
<1>5. Charged(e) /\ Same(c, e) /\ \A m \in Nodes : e.count[m][p] = 0
  <2>1. DropInfo(d, n).count = [d.count EXCEPT ![n] = [q \in Pods |-> 0]]
    BY <1>2 DEF DropInfo, Caches
  <2>2. \A m \in Nodes : DropInfo(d, n).count[m][p] = 0
    BY <1>2, <1>4, <2>1 DEF Caches
  <2> QED
    BY <1>2, <1>4, <2>2, DropInfoOk DEF Same
<1> HIDE DEF e
<1>6. /\ r \in Caches /\ r.state = [e.state EXCEPT ![p] = NoNode]
      /\ r.assumed = e.assumed \ {p} /\ r.count = e.count /\ r.infos = e.infos
  BY <1>5 DEF Charged, Caches
<1> HIDE DEF r
<1>7. ASSUME NEW m \in Nodes, NEW q \in Pods
      PROVE  r.count[m][q] <= (IF r.state[q] = m /\ m \in r.infos THEN 1 ELSE 0)
  BY <1>5, <1>6 DEF Charged, Caches
<1> QED
  BY <1>0, <1>5, <1>6, <1>7 DEF Charged, Moved, Same

\* A panic charges nobody.
LEMMA DownOk ==
  ASSUME NEW c, Charged(c)
  PROVE  Charged([c EXCEPT !.down = TRUE]) /\ Same(c, [c EXCEPT !.down = TRUE])
<1> DEFINE r == [c EXCEPT !.down = TRUE]
<1>1. c \in Caches
  BY DEF Charged
<1>2. /\ r \in Caches /\ r.state = c.state /\ r.assumed = c.assumed
      /\ r.count = c.count /\ r.infos = c.infos
  BY <1>1 DEF Caches
<1> HIDE DEF r
<1> QED
  BY <1>2 DEF Charged, Same, r

\* An error of removePod, the panic in its message included, charges nobody.
LEMMA RemoveFromNodeOk ==
  ASSUME NEW c, Charged(c), NEW p \in Pods, NEW n \in Nodes, c.state[p] = n
  PROVE  LET r == RemoveFromNode(c, p, n)
         IN  Charged(r) /\ IF RemoveResult(c, p, n) = "ok"
                           THEN Moved(c, r, p, NoNode, FALSE) ELSE Same(c, r)
<1>1. Charged([c EXCEPT !.down = TRUE]) /\ Same(c, [c EXCEPT !.down = TRUE])
  BY DownOk
<1>2. Same(c, c)
  BY DEF Same
<1> QED
  BY <1>1, <1>2, TakeOffOk DEF RemoveFromNode

\* updatePod moves a pod that is taken off the node the cache recorded.
LEMMA MovePodOk ==
  ASSUME NEW c, Charged(c), NEW p \in Pods, NEW old \in Nodes, NEW new \in Nodes,
         c.state[p] = old
  PROVE  LET r == MovePod(c, p, old, new)
         IN  Charged(r) /\ (Same(c, r) \/ Moved(c, r, p, new, FALSE))
<1>1. CASE RemoveResult(c, p, old) = "ok"
  <2> DEFINE t == TakeOff(c, p, old)
             r == AddToNode(t, p, new, FALSE)
  <2>1. Charged(t) /\ Moved(c, t, p, NoNode, FALSE)
    BY <1>1, TakeOffOk
  <2> HIDE DEF t
  <2>2. t.state[p] = NoNode
    BY <2>1 DEF Moved, Charged, Caches
  <2>3. Charged(r) /\ Moved(t, r, p, new, FALSE)
    BY <2>1, <2>2, AddToNodeOk
  <2> HIDE DEF r
  <2>4. Moved(c, r, p, new, FALSE)
    BY SMTT(30), <2>1, <2>3 DEF Moved, Charged, Caches
  <2> QED
    BY <1>1, <2>3, <2>4 DEF MovePod, r, t
<1>2. CASE RemoveResult(c, p, old) # "ok"
  BY <1>2, RemoveFromNodeOk DEF MovePod
<1> QED
  BY <1>1, <1>2

\* What the pod handlers do to the cache.
LEMMA AddPodOk ==
  ASSUME NEW c, Charged(c), NEW p \in Pods, NEW n \in Nodes
  PROVE  LET r == AddPod(c, p, n)
         IN  /\ Charged(r) /\ (Same(c, r) \/ Moved(c, r, p, n, FALSE))
             /\ r.state[p] # NoNode
<1>1. Same(c, c) /\ c.state[p] \in Nodes \cup {NoNode}
  BY DEF Same, Charged, Caches
<1>2. c.state[p] # NoNode /\ p \in c.assumed => AddPod(c, p, n) = MovePod(c, p, c.state[p], n)
  BY DEF AddPod
<1>3. c.state[p] = NoNode => AddPod(c, p, n) = AddToNode(c, p, n, FALSE)
  BY DEF AddPod
<1>4. c.state[p] # NoNode /\ p \notin c.assumed => AddPod(c, p, n) = c
  BY DEF AddPod
<1>5. /\ Charged(AddPod(c, p, n))
      /\ \/ Same(c, AddPod(c, p, n)) /\ c.state[p] # NoNode
         \/ Moved(c, AddPod(c, p, n), p, n, FALSE)
  <2>1. CASE c.state[p] = NoNode
    BY <1>3, <2>1, AddToNodeOk
  <2>2. CASE c.state[p] # NoNode /\ p \notin c.assumed
    BY <1>1, <1>4, <2>2
  <2>3. CASE c.state[p] # NoNode /\ p \in c.assumed
    BY <1>1, <1>2, <2>3, MovePodOk
  <2> QED
    BY <2>1, <2>2, <2>3
<1>6. c.state \in [Pods -> Nodes \cup {NoNode}]
  BY DEF Charged, Caches
<1> QED
  BY <1>5, <1>6, CacheAssumption DEF Same, Moved

\* A later update of a bound pod keeps it where it is, or brings it where the call says.
LEMMA UpdatePodOk ==
  ASSUME NEW c, Charged(c), NEW p \in Pods, NEW n \in Nodes,
         c.state[p] # NoNode /\ p \notin c.assumed => c.state[p] = n
  PROVE  LET r == UpdatePod(c, p, n, n)
         IN  Charged(r) /\ (Same(c, r) \/ Moved(c, r, p, n, FALSE))
<1>1. Same(c, c)
  BY DEF Same
<1> QED
  BY <1>1, MovePodOk DEF UpdatePod

\* A removal forgets its pod, or leaves the cache as it was.
LEMMA RemovePodOk ==
  ASSUME NEW c, Charged(c), NEW p \in Pods, NEW n
  PROVE  LET r == RemovePod(c, p, n)
         IN  Charged(r) /\ (Same(c, r) \/ Moved(c, r, p, NoNode, FALSE))
<1>1. Same(c, c) /\ c.state[p] \in Nodes \cup {NoNode}
  BY DEF Same, Charged, Caches
<1>2. Charged([c EXCEPT !.down = TRUE]) /\ Same(c, [c EXCEPT !.down = TRUE])
  BY DownOk
<1> QED
  BY <1>1, <1>2, RemoveFromNodeOk DEF RemovePod

\* A pod is assumed on the node chosen for it, unless the cache has it already.
LEMMA AssumePodOk ==
  ASSUME NEW c, Charged(c), NEW p \in Pods, NEW n \in Nodes
  PROVE  LET r == AssumePod(c, p, n)
         IN  Charged(r) /\ IF MayAssume(c, p) THEN Moved(c, r, p, n, TRUE) ELSE r = c
BY AddToNodeOk DEF AssumePod, MayAssume

-----------------------------------------------------------------------------
(* Queues of calls.                                                        *)

\* What is in a queue after one appends to it, or takes its head.
LEMMA AppendRange ==
  ASSUME NEW S, NEW s \in Seq(S), NEW t \in Seq(S)
  PROVE  s \o t \in Seq(S) /\ Range(s \o t) \subseteq Range(s) \cup Range(t)
<1>1. s \o t \in Seq(S)
  OBVIOUS
<1>2. ASSUME NEW i \in DOMAIN (s \o t)
      PROVE  (s \o t)[i] \in Range(s) \cup Range(t)
  <2>1. i \in 1 .. Len(s) + Len(t) /\ Len(s) \in Nat /\ Len(t) \in Nat
    BY <1>2
  <2>2. CASE i <= Len(s)
    <3>1. (s \o t)[i] = s[i] /\ i \in DOMAIN s
      BY <2>1, <2>2
    <3> QED
      BY <3>1 DEF Range
  <2>3. CASE i > Len(s)
    <3>1. (s \o t)[i] = t[i - Len(s)] /\ i - Len(s) \in DOMAIN t
      BY <2>1, <2>3
    <3> QED
      BY <3>1 DEF Range
  <2> QED
    BY <2>1, <2>2, <2>3
<1> QED
  BY <1>1, <1>2 DEF Range

\* The rest of a queue holds nothing new.
LEMMA TailRange ==
  ASSUME NEW S, NEW s \in Seq(S), s # <<>>
  PROVE  /\ Head(s) \in S /\ Head(s) \in Range(s)
         /\ Tail(s) \in Seq(S) /\ Range(Tail(s)) \subseteq Range(s)
<1>1. Head(s) \in S /\ Tail(s) \in Seq(S) /\ Len(s) \in Nat \ {0} /\ Head(s) = s[1]
  OBVIOUS
<1>2. ASSUME NEW i \in DOMAIN Tail(s)
      PROVE  Tail(s)[i] = s[i + 1] /\ i + 1 \in DOMAIN s
  BY <1>1
<1> QED
  BY <1>1, <1>2 DEF Range

\* Everything the two pod listeners are called with.
LEMMA CacheCallOk ==
  ASSUME NEW p \in Pods, NEW a \in ApiStates, NEW b \in ApiStates, NEW t \in BOOLEAN
  PROVE  /\ CacheCall(p, a, b, t) \in Seq(PodCalls)
         /\ \A e \in Range(CacheCall(p, a, b, t)) :
              /\ e.pod = p
              /\ e.op = "remove" => b = "gone" /\ e.node = NodeOf(a)
              /\ e.op # "remove" => b \in Nodes /\ e.node = b
<1>1. Range(<<>>) = {}
  BY DEF Range
<1>2. ASSUME NEW o \in {"add", "update", "remove"}, NEW n \in Nodes \cup {NoNode}
      PROVE  /\ Call(o, p, n) \in Seq(PodCalls)
             /\ Range(Call(o, p, n)) = {[op |-> o, pod |-> p, node |-> n]}
  BY DEF Call, PodCalls, Range
<1>3. NodeOf(a) \in Nodes \cup {NoNode}
  BY DEF NodeOf
<1> QED
  BY SMTT(30), <1>1, <1>2, <1>3, SchedulerAssumption DEF CacheCall

\* What a listener of pods is told is a call for the pod it is told of.
LEMMA QueueCallOk ==
  ASSUME NEW p \in Pods, NEW a \in ApiStates, NEW b \in ApiStates, NEW t \in BOOLEAN
  PROVE  /\ QueueCall(p, a, b, t) \in Seq(PodCalls)
         /\ \A e \in Range(QueueCall(p, a, b, t)) :
              e.pod = p /\ (e.op # "remove" => b = "pending")
<1>1. Range(<<>>) = {}
  BY DEF Range
<1>2. ASSUME NEW o \in {"add", "update", "remove"}
      PROVE  /\ Call(o, p, NoNode) \in Seq(PodCalls)
             /\ Range(Call(o, p, NoNode)) = {[op |-> o, pod |-> p, node |-> NoNode]}
  BY DEF Call, PodCalls, Range
<1> QED
  BY <1>1, <1>2 DEF QueueCall

-----------------------------------------------------------------------------
(* The steps that tell the listeners of a pod.                             *)

\* The life of a pod: where its state may go from a, in a step that leaves it at b.
Lives(p, a, b) ==
  \/ b = a \/ b = "gone" \/ (a = "absent" /\ b = "pending")
  \/ a = "pending" /\ b \in Nodes /\ cache.state[p] = b

\* The listeners hear that p went from a to b, or nothing yet.
Told(p, a, b, t) ==
  \/ gap /\ UNCHANGED <<seen, toCache, toQueue>>
  \/ /\ a = seen.pods[p] \/ ~gap
     /\ seen' = [seen EXCEPT !.pods[p] = b]
     /\ toCache' = toCache \o CacheCall(p, a, b, t)
     /\ toQueue' = toQueue \o QueueCall(p, a, b, t)

\* What the pod steps have in common: p goes to b, and its listeners hear of it, as of
\* a change from its present state or from the one they last saw.
PodStep(p, a, b, t) ==
  /\ b # "absent" /\ Lives(p, api[p], b)
  /\ a \in {api[p], seen.pods[p]} /\ (b = "gone" => a # "gone")
  /\ api' = [api EXCEPT ![p] = b]
  /\ Told(p, a, b, t)
  /\ binds' \subseteq binds
  /\ b \in Nodes /\ b # api[p] => \A d \in binds' : d.pod # p
  /\ UNCHANGED <<nodes, gap, toNodes, checked, cache, queued, loop>>

\* What such a step adds to the listeners' calls, and to the nodes that are named.
StepTells(p, a, b) ==
  /\ api' \in [Pods -> ApiStates]
  /\ seen' \in [pods : [Pods -> ApiStates], nodes : SUBSET Nodes]
  /\ \A q \in Pods : /\ api'[q] = IF q = p THEN b ELSE api[q]
                     /\ seen'.pods[q] = seen.pods[q] \/ (q = p /\ seen'.pods[q] = b)
  /\ toCache' \in Seq(PodCalls)
  /\ \A e \in Range(toCache') : \/ e \in Range(toCache)
                                \/ /\ e.pod = p
                                   /\ e.op = "remove" => b = "gone" /\ e.node = NodeOf(a)
                                   /\ e.op # "remove" => b \in Nodes /\ e.node = b
  /\ toQueue' \in Seq(PodCalls)
  /\ \A e \in Range(toQueue') : \/ e \in Range(toQueue)
                                \/ e.pod = p /\ (e.op # "remove" => b = "pending")
  /\ \A q \in Pods : InQueueSide(q)' => InQueueSide(q) \/ (q = p /\ b = "pending")
  /\ \A q \in Pods, n \in Nodes :
       Named(q, n)' => \/ Named(q, n)
                       \/ /\ q = p /\ n = b
                          /\ api[p] = "pending" /\ cache.state[p] = b

\* A pod step lets nobody name a second node for its pod.
LEMMA PodStepNames ==
  ASSUME SchedulerInv, NEW p \in Pods, NEW a, NEW b \in ApiStates, NEW t \in BOOLEAN,
         PodStep(p, a, b, t)
  PROVE  StepTells(p, a, b)
<1> USE DEF PodStep
<1>1. /\ api \in [Pods -> ApiStates]
      /\ seen \in [pods : [Pods -> ApiStates], nodes : SUBSET Nodes]
      /\ toCache \in Seq(PodCalls) /\ toQueue \in Seq(PodCalls)
      /\ binds \subseteq [pod : Pods, node : Nodes]
  BY DEF SchedulerInv, TypeOK
<1>2. a \in ApiStates /\ (a \in Nodes => Named(p, a))
  BY <1>1 DEF Named
<1>3. \A q \in Pods : api'[q] = IF q = p THEN b ELSE api[q]
  BY <1>1
<1>4. /\ toCache' \in Seq(PodCalls)
      /\ \A e \in Range(toCache') : \/ e \in Range(toCache)
                                    \/ /\ e.pod = p
                                       /\ e.op = "remove" => b = "gone" /\ e.node = NodeOf(a)
                                       /\ e.op # "remove" => b \in Nodes /\ e.node = b
  <2> DEFINE s == CacheCall(p, a, b, t)
  <2>1. s \in Seq(PodCalls)
    BY <1>2, CacheCallOk
  <2>2. \A e \in Range(s) : /\ e.pod = p
                            /\ e.op = "remove" => b = "gone" /\ e.node = NodeOf(a)
                            /\ e.op # "remove" => b \in Nodes /\ e.node = b
    BY <1>2, CacheCallOk
  <2>3. toCache' = toCache \/ toCache' = toCache \o s
    BY DEF Told
  <2> HIDE DEF s
  <2>4. toCache \in Seq(PodCalls)
    BY <1>1
  <2>5. toCache' \in Seq(PodCalls) /\ Range(toCache') \subseteq Range(toCache) \cup Range(s)
    BY ZenonT(60), <2>1, <2>3, <2>4, AppendRange
  <2> QED
    BY <2>2, <2>5
<1>5. /\ toQueue' \in Seq(PodCalls)
      /\ \A e \in Range(toQueue') : \/ e \in Range(toQueue)
                                    \/ e.pod = p /\ (e.op # "remove" => b = "pending")
  <2> DEFINE s == QueueCall(p, a, b, t)
  <2>1. s \in Seq(PodCalls)
    BY <1>2, QueueCallOk
  <2>2. \A e \in Range(s) : e.pod = p /\ (e.op # "remove" => b = "pending")
    BY <1>2, QueueCallOk
  <2>3. toQueue' = toQueue \/ toQueue' = toQueue \o s
    BY DEF Told
  <2> HIDE DEF s
  <2>4. toQueue \in Seq(PodCalls)
    BY <1>1
  <2>5. toQueue' \in Seq(PodCalls) /\ Range(toQueue') \subseteq Range(toQueue) \cup Range(s)
    BY ZenonT(60), <2>1, <2>3, <2>4, AppendRange
  <2> QED
    BY <2>2, <2>5
<1>6. /\ seen' \in [pods : [Pods -> ApiStates], nodes : SUBSET Nodes]
      /\ api' \in [Pods -> ApiStates]
  BY <1>1 DEF Told
<1>7. \A q \in Pods : seen'.pods[q] = seen.pods[q] \/ (q = p /\ seen'.pods[q] = b)
  BY <1>1 DEF Told
<1>8. ASSUME NEW q \in Pods, NEW n \in Nodes, Named(q, n)'
      PROVE  Named(q, n) \/ (q = p /\ n = b)
  <2>1. NodeOf(a) = n => Named(p, n)
    BY <1>2, CacheAssumption DEF NodeOf
  <2> QED
    BY <1>3, <1>4, <1>7, <1>8, <2>1 DEF Named
<1>9. ASSUME NEW q \in Pods, NEW n \in Nodes, Named(q, n)'
      PROVE  Named(q, n) \/ (q = p /\ n = b /\ api[p] = "pending" /\ cache.state[p] = b)
  <2>1. n \notin {"absent", "pending", "gone"}
    BY SchedulerAssumption
  <2>2. b \in Nodes => (api[p] = "pending" /\ cache.state[p] = b) \/ api[p] = b
    BY <2>1, SchedulerAssumption DEF Lives
  <2> QED
    BY <1>8, <1>9, <2>2 DEF Named
<1>10. \A q \in Pods : InQueueSide(q)' => InQueueSide(q) \/ (q = p /\ b = "pending")
  BY <1>5 DEF InQueueSide
<1> QED
  BY <1>3, <1>4, <1>5, <1>6, <1>7, <1>9, <1>10 DEF StepTells

\* Such a step keeps what the invariant says of pods, calls and bindings.
LEMMA PodStepOk ==
  ASSUME SchedulerInv, NEW p \in Pods, NEW a, NEW b \in ApiStates, NEW t \in BOOLEAN,
         PodStep(p, a, b, t)
  PROVE  /\ api' \in [Pods -> ApiStates]
         /\ seen' \in [pods : [Pods -> ApiStates], nodes : SUBSET Nodes]
         /\ toCache' \in Seq(PodCalls) /\ toQueue' \in Seq(PodCalls)
         /\ ChargedOnce' /\ OneBind' /\ OneHome' /\ CallsFit'
         /\ QueueSideKnown' /\ BindsOpen'
<1>0. StepTells(p, a, b)
  BY PodStepNames
<1>1. /\ api \in [Pods -> ApiStates] /\ binds \subseteq [pod : Pods, node : Nodes]
      /\ toCache \in Seq(PodCalls)
  BY DEF SchedulerInv, TypeOK
<1>2. /\ api' \in [Pods -> ApiStates]
      /\ seen' \in [pods : [Pods -> ApiStates], nodes : SUBSET Nodes]
      /\ toCache' \in Seq(PodCalls) /\ toQueue' \in Seq(PodCalls)
  BY <1>0 DEF StepTells
<1>3. \A q \in Pods : api'[q] = IF q = p THEN b ELSE api[q]
  BY <1>0 DEF StepTells
<1>4. \A e \in Range(toCache') : \/ e \in Range(toCache)
                                 \/ /\ e.pod = p
                                    /\ e.op = "remove" => b = "gone" /\ e.node = NodeOf(a)
                                    /\ e.op # "remove" => b \in Nodes /\ e.node = b
  BY <1>0 DEF StepTells
<1>5. \A q \in Pods : InQueueSide(q)' => InQueueSide(q) \/ (q = p /\ b = "pending")
  BY <1>0 DEF StepTells
<1>7. \A q \in Pods : seen'.pods[q] = seen.pods[q] \/ (q = p /\ seen'.pods[q] = b)
  BY <1>0 DEF StepTells
<1>8. ASSUME NEW q \in Pods, NEW k \in Nodes, Named(q, k)'
      PROVE  Named(q, k) \/ (q = p /\ k = b /\ api[q] = "pending")
  BY <1>8, <1>0 DEF StepTells
<1> USE DEF PodStep
<1>9. OneHome'
  <2> SUFFICES ASSUME NEW q \in Pods, NEW m \in Nodes, NEW n \in Nodes, Named(q, m)'
               PROVE  (Named(q, n)' => m = n) /\ api'[q] \notin {"absent", "pending"}
    BY DEF OneHome
  <2>1. \A k \in Nodes : k \notin {"absent", "pending", "gone"}
    BY SchedulerAssumption
  <2>4. \A j, k \in Nodes : Named(q, j) => /\ Named(q, k) => j = k
                                           /\ api[q] \notin {"absent", "pending"}
    BY DEF SchedulerInv, OneHome
  <2>5. (Named(q, n)' => m = n)
    <3>1. Named(q, m) => api[q] # "pending"
      BY <2>4
    <3>2. Named(q, n) => api[q] # "pending"
      BY <2>4
    <3>3. Named(q, m) /\ Named(q, n) => m = n
      BY <2>4
    <3> QED
      BY <1>8, <3>1, <3>2, <3>3
  <2>6. CASE Named(q, m)
    <3>1. api[q] \notin {"absent", "pending"}
      BY <2>4, <2>6
    <3>2. q = p => b \notin {"absent", "pending"}
      BY <2>1, <3>1 DEF Lives
    <3> QED
      BY <1>3, <2>5, <3>1, <3>2
  <2>7. CASE q = p /\ m = b
    BY <1>3, <2>1, <2>5, <2>7
  <2> QED
    BY <1>8, <2>6, <2>7
<1>10. CallsFit'
  <2> SUFFICES ASSUME NEW e \in Range(toCache')
               PROVE  IF e.op = "remove" THEN api'[e.pod] = "gone" ELSE e.node \in Nodes
    BY DEF CallsFit
  <2>1. e \in Range(toCache) => e.pod \in Pods
    <3>1. \A i \in DOMAIN toCache : toCache[i] \in PodCalls
      BY <1>1
    <3> QED
      BY <3>1 DEF Range, PodCalls
  <2>2. api[p] = "gone" => b = "gone"
    BY SchedulerAssumption DEF Lives
  <2> QED
    BY <1>3, <1>4, <2>1, <2>2 DEF SchedulerInv, CallsFit
<1>11. QueueSideKnown'
  <2> SUFFICES ASSUME NEW q \in Pods
               PROVE  /\ InQueueSide(q)' => /\ api'[q] # "absent"
                                            /\ api'[q] \in Nodes => cache'.state[q] # NoNode
                      /\ api'[q] = "absent" => seen'.pods[q] = "absent"
    BY DEF QueueSideKnown
  <2>1. InQueueSide(q)' => InQueueSide(q) \/ (q = p /\ b = "pending")
    BY <1>5
  <2>2. /\ InQueueSide(q) => /\ api[q] # "absent"
                             /\ api[q] \in Nodes => cache.state[q] # NoNode
        /\ api[q] = "absent" => seen.pods[q] = "absent"
    BY DEF SchedulerInv, QueueSideKnown
  <2>3. CASE q # p
    BY <1>3, <1>7, <2>1, <2>2, <2>3
  <2>4. CASE q = p
    BY <1>3, <2>1, <2>2, <2>4, CacheAssumption, SchedulerAssumption DEF Lives
  <2> QED
    BY <2>3, <2>4
<1>12. BindsOpen'
  <2> SUFFICES ASSUME NEW d \in binds'
               PROVE  api'[d.pod] \in {"pending", "gone"}
    BY DEF BindsOpen
  <2>1. d.pod \in Pods /\ api[d.pod] \in {"pending", "gone"}
    BY <1>1 DEF SchedulerInv, BindsOpen
  <2>2. d.pod = p => b \in {"pending", "gone"}
    BY <2>1, SchedulerAssumption DEF Lives
  <2> QED
    BY <1>3, <2>1, <2>2
<1>13. ChargedOnce'
  BY DEF SchedulerInv, ChargedOnce
<1>14. OneBind'
  <2> SUFFICES ASSUME NEW d \in binds', api'[d.pod] # "gone"
               PROVE  /\ \A k \in binds' : k.pod = d.pod => k = d
                      /\ cache'.state[d.pod] = d.node
    BY DEF OneBind
  <2>1. d \in binds /\ d.pod \in Pods
    BY <1>1
  <2>2. api[d.pod] # "gone"
    BY <1>3, <2>1, SchedulerAssumption DEF Lives
  <2> QED
    BY <2>1, <2>2 DEF SchedulerInv, OneBind
<1> QED
  BY <1>2, <1>9, <1>10, <1>11, <1>12, <1>13, <1>14

\* A pod step keeps the whole invariant.
LEMMA PodStepInv ==
  ASSUME SchedulerInv, NEW p \in Pods, NEW a, NEW b \in ApiStates, NEW t \in BOOLEAN,
         PodStep(p, a, b, t), budget' \in [Kinds -> Nat]
  PROVE  SchedulerInv'
<1>1. TypeOK'
  <2>1. /\ api' \in [Pods -> ApiStates] /\ toCache' \in Seq(PodCalls)
        /\ toQueue' \in Seq(PodCalls)
        /\ seen' \in [pods : [Pods -> ApiStates], nodes : SUBSET Nodes]
    BY ZenonT(60), PodStepOk
  <2> QED
    BY <2>1 DEF SchedulerInv, TypeOK, PodStep
<1> QED
  BY <1>1, PodStepOk DEF SchedulerInv

\* A bounded event leaves the budget a budget.
LEMMA SpendOk ==
  ASSUME TypeOK, NEW k \in Kinds, NEW m, Spend(k, m)
  PROVE  budget' \in [Kinds -> Nat]
BY DEF TypeOK, Spend

\* A watched change of p is such a step.
LEMMA NotifyPodTells ==
  ASSUME NEW p, NEW b, NotifyPod(p, b)
  PROVE  Told(p, api[p], b, FALSE)
BY DEF NotifyPod, Told

\* The actions that are such steps.
PodAction ==
  \/ \E p \in Pods : CreatePod(p) \/ TouchPod(p) \/ DeletePod(p) \/ CatchUpPod(p)
  \/ \E d \in binds : BindLands(d)

\* Every action that changes a pod, or what is known of it, is a pod step.
LEMMA PodActionSteps ==
  ASSUME SchedulerInv, PodAction
  PROVE  /\ \E p \in Pods, a \in ApiStates, b \in ApiStates, t \in BOOLEAN :
              PodStep(p, a, b, t)
         /\ budget' \in [Kinds -> Nat]
<1>1. /\ TypeOK /\ "update" \in Kinds /\ budget \in [Kinds -> Nat]
      /\ \A p \in Pods : api[p] \in ApiStates /\ seen.pods[p] \in ApiStates
  BY DEF SchedulerInv, TypeOK, Kinds
<1>2. /\ {"pending", "gone"} \subseteq ApiStates
      /\ \A n \in Nodes : n \notin {"absent", "pending", "gone"} /\ n \in ApiStates
  BY SchedulerAssumption DEF ApiStates
<1>3. ASSUME NEW p \in Pods, CreatePod(p)
      PROVE  PodStep(p, api[p], "pending", FALSE) /\ budget' = budget
  BY <1>1, <1>2, <1>3, NotifyPodTells DEF CreatePod, SetPod, PodStep, Lives, inside
<1>4. ASSUME NEW p \in Pods, TouchPod(p)
      PROVE  PodStep(p, api[p], api[p], FALSE) /\ budget' \in [Kinds -> Nat]
  <2>1. PodStep(p, api[p], api[p], FALSE)
    BY <1>1, <1>2, <1>4, NotifyPodTells DEF TouchPod, SetPod, PodStep, Lives, inside, Exists
  <2> QED
    BY <1>1, <1>4, <2>1, SpendOk DEF TouchPod
<1>5. ASSUME NEW p \in Pods, DeletePod(p)
      PROVE  PodStep(p, api[p], "gone", FALSE) /\ budget' = budget
  BY <1>1, <1>2, <1>5, NotifyPodTells DEF DeletePod, SetPod, PodStep, Lives, inside, Exists
<1>6. ASSUME NEW p \in Pods, CatchUpPod(p)
      PROVE  PodStep(p, seen.pods[p], api[p], api[p] = "gone") /\ budget' = budget
  <2>1. api[p] # "absent" /\ api[p] # seen.pods[p]
    BY <1>6 DEF SchedulerInv, QueueSideKnown, CatchUpPod, Missed, Exists
  <2>2. Told(p, seen.pods[p], api[p], api[p] = "gone")
    BY <1>6 DEF CatchUpPod, Told
  <2>3. api' = [api EXCEPT ![p] = api[p]]
    BY <1>6 DEF CatchUpPod, TypeOK, SchedulerInv
  <2> QED
    BY <1>6, <2>1, <2>2, <2>3 DEF CatchUpPod, PodStep, Lives, inside
<1>7. ASSUME NEW d \in binds, BindLands(d)
      PROVE  /\ d.pod \in Pods /\ d.node \in ApiStates /\ budget' = budget
             /\ PodStep(d.pod, api[d.pod], d.node, FALSE)
  <2>1. d.pod \in Pods /\ d.node \in Nodes /\ d.node \in ApiStates /\ api[d.pod] = "pending"
    BY <1>1, <1>2, <1>7 DEF TypeOK, BindLands
  <2>2. cache.state[d.pod] = d.node /\ \A k \in binds' : k.pod # d.pod
    BY <1>7, <2>1 DEF SchedulerInv, OneBind, BindLands
  <2>3. Told(d.pod, api[d.pod], d.node, FALSE)
    BY <1>7, NotifyPodTells DEF BindLands, SetPod
  <2> QED
    BY <1>2, <1>7, <2>1, <2>2, <2>3 DEF BindLands, SetPod, PodStep, Lives
<1>8. CASE \E p \in Pods : CreatePod(p) \/ TouchPod(p) \/ DeletePod(p) \/ CatchUpPod(p)
  <2> PICK p \in Pods : CreatePod(p) \/ TouchPod(p) \/ DeletePod(p) \/ CatchUpPod(p)
    BY <1>8
  <2> QED
    BY <1>1, <1>2, <1>3, <1>4, <1>5, <1>6
<1>9. CASE \E d \in binds : BindLands(d)
  BY <1>1, <1>7, <1>9
<1> QED
  BY <1>8, <1>9 DEF PodAction

\* So all of them keep the invariant.
LEMMA PodActionOk ==
  ASSUME SchedulerInv, PodAction
  PROVE  SchedulerInv'
<1>1. PICK p \in Pods, a \in ApiStates, b \in ApiStates, t \in BOOLEAN : PodStep(p, a, b, t)
  BY PodActionSteps
<1>2. budget' \in [Kinds -> Nat]
  BY PodActionSteps
<1> QED
  BY <1>1, <1>2, PodStepInv

-----------------------------------------------------------------------------
(* The steps that tell the pod listeners nothing.                          *)

\* What they have in common: no part of the system learns a node for a pod, none
\* enters the queue, and the cache keeps what it knows of pending and bound pods.
InsideStep ==
  /\ UNCHANGED api /\ seen'.pods = seen.pods
  /\ Range(toCache') \subseteq Range(toCache)
  /\ binds' \subseteq binds
  /\ \A p \in Pods : InQueueSide(p)' => InQueueSide(p)
  /\ Charged(cache)'
  /\ \A p \in Pods :
       /\ \A n \in Nodes : cache'.state[p] = n /\ p \notin cache'.assumed => Named(p, n)
       /\ api[p] = "pending" => cache'.state[p] = cache.state[p]
       /\ api[p] \in Nodes /\ cache.state[p] # NoNode => cache'.state[p] # NoNode

\* A step inside the scheduler keeps it too.
LEMMA InsideStepOk ==
  ASSUME SchedulerInv, TypeOK', InsideStep
  PROVE  SchedulerInv'
<1> USE DEF InsideStep
<1>1. binds \subseteq [pod : Pods, node : Nodes]
  BY DEF SchedulerInv, TypeOK
<1>2. ASSUME NEW p \in Pods, NEW n \in Nodes, Named(p, n)'
      PROVE  Named(p, n)
  BY <1>2 DEF Named
<1>3. OneHome'
  <2> SUFFICES ASSUME NEW p \in Pods, NEW m \in Nodes, NEW n \in Nodes, Named(p, m)'
               PROVE  (Named(p, n)' => m = n) /\ api'[p] \notin {"absent", "pending"}
    BY DEF OneHome
  <2>1. Named(p, m) /\ (Named(p, n)' => Named(p, n))
    BY <1>2
  <2> QED
    BY <2>1 DEF SchedulerInv, OneHome
<1>4. CallsFit'
  BY DEF SchedulerInv, CallsFit
<1>5. QueueSideKnown'
  <2> SUFFICES ASSUME NEW q \in Pods
               PROVE  /\ InQueueSide(q)' => /\ api'[q] # "absent"
                                            /\ api'[q] \in Nodes => cache'.state[q] # NoNode
                      /\ api'[q] = "absent" => seen'.pods[q] = "absent"
    BY DEF QueueSideKnown
  <2>1. /\ InQueueSide(q) => /\ api[q] # "absent"
                             /\ api[q] \in Nodes => cache.state[q] # NoNode
        /\ api[q] = "absent" => seen.pods[q] = "absent"
    BY DEF SchedulerInv, QueueSideKnown
  <2> QED
    BY <2>1
<1>6. BindsOpen'
  BY DEF SchedulerInv, BindsOpen
<1>7. OneBind'
  <2> SUFFICES ASSUME NEW d \in binds', api'[d.pod] # "gone"
               PROVE  /\ \A k \in binds' : k.pod = d.pod => k = d
                      /\ cache'.state[d.pod] = d.node
    BY DEF OneBind
  <2>1. d \in binds /\ d.pod \in Pods /\ api[d.pod] = "pending"
    BY <1>1 DEF SchedulerInv, BindsOpen
  <2>2. \A k \in binds : k.pod = d.pod => k = d
    BY <2>1 DEF SchedulerInv, OneBind
  <2>3. cache.state[d.pod] = d.node
    BY <2>1 DEF SchedulerInv, OneBind
  <2> QED
    BY <2>1, <2>2, <2>3
<1>8. ChargedOnce'
  BY DEF Charged, ChargedOnce
<1> QED
  BY <1>3, <1>4, <1>5, <1>6, <1>7, <1>8 DEF SchedulerInv

\* Those that leave the cache's pods alone as well.
SameStep ==
  /\ TypeOK'
  /\ UNCHANGED <<api, toCache>> /\ seen'.pods = seen.pods
  /\ binds' \subseteq binds /\ Charged(cache') /\ Same(cache, cache')
  /\ \A p \in Pods : InQueueSide(p)' => InQueueSide(p)

\* A step that changes nothing the cache knows is one.
LEMMA SameStepOk ==
  ASSUME SchedulerInv, SameStep
  PROVE  SchedulerInv'
<1> USE DEF SameStep
<1>1. \A p \in Pods, n \in Nodes :
        cache'.state[p] = n /\ p \notin cache'.assumed => Named(p, n)
  BY DEF Same, Named
<1>2. InsideStep
  BY <1>1 DEF InsideStep, Same
<1> QED
  BY <1>2, InsideStepOk

\* The cache charges every pod once, in the words of the lemmas on the cache.
LEMMA ChargedNow ==
  ASSUME SchedulerInv
  PROVE  Charged(cache) /\ Same(cache, cache)
BY DEF SchedulerInv, TypeOK, ChargedOnce, Charged, Same

\* The nodes' steps, and those of the watch itself.
NodeAction ==
  \/ \E n \in Nodes : AddNode(n) \/ TouchNode(n) \/ TakeNodeAway(n) \/ CatchUpNode(n)
  \/ LoseWatch \/ Watch

\* What happens to nodes and to the watch is no news of a pod.
LEMMA NodeActionsSame ==
  ASSUME SchedulerInv, NodeAction
  PROVE  SameStep
<1> USE DEF NodeAction
<1>1. /\ TypeOK /\ {"update", "nodeAdd", "flap", "gap"} \subseteq Kinds
      /\ seen \in [pods : [Pods -> ApiStates], nodes : SUBSET Nodes]
  BY DEF SchedulerInv, TypeOK, Kinds
<1>2. UNCHANGED <<api, toCache, toQueue, checked, cache, queued, loop, binds>>
  BY DEF AddNode, TouchNode, TakeNodeAway, CatchUpNode, LoseWatch, Watch, inside, listeners
<1>3. ASSUME NEW o \in {"set", "remove"}, NEW n \in Nodes
      PROVE  toNodes \o NodeCall(o, n) \in Seq(NodeCalls)
  <2>1. NodeCall(o, n) \in Seq(NodeCalls) /\ toNodes \in Seq(NodeCalls)
    BY <1>1 DEF NodeCall, NodeCalls, TypeOK
  <2> QED
    BY <2>1
<1>4. ASSUME NEW o \in {"set", "remove"}, NEW n \in Nodes, NEW after \in SUBSET Nodes,
             NotifyNode(o, n, after)
      PROVE  /\ seen'.pods = seen.pods
             /\ seen' \in [pods : [Pods -> ApiStates], nodes : SUBSET Nodes]
             /\ toNodes' \in Seq(NodeCalls)
  BY ZenonT(60), <1>1, <1>3, <1>4 DEF NotifyNode, TypeOK
<1>5. /\ seen'.pods = seen.pods /\ nodes' \subseteq Nodes /\ gap' \in BOOLEAN
      /\ seen' \in [pods : [Pods -> ApiStates], nodes : SUBSET Nodes]
      /\ toNodes' \in Seq(NodeCalls) /\ budget' \in [Kinds -> Nat]
  <2>1. /\ nodes \subseteq Nodes /\ gap \in BOOLEAN /\ toNodes \in Seq(NodeCalls)
        /\ budget \in [Kinds -> Nat]
    BY <1>1 DEF TypeOK
  <2>2. CASE \E n \in Nodes : AddNode(n)
    <3> PICK n \in Nodes : AddNode(n)
      BY <2>2
    <3> QED
      BY <1>1, <1>4, <2>1, SpendOk DEF AddNode
  <2>3. CASE \E n \in Nodes : TouchNode(n)
    <3> PICK n \in Nodes : TouchNode(n)
      BY <2>3
    <3> QED
      BY <1>1, <1>4, <2>1, SpendOk DEF TouchNode
  <2>4. CASE \E n \in Nodes : TakeNodeAway(n)
    <3> PICK n \in Nodes : TakeNodeAway(n)
      BY <2>4
    <3> QED
      BY <1>1, <1>4, <2>1, SpendOk DEF TakeNodeAway
  <2>5. CASE \E n \in Nodes : CatchUpNode(n)
    <3> PICK n \in Nodes : CatchUpNode(n)
      BY <2>5
    <3> QED
      BY <1>1, <1>3, <2>1 DEF CatchUpNode
  <2>6. CASE LoseWatch
    BY <1>1, <2>1, <2>6, SpendOk DEF LoseWatch, listeners
  <2>7. CASE Watch
    BY <1>1, <2>1, <2>7 DEF Watch, listeners
  <2> QED
    BY <2>2, <2>3, <2>4, <2>5, <2>6, <2>7
<1>6. TypeOK'
  BY <1>1, <1>2, <1>5 DEF TypeOK
<1> QED
  BY <1>2, <1>5, <1>6, ChargedNow DEF SameStep, InQueueSide

\* The call at the head of the listener's queue, and where it may move its pod.
HandledCall ==
  LET e == Head(toCache) IN
    /\ e \in PodCalls /\ e \in Range(toCache)
    /\ e.op = "remove" => api[e.pod] = "gone"
    /\ e.op # "remove" => e.node \in Nodes
    /\ \A n \in Nodes : e.node = n => Named(e.pod, n)
    /\ \A q \in Pods : q # e.pod => cache'.state[q] = cache.state[q]
    /\ \/ cache'.state[e.pod] = cache.state[e.pod]
       \/ cache'.state[e.pod] = NoNode /\ e.op = "remove"
       \/ cache'.state[e.pod] = e.node /\ e.op # "remove"

\* A pod call moves the pod to a node somebody named, or forgets a deleted one.
LEMMA CacheHandlerInside ==
  ASSUME SchedulerInv, CacheHandler
  PROVE  InsideStep /\ TypeOK' /\ HandledCall
<1> DEFINE e == Head(toCache)
           p == e.pod
<1>1. /\ toCache \in Seq(PodCalls) /\ toCache # <<>> /\ toCache' = Tail(toCache)
      /\ UNCHANGED <<cluster, toQueue, toNodes, checked, queued, loop, binds, budget>>
  BY DEF SchedulerInv, TypeOK, CacheHandler
<1>2. /\ e \in PodCalls /\ e \in Range(toCache)
      /\ toCache' \in Seq(PodCalls) /\ Range(toCache') \subseteq Range(toCache)
  BY <1>1, TailRange
<1>3. cache' = CASE e.op = "add"    -> AddPod(cache, p, e.node)
                 [] e.op = "update" -> UpdatePod(cache, p, e.node, e.node)
                 [] e.op = "remove" -> RemovePod(cache, p, e.node)
  BY DEF CacheHandler
<1> HIDE DEF e
<1>4. /\ p \in Pods /\ e.op \in {"add", "update", "remove"}
      /\ e.op = "remove" => api[p] = "gone"
      /\ e.op # "remove" => e.node \in Nodes
      /\ \A n \in Nodes : e.node = n => Named(p, n)
  BY <1>2 DEF PodCalls, SchedulerInv, CallsFit, Named
<1>5. Charged(cache) /\ cache.state \in [Pods -> Nodes \cup {NoNode}] /\ NoNode \notin Nodes
  BY ChargedNow, CacheAssumption DEF Charged, Caches
<1>6. \A m, n \in Nodes : Named(p, m) => /\ Named(p, n) => m = n
                                         /\ api[p] # "pending"
  BY <1>4 DEF SchedulerInv, OneHome
<1>7. /\ Charged(cache')
      /\ \/ Same(cache, cache')
         \/ Moved(cache, cache', p, NoNode, FALSE) /\ e.op = "remove"
         \/ Moved(cache, cache', p, e.node, FALSE) /\ e.op # "remove"
  <2>1. CASE e.op = "add"
    <3>1. cache' = AddPod(cache, p, e.node)
      BY <1>3, <2>1
    <3> QED
      BY <1>4, <1>5, <2>1, <3>1, AddPodOk
  <2>2. CASE e.op = "update"
    <3>1. cache' = UpdatePod(cache, p, e.node, e.node)
      BY <1>3, <2>2
    <3>2. cache.state[p] # NoNode /\ p \notin cache.assumed => cache.state[p] = e.node
      BY <1>4, <1>5, <1>6, <2>2 DEF Named
    <3> QED
      BY <1>4, <1>5, <2>2, <3>1, <3>2, UpdatePodOk
  <2>3. CASE e.op = "remove"
    <3>1. cache' = RemovePod(cache, p, e.node)
      BY <1>3, <2>3
    <3> QED
      BY <1>4, <1>5, <2>3, <3>1, RemovePodOk
  <2> QED
    BY <1>4, <2>1, <2>2, <2>3
<1>8. \A q \in Pods : q # p => /\ cache'.state[q] = cache.state[q]
                               /\ q \in cache.assumed => q \in cache'.assumed
  BY <1>4, <1>5, <1>7 DEF Same, Moved
<1>9. \/ cache'.state[p] = cache.state[p] /\ (p \in cache'.assumed <=> p \in cache.assumed)
      \/ cache'.state[p] = NoNode /\ e.op = "remove"
      \/ cache'.state[p] = e.node /\ e.op # "remove"
  BY <1>4, <1>5, <1>7 DEF Same, Moved
<1>10. ASSUME NEW q \in Pods
       PROVE  /\ \A n \in Nodes : cache'.state[q] = n /\ q \notin cache'.assumed => Named(q, n)
              /\ api[q] = "pending" => cache'.state[q] = cache.state[q]
              /\ api[q] \in Nodes /\ cache.state[q] # NoNode => cache'.state[q] # NoNode
  <2>1. CASE q # p
    <3>1. \A n \in Nodes : cache.state[q] = n /\ q \notin cache.assumed => Named(q, n)
      BY DEF Named
    <3>2. /\ cache'.state[q] = cache.state[q]
          /\ q \in cache.assumed => q \in cache'.assumed
      BY <1>8, <2>1
    <3> QED
      BY <3>1, <3>2
  <2>2. CASE q = p /\ e.op = "remove"
    BY <1>4, <1>5, <1>9, <2>2, SchedulerAssumption DEF Named
  <2>3. CASE q = p /\ e.op # "remove"
    <3>1. Named(p, e.node) /\ api[p] # "pending"
      BY <1>4, <1>6, <2>3
    <3> QED
      BY <1>4, <1>5, <1>9, <2>3, <3>1 DEF Named
  <2> QED
    BY <2>1, <2>2, <2>3
<1>11. \A q \in Pods : InQueueSide(q)' => InQueueSide(q)
  BY <1>1 DEF InQueueSide
<1>12. TypeOK'
  BY <1>1, <1>2, <1>7 DEF SchedulerInv, TypeOK, cluster, Charged
<1>13. InsideStep
  BY <1>1, <1>2, <1>7, <1>10, <1>11 DEF InsideStep, cluster
<1>14. HandledCall
  BY <1>2, <1>4, <1>8, <1>9 DEF HandledCall, e
<1> QED
  BY <1>12, <1>13, <1>14

\* Neither is what the queue's listener does.
LEMMA QueueActionsSame ==
  ASSUME SchedulerInv, QueueHandler \/ QueueUpdate
  PROVE  SameStep
<1>1. /\ UNCHANGED <<cluster, toCache, toNodes, cache, loop, binds, budget>>
      /\ toQueue \in Seq(PodCalls)
  BY DEF QueueHandler, QueueUpdate, SchedulerInv, TypeOK
<1>2. /\ queued' \subseteq Pods /\ checked' \in Pods \cup {NoPod}
      /\ toQueue' \in Seq(PodCalls)
      /\ \A p \in Pods : InQueueSide(p)' => InQueueSide(p)
  <2>1. CASE QueueHandler
    <3> DEFINE e == Head(toQueue)
    <3>1. /\ e \in PodCalls /\ e \in Range(toQueue) /\ toQueue' = Tail(toQueue)
          /\ toQueue' \in Seq(PodCalls) /\ Range(toQueue') \subseteq Range(toQueue)
      BY <1>1, <2>1, TailRange DEF QueueHandler
    <3>2. /\ queued' = CASE e.op = "add"    -> queued \cup {e.pod}
                          [] e.op = "remove" -> queued \ {e.pod}
                          [] OTHER           -> queued
          /\ checked' = IF e.op = "update" /\ ~IsAssumedPod(cache, e.pod)
                        THEN e.pod ELSE NoPod
      BY <2>1 DEF QueueHandler
    <3> HIDE DEF e
    <3>3. /\ queued' \subseteq queued \cup {e.pod}
          /\ e.op = "remove" => queued' \subseteq queued
          /\ checked' = NoPod \/ (checked' = e.pod /\ e.op = "update")
      BY <3>2
    <3>4. /\ e.pod \in Pods /\ queued \subseteq Pods
          /\ \A p \in Pods : p # NoPod
      BY <3>1, SchedulerAssumption DEF PodCalls, SchedulerInv, TypeOK, NoPod
    <3>5. \A p \in Pods : InQueueSide(p)' => InQueueSide(p)
      BY <1>1, <3>1, <3>3, <3>4 DEF InQueueSide
    <3> QED
      BY <3>1, <3>3, <3>4, <3>5
  <2>2. CASE QueueUpdate
    <3>1. /\ checked \in Pods /\ queued \subseteq Pods
          /\ \A p \in Pods : p # NoPod
      BY <2>2, SchedulerAssumption DEF QueueUpdate, SchedulerInv, TypeOK, NoPod
    <3> QED
      BY <1>1, <2>2, <3>1 DEF QueueUpdate, InQueueSide
  <2> QED
    BY <2>1, <2>2
<1>3. TypeOK'
  BY <1>1, <1>2 DEF SchedulerInv, TypeOK, cluster
<1> QED
  BY <1>1, <1>2, <1>3, ChargedNow DEF SameStep, cluster

\* Neither is what the nodes' listener does: the cache keeps what it knows of the pods.
LEMMA NodeHandlerSame ==
  ASSUME SchedulerInv, NodeHandler
  PROVE  SameStep
<1>1. /\ UNCHANGED <<cluster, toCache, toQueue, checked, queued, loop, binds, budget>>
      /\ toNodes \in Seq(NodeCalls) /\ toNodes # <<>> /\ toNodes' = Tail(toNodes)
  BY DEF NodeHandler, SchedulerInv, TypeOK
<1>2. Head(toNodes).node \in Nodes /\ toNodes' \in Seq(NodeCalls)
  <2>1. Head(toNodes) \in NodeCalls /\ toNodes' \in Seq(NodeCalls)
    BY <1>1, TailRange
  <2> QED
    BY <2>1 DEF NodeCalls
<1>3. Charged(cache') /\ Same(cache, cache')
  BY <1>2, ChargedNow, NodeOk DEF NodeHandler
<1>4. TypeOK'
  BY <1>1, <1>2, <1>3 DEF SchedulerInv, TypeOK, cluster, Charged
<1> QED
  BY <1>1, <1>3, <1>4 DEF SameStep, InQueueSide, cluster

LoopAction ==
  \/ Start \/ (\E p \in Pods : Pop(p)) \/ SchedulePod
  \/ \E b \in binds : BindFails(b)

\* Neither are the steps of the loop before it assumes a pod.
LEMMA LoopActionsSame ==
  ASSUME SchedulerInv, LoopAction
  PROVE  SameStep
<1> USE DEF LoopAction
<1>1. /\ UNCHANGED <<cluster, listeners, cache>> /\ binds' \subseteq binds
      /\ queued' \subseteq queued /\ TypeOK
  BY DEF Start, Pop, SchedulePod, BindFails, SchedulerInv
<1>2. \A p \in Pods : p # NoPod
  BY SchedulerAssumption DEF NoPod
<1>3. /\ TypeOK' /\ \A p \in Pods : InQueueSide(p)' => InQueueSide(p)
  <2>1. CASE Start
    <3>1. budget' \in [Kinds -> Nat]
      BY <1>1, <2>1, SpendOk DEF Start, TypeOK, Kinds
    <3> QED
      BY <1>1, <1>2, <2>1, <3>1 DEF Start, TypeOK, InQueueSide, Idle, cluster, listeners
  <2>2. CASE \E p \in Pods : Pop(p)
    BY <1>1, <1>2, <2>2 DEF Pop, TypeOK, InQueueSide, cluster, listeners
  <2>3. CASE SchedulePod
    <3>1. loop \in [pc : {"picked"}, pod : Pods, node : {NoNode}]
      BY <1>1, <2>3 DEF SchedulePod, TypeOK
    <3>2. ASSUME NEW n \in Nodes, loop' = [loop EXCEPT !.pc = "chosen", !.node = n]
          PROVE  loop' \in [pc : {"chosen"}, pod : Pods, node : Nodes] /\ loop'.pod = loop.pod
      BY <3>1, <3>2
    <3>3. \/ loop' \in [pc : {"idle"}, pod : {NoPod}, node : {NoNode}] /\ loop'.pod = NoPod
          \/ loop' \in [pc : {"chosen"}, pod : Pods, node : Nodes] /\ loop'.pod = loop.pod
      <4>1. CASE loop' = Idle
        BY <4>1 DEF Idle
      <4>2. CASE \E n \in Nodes : loop' = [loop EXCEPT !.pc = "chosen", !.node = n]
        BY <3>2, <4>2
      <4> QED
        BY <2>3, <4>1, <4>2 DEF SchedulePod
    <3>4. UNCHANGED <<queued, binds, budget>>
      BY <2>3 DEF SchedulePod
    <3>5. TypeOK'
      BY <1>1, <3>3, <3>4 DEF TypeOK, cluster, listeners
    <3>6. \A p \in Pods : InQueueSide(p)' => InQueueSide(p)
      BY <1>1, <1>2, <3>3, <3>4 DEF InQueueSide, listeners
    <3> QED
      BY <3>5, <3>6
  <2>4. CASE \E b \in binds : BindFails(b)
    <3>1. budget' \in [Kinds -> Nat]
      BY <1>1, <2>4, SpendOk DEF BindFails, TypeOK, Kinds
    <3> QED
      BY <1>1, <2>4, <3>1 DEF BindFails, TypeOK, InQueueSide, cluster, listeners
  <2> QED
    BY <2>1, <2>2, <2>3, <2>4
<1> QED
  BY <1>1, <1>3, ChargedNow DEF SameStep, cluster, listeners

\* The pod that is assumed was not in the cache, so it is not bound, and no other
\* goroutine binds it.
LEMMA AssumeOk ==
  ASSUME SchedulerInv, Assume
  PROVE  SchedulerInv'
<1> DEFINE p == loop.pod
           n == loop.node
<1>1. /\ TypeOK /\ p \in Pods /\ n \in Nodes
      /\ UNCHANGED <<cluster, listeners, queued, budget>> /\ loop' = Idle
  BY DEF SchedulerInv, TypeOK, Assume
<1>2. /\ Charged(cache) /\ cache.state \in [Pods -> Nodes \cup {NoNode}]
      /\ NoNode \notin Nodes /\ \A q \in Pods : q # NoPod
  BY ChargedNow, CacheAssumption, SchedulerAssumption DEF Charged, Caches, NoPod
<1>3. /\ Charged(cache')
      /\ IF MayAssume(cache, p) THEN Moved(cache, cache', p, n, TRUE) ELSE cache' = cache
  BY <1>1, <1>2, AssumePodOk DEF Assume
<1>4. binds' = IF MayAssume(cache, p) THEN binds \cup {[pod |-> p, node |-> n]} ELSE binds
  BY DEF Assume
<1>5. TypeOK'
  BY <1>1, <1>3, <1>4 DEF TypeOK, cluster, listeners, Idle, Charged
<1>6. \A q \in Pods : InQueueSide(q)' => InQueueSide(q)
  BY <1>1, <1>2 DEF InQueueSide, Idle, listeners
<1>7. CASE ~MayAssume(cache, p)
  <2>1. Same(cache, cache')
    BY <1>3, <1>7 DEF Same
  <2> QED
    BY <1>1, <1>3, <1>4, <1>5, <1>6, <1>7, <2>1, SameStepOk DEF SameStep, cluster, listeners
<1>8. CASE MayAssume(cache, p)
  <2>1. /\ cache.state[p] = NoNode /\ cache'.state[p] = n /\ p \in cache'.assumed
        /\ \A q \in Pods : q # p => /\ cache'.state[q] = cache.state[q]
                                    /\ q \in cache.assumed => q \in cache'.assumed
    BY <1>1, <1>2, <1>3, <1>8 DEF MayAssume, Moved
  <2>2. InQueueSide(p)
    BY DEF InQueueSide
  <2>3. api[p] \in {"pending", "gone"}
    BY <1>1, <2>1, <2>2 DEF SchedulerInv, QueueSideKnown, TypeOK, ApiStates
  <2>4. ASSUME NEW d \in binds, api[d.pod] # "gone"
        PROVE  d.pod # p /\ d.pod \in Pods /\ d.node \in Nodes
    BY <1>1, <1>2, <2>1, <2>4 DEF SchedulerInv, OneBind, TypeOK
  <2>5. OneBind'
    <3> SUFFICES ASSUME NEW d \in binds', api'[d.pod] # "gone"
                 PROVE  /\ \A k \in binds' : k.pod = d.pod => k = d
                        /\ cache'.state[d.pod] = d.node
      BY DEF OneBind
    <3>1. api' = api
      BY <1>1 DEF cluster
    <3>2. CASE d \in binds
      <4>1. d.pod # p /\ d.pod \in Pods
        BY <2>4, <3>1, <3>2
      <4>2. (\A k \in binds : k.pod = d.pod => k = d) /\ cache.state[d.pod] = d.node
        BY <3>1, <3>2 DEF SchedulerInv, OneBind
      <4>3. cache'.state[d.pod] = d.node
        BY <2>1, <4>1, <4>2
      <4>4. \A k \in binds' : k \in binds \/ k.pod = p
        BY <1>4, <1>8
      <4> QED
        BY <4>1, <4>2, <4>3, <4>4
    <3>3. CASE d = [pod |-> p, node |-> n]
      <4>1. \A k \in binds : k.pod # p
        BY <2>4, <3>1, <3>3
      <4> QED
        BY <1>4, <1>8, <2>1, <3>3, <4>1
    <3> QED
      BY <1>4, <1>8, <3>2, <3>3
  <2>6. ASSUME NEW q \in Pods, NEW m \in Nodes, Named(q, m)'
        PROVE  Named(q, m)
    <3>1. q \notin cache'.assumed => q # p
      BY <2>1
    <3>2. cache'.state[q] = m /\ q \notin cache'.assumed
            => cache.state[q] = m /\ q \notin cache.assumed
      BY <2>1, <3>1
    <3>3. api' = api /\ seen' = seen /\ toCache' = toCache
      BY <1>1 DEF cluster, listeners
    <3> QED
      BY <2>6, <3>2, <3>3 DEF Named
  <2>7. OneHome'
    <3> SUFFICES ASSUME NEW q \in Pods, NEW j \in Nodes, NEW k \in Nodes, Named(q, j)'
                 PROVE  (Named(q, k)' => j = k) /\ api'[q] \notin {"absent", "pending"}
      BY DEF OneHome
    <3>1. Named(q, j) /\ (Named(q, k)' => Named(q, k)) /\ api' = api
      BY <1>1, <2>6 DEF cluster
    <3> QED
      BY <3>1 DEF SchedulerInv, OneHome
  <2>8. CallsFit'
    BY <1>1 DEF SchedulerInv, CallsFit, cluster, listeners
  <2>9. QueueSideKnown'
    <3> SUFFICES ASSUME NEW q \in Pods
                 PROVE  /\ InQueueSide(q)' => /\ api'[q] # "absent"
                                              /\ api'[q] \in Nodes => cache'.state[q] # NoNode
                        /\ api'[q] = "absent" => seen'.pods[q] = "absent"
      BY DEF QueueSideKnown
    <3>1. /\ InQueueSide(q) => /\ api[q] # "absent"
                               /\ api[q] \in Nodes => cache.state[q] # NoNode
          /\ api[q] = "absent" => seen.pods[q] = "absent"
      BY DEF SchedulerInv, QueueSideKnown
    <3>2. api' = api /\ seen' = seen /\ (InQueueSide(q)' => InQueueSide(q))
      BY <1>1, <1>6 DEF cluster
    <3>3. cache.state[q] # NoNode => cache'.state[q] # NoNode
      BY <1>1, <1>2, <2>1
    <3> QED
      BY <3>1, <3>2, <3>3
  <2>10. BindsOpen'
    BY <1>1, <1>4, <1>8, <2>3 DEF SchedulerInv, BindsOpen, cluster
  <2>11. ChargedOnce'
    BY <1>3 DEF Charged, ChargedOnce
  <2> QED
    BY <1>5, <2>5, <2>7, <2>8, <2>9, <2>10, <2>11 DEF SchedulerInv
<1> QED
  BY <1>7, <1>8

-----------------------------------------------------------------------------
\* The cache of a new process is well formed.
LEMMA EmptyCacheOk == EmptyCache \in Caches
BY DEF EmptyCache, Caches

\* Every initial state satisfies the invariant.
LEMMA InitOk == Init => SchedulerInv
<1> SUFFICES ASSUME Init PROVE SchedulerInv
  OBVIOUS
<1>1. /\ toCache = <<>> /\ toQueue = <<>> /\ binds = {} /\ queued = {} /\ checked = NoPod
      /\ cache = EmptyCache /\ seen = [pods |-> [p \in Pods |-> "absent"], nodes |-> {}]
      /\ api \in [Pods -> {"absent", "pending"} \cup nodes] /\ nodes \subseteq Nodes
      /\ loop = [pc |-> "off", pod |-> NoPod, node |-> NoNode]
  BY DEF Init, Idle
<1>2. Range(<<>>) = {}
  BY DEF Range
<1>3. \A p \in Pods : cache.state[p] = NoNode /\ seen.pods[p] = "absent" /\ p # NoPod
  BY <1>1, SchedulerAssumption DEF EmptyCache, NoPod
<1>4. TypeOK
  <2>1. budget \in [Kinds -> Nat] /\ toNodes \in Seq(NodeCalls) /\ gap \in BOOLEAN
    BY DEF Init
  <2>2. seen \in [pods : [Pods -> ApiStates], nodes : SUBSET Nodes]
    BY <1>1 DEF ApiStates
  <2>3. api \in [Pods -> ApiStates]
    BY <1>1 DEF ApiStates
  <2> QED
    BY <1>1, <2>1, <2>2, <2>3, EmptyCacheOk DEF TypeOK
<1>5. \A p \in Pods, n \in Nodes : Named(p, n) => api[p] = n
  BY <1>1, <1>2, <1>3, CacheAssumption, SchedulerAssumption DEF Named
<1>6. OneHome
  <2>1. \A n \in Nodes : n \notin {"absent", "pending"}
    BY SchedulerAssumption
  <2> QED
    BY <1>5, <2>1 DEF OneHome
<1>7. \A p \in Pods : ~InQueueSide(p)
  BY <1>1, <1>2, <1>3 DEF InQueueSide
<1>8. ChargedOnce
  <2>1. \A n \in Nodes, p \in Pods : cache.count[n][p] = 0
    BY <1>1 DEF EmptyCache
  <2> QED
    BY <2>1 DEF ChargedOnce
<1> QED
  BY <1>1, <1>2, <1>3, <1>4, <1>6, <1>7, <1>8
  DEF SchedulerInv, OneBind, CallsFit, QueueSideKnown, BindsOpen

\* The actions that leave the cache's pods and their calls alone.
QuietAction == NodeAction \/ QueueHandler \/ QueueUpdate \/ NodeHandler \/ LoopAction

\* All of these together.
LEMMA QuietActionsSame ==
  ASSUME SchedulerInv, QuietAction
  PROVE  SameStep
BY NodeActionsSame, QueueActionsSame, NodeHandlerSame, LoopActionsSame DEF QuietAction

\* They, the pod steps, the pod handler and assume are all there is.
LEMMA NextSplits ==
  ASSUME Next
  PROVE  PodAction \/ QuietAction \/ CacheHandler \/ Assume
BY DEF Next, PodAction, QuietAction, NodeAction, LoopAction

\* Every step preserves the invariant.
LEMMA NextOk == SchedulerInv /\ [Next]_vars => SchedulerInv'
<1> SUFFICES ASSUME SchedulerInv, [Next]_vars PROVE SchedulerInv'
  OBVIOUS
<1>1. CASE UNCHANGED vars
  BY <1>1 DEF vars, SchedulerInv, TypeOK, ChargedOnce, OneBind, OneHome, Named, CallsFit,
              QueueSideKnown, InQueueSide, BindsOpen
<1>2. CASE PodAction
  BY <1>2, PodActionOk
<1>3. CASE QuietAction
  BY <1>3, QuietActionsSame, SameStepOk
<1>4. CASE CacheHandler
  BY <1>4, CacheHandlerInside, InsideStepOk
<1>5. CASE Assume
  BY <1>5, AssumeOk
<1> QED
  BY <1>1, <1>2, <1>3, <1>4, <1>5, NextSplits

\* Hence it always holds.
LEMMA AlwaysInv == Spec => []SchedulerInv
BY InitOk, NextOk, PTL DEF Spec

\* Whatever order the listeners, the loop, the watch and the cluster take, no NodeInfo
\* counts a pod twice, or a pod its cache entry places elsewhere (cache.go).
THEOREM SchedulerChargedOnce == Spec => []ChargedOnce
<1>1. SchedulerInv => ChargedOnce
  BY DEF SchedulerInv
<1> QED
  BY <1>1, AlwaysInv, PTL

\* A pod that exists has one binding goroutine at most, and it binds to the node the
\* cache charges for it (schedule_one.go: assume, bindingCycle).
THEOREM SchedulerOneBind == Spec => []OneBind
<1>1. SchedulerInv => OneBind
  BY DEF SchedulerInv
<1> QED
  BY <1>1, AlwaysInv, PTL

\* Every variable keeps its type, and each call its node or its pod's deletion.
THEOREM SchedulerTypeOK == Spec => []TypeOK
<1>1. SchedulerInv => TypeOK
  BY DEF SchedulerInv
<1> QED
  BY <1>1, AlwaysInv, PTL

-----------------------------------------------------------------------------
(* Sums over the pods.                                                     *)

\* SumFunctionOnSet is a sum.
LEMMA TotalIsASum ==
  ASSUME NEW f \in [Pods -> Nat]
  PROVE  \E g : Sums(g, f, SUBSET Pods) /\ SumFunctionOnSet(f, Pods) = g[Pods]
<1> DEFINE Step(g, s) == IF s = {} THEN 0 ELSE f[Some(s)] + g[s \ {Some(s)}]
           iter == CHOOSE g : g = [s \in SUBSET Pods |-> Step(g, s)]
<1>1. SumFunctionOnSet(f, Pods) = iter[Pods]
  BY DEF SumFunctionOnSet, FoldFunctionOnSet, MapThenFoldSet, Some
<1>2. \E g : g = [s \in SUBSET Pods |-> Step(g, s)]
  <2>1. PICK g \in [SUBSET Pods -> Nat] : Sums(g, f, SUBSET Pods)
    BY SchedulerAssumption, SumExists
  <2>2. g = [s \in SUBSET Pods |-> Step(g, s)]
    BY <2>1 DEF Sums
  <2> QED
    BY <2>2
<1>3. iter = [s \in SUBSET Pods |-> Step(iter, s)]
  <2> HIDE DEF Step
  <2> QED
    BY <1>2
<1> HIDE DEF iter
<1>4. Sums(iter, f, SUBSET Pods)
  BY <1>3 DEF Sums
<1> QED
  BY <1>1, <1>4

\* Numbers that are no larger have no larger sum.
LEMMA TotalMonotone ==
  ASSUME NEW f \in [Pods -> Nat], NEW h \in [Pods -> Nat], \A q \in Pods : f[q] <= h[q]
  PROVE  SumFunctionOnSet(f, Pods) <= SumFunctionOnSet(h, Pods)
<1>1. PICK g : Sums(g, f, SUBSET Pods) /\ SumFunctionOnSet(f, Pods) = g[Pods]
  BY TotalIsASum
<1>2. PICK k : Sums(k, h, SUBSET Pods) /\ SumFunctionOnSet(h, Pods) = k[Pods]
  BY TotalIsASum
<1>3. \A R \in SUBSET Pods : (\A x \in R : f[x] <= h[x]) => g[R] <= k[R]
  BY <1>1, <1>2, SchedulerAssumption, SumsMonotone
<1> QED
  BY <1>1, <1>2, <1>3

\* Any pod may be added last.
LEMMA SumSplitAt ==
  ASSUME NEW f \in [Pods -> Nat], NEW g, Sums(g, f, SUBSET Pods), NEW p \in Pods
  PROVE  g[Pods] = f[p] + g[Pods \ {p}]
<1>1. IsFiniteSet(Pods)
  BY SchedulerAssumption
<1>2. \A S \in SUBSET Pods : \A w \in S : g[S] = f[w] + g[S \ {w}]
  <2> SUFFICES ASSUME NEW S \in SUBSET Pods, NEW w \in S PROVE g[S] = f[w] + g[S \ {w}]
    OBVIOUS
  <2> QED
    BY <1>1, SumsSplit
<1> QED
  BY <1>2

\* One number that is larger by r makes a sum at most r larger.
LEMMA TotalGrows ==
  ASSUME NEW f \in [Pods -> Nat], NEW h \in [Pods -> Nat], NEW p \in Pods, NEW r \in Nat,
         \A q \in Pods \ {p} : f[q] <= h[q], f[p] <= h[p] + r
  PROVE  /\ SumFunctionOnSet(f, Pods) \in Nat /\ SumFunctionOnSet(h, Pods) \in Nat
         /\ SumFunctionOnSet(f, Pods) <= SumFunctionOnSet(h, Pods) + r
<1> DEFINE R == Pods \ {p}
<1>0. IsFiniteSet(Pods) /\ R \in SUBSET Pods
  BY SchedulerAssumption
<1> HIDE DEF R
<1>1. PICK g : Sums(g, f, SUBSET Pods) /\ SumFunctionOnSet(f, Pods) = g[Pods]
  BY TotalIsASum
<1>2. PICK k : Sums(k, h, SUBSET Pods) /\ SumFunctionOnSet(h, Pods) = k[Pods]
  BY TotalIsASum
<1>3. \A S \in SUBSET Pods : (\A x \in S : f[x] <= h[x]) => g[S] <= k[S]
  BY <1>1, <1>2, <1>0, SumsMonotone
<1>4. g[Pods] = f[p] + g[R]
  BY <1>1, SumSplitAt DEF R
<1>5. k[Pods] = h[p] + k[R]
  BY <1>2, SumSplitAt DEF R
<1>6. \A S \in SUBSET Pods : g[S] \in Nat
  BY <1>1, <1>0, SumsOfPartsAreNat
<1>7. \A S \in SUBSET Pods : k[S] \in Nat
  BY <1>2, <1>0, SumsOfPartsAreNat
<1>8. /\ g[Pods] = f[p] + g[R] /\ k[Pods] = h[p] + k[R] /\ g[R] <= k[R]
      /\ g[R] \in Nat /\ k[R] \in Nat /\ g[Pods] \in Nat /\ k[Pods] \in Nat
  BY <1>0, <1>3, <1>4, <1>5, <1>6, <1>7 DEF R
<1>9. f[p] \in Nat /\ h[p] \in Nat
  OBVIOUS
<1> QED
  BY <1>1, <1>2, <1>8, <1>9

-----------------------------------------------------------------------------
(* A cache that has lost no node.                                          *)

\* The process lives, and each pod the cache knows is charged to its node.
Whole(c) ==
  /\ ~c.down
  /\ \A p \in Pods : c.state[p] # NoNode => /\ c.state[p] \in c.infos
                                            /\ c.count[c.state[p]][p] = 1

\* A pod handler turned the whole cache c into the whole r: p is on n now.
Put(c, r, p, n) ==
  /\ Charged(r) /\ Whole(r)
  /\ r.state = [c.state EXCEPT ![p] = n]
  /\ r.real = c.real
  /\ r.assumed \subseteq c.assumed

\* A pod added to a whole cache is charged to its node.
LEMMA AddToNodeWhole ==
  ASSUME NEW c, Charged(c), Whole(c), NEW p \in Pods, c.state[p] = NoNode,
         NEW n \in Nodes, NEW a \in BOOLEAN
  PROVE  LET r == AddToNode(c, p, n, a)
         IN  /\ Charged(r) /\ Whole(r) /\ r.real = c.real
             /\ r.state = [c.state EXCEPT ![p] = n]
<1> DEFINE r == AddToNode(c, p, n, a)
<1>1. c \in Caches /\ \A m \in Nodes : c.count[m][p] = 0
  BY CacheAssumption DEF Charged, Caches
<1>2. /\ r.state = [c.state EXCEPT ![p] = n]
      /\ r.count = [c.count EXCEPT ![n][p] = @ + 1]
      /\ r.infos = c.infos \cup {n}
      /\ r.real = c.real /\ r.down = c.down
  BY <1>1 DEF AddToNode, Caches
<1>3. Charged(r)
  BY AddToNodeOk
<1> HIDE DEF r
<1>4. ASSUME NEW q \in Pods, r.state[q] # NoNode
      PROVE  r.state[q] \in r.infos /\ r.count[r.state[q]][q] = 1
  <2>1. CASE q = p
    BY <1>1, <1>2, <2>1 DEF Caches
  <2>2. CASE q # p
    <3>1. c.state[q] \in Nodes /\ c.state[q] \in c.infos /\ c.count[c.state[q]][q] = 1
      BY <1>1, <1>2, <1>4, <2>2 DEF Whole, Caches
    <3>2. r.state[q] = c.state[q] /\ r.count[c.state[q]][q] = c.count[c.state[q]][q]
      BY <1>1, <1>2, <2>2, <3>1 DEF Caches
    <3> QED
      BY <1>2, <3>1, <3>2
  <2> QED
    BY <2>1, <2>2
<1> QED
  BY <1>2, <1>3, <1>4 DEF Whole, r

\* Whether it is assumed is what the caller says.
LEMMA AddToNodeAssumed ==
  ASSUME NEW c \in Caches, NEW p, NEW n
  PROVE  /\ AddToNode(c, p, n, TRUE).assumed = c.assumed \cup {p}
         /\ AddToNode(c, p, n, FALSE).assumed = c.assumed
BY DEF AddToNode, Caches

\* Taking a pod off its node never fails, and leaves the node where it is.
LEMMA TakeOffWhole ==
  ASSUME NEW c, Charged(c), Whole(c), NEW p \in Pods, NEW n \in Nodes, c.state[p] = n
  PROVE  /\ RemoveResult(c, p, n) = "ok"
         /\ Put(c, TakeOff(c, p, n), p, NoNode)
         /\ p \notin TakeOff(c, p, n).assumed
<1> DEFINE d == IF n \in c.infos THEN [c EXCEPT !.count[n][p] = @ - 1] ELSE c
           e == IF n \in c.infos \ c.real /\ \A q \in Pods : d.count[n][q] = 0
                THEN DropInfo(d, n) ELSE d
           r == [e EXCEPT !.state[p] = NoNode, !.assumed = @ \ {p}]
<1>1. /\ c \in Caches /\ r = TakeOff(c, p, n)
      /\ n \in c.infos /\ c.count[n][p] = 1 /\ n # NoNode
  BY CacheAssumption DEF Charged, Whole, TakeOff
<1>2. RemoveResult(c, p, n) = "ok"
  BY <1>1 DEF RemoveResult
<1>3. Charged(r) /\ Moved(c, r, p, NoNode, FALSE)
  <2>1. LET t == TakeOff(c, p, n) IN Charged(t) /\ Moved(c, t, p, NoNode, FALSE)
    BY <1>2, TakeOffOk
  <2> HIDE DEF d, e, r
  <2> QED
    BY <1>1, <2>1
<1>4. /\ d \in Caches /\ d.infos = c.infos /\ d.real = c.real /\ d.down = c.down
      /\ d.state = c.state /\ d.assumed = c.assumed
      /\ d.count = [c.count EXCEPT ![n][p] = 0]
  <2> DEFINE k == c.count[n][p] - 1
  <2>1. k = 0 /\ d = [c EXCEPT !.count[n][p] = k]
    BY <1>1
  <2> HIDE DEF k, d
  <2>2. d \in Caches /\ d.count = [c.count EXCEPT ![n][p] = 0]
    BY <1>1, <2>1, CountOk
  <2> QED
    BY <1>1, <2>1, <2>2 DEF Caches
<1> HIDE DEF d
<1>5. \A q \in Pods : q # p /\ c.state[q] # NoNode =>
        /\ c.state[q] \in Nodes /\ c.state[q] \in d.infos
        /\ d.count[c.state[q]][q] = 1
  BY <1>1, <1>4 DEF Whole, Caches
<1>6. /\ e \in Caches /\ e.real = c.real /\ e.down = c.down /\ e.state = c.state
      /\ e.assumed = c.assumed
      /\ \A q \in Pods : q # p /\ c.state[q] # NoNode =>
           c.state[q] \in e.infos /\ e.count[c.state[q]][q] = 1
  <2>1. CASE ~(n \in c.infos \ c.real /\ \A q \in Pods : d.count[n][q] = 0)
    BY <1>4, <1>5, <2>1
  <2>2. CASE n \in c.infos \ c.real /\ \A q \in Pods : d.count[n][q] = 0
    <3>1. e = DropInfo(d, n) /\ n \notin c.real
      BY <2>2
    <3> HIDE DEF e
    <3>2. /\ e \in Caches /\ e.real = c.real /\ e.down = c.down /\ e.state = c.state
          /\ e.assumed = c.assumed /\ e.infos = d.infos \ {n}
          /\ e.count = [d.count EXCEPT ![n] = [q \in Pods |-> 0]]
      <4>1. e \in Caches
        BY <1>4, <3>1 DEF DropInfo, Caches
      <4>2. /\ e.real = d.real \ {n} /\ e.infos = d.infos \ {n}
            /\ e.count = [d.count EXCEPT ![n] = [q \in Pods |-> 0]]
        BY <1>4, <3>1 DEF DropInfo, Caches
      <4>3. e.down = d.down /\ e.state = d.state /\ e.assumed = d.assumed
        BY <1>4, <3>1 DEF DropInfo, Caches
      <4> QED
        BY <1>4, <3>1, <4>1, <4>2, <4>3
    <3>3. \A q \in Pods : q # p /\ c.state[q] # NoNode => c.state[q] # n
      BY <1>5, <2>2
    <3>4. \A q \in Pods : q # p /\ c.state[q] # NoNode =>
            c.state[q] \in e.infos /\ e.count[c.state[q]][q] = 1
      BY <1>4, <1>5, <3>2, <3>3 DEF Caches
    <3> QED
      BY <3>2, <3>4
  <2> QED
    BY <2>1, <2>2
<1> HIDE DEF e
<1>7. /\ r.state = [c.state EXCEPT ![p] = NoNode] /\ r.assumed = c.assumed \ {p}
      /\ r.count = e.count /\ r.infos = e.infos /\ r.real = c.real /\ r.down = c.down
  BY <1>6 DEF Caches
<1> HIDE DEF r
<1>8. Whole(r)
  <2>1. \A q \in Pods : r.state[q] # NoNode => q # p /\ r.state[q] = c.state[q]
    BY <1>1, <1>7 DEF Caches
  <2> QED
    BY <1>6, <1>7, <2>1 DEF Whole
<1> QED
  BY <1>1, <1>2, <1>3, <1>7, <1>8 DEF Put

\* A pod moved within a whole cache ends on its new node.
LEMMA MovePodWhole ==
  ASSUME NEW c, Charged(c), Whole(c), NEW p \in Pods, NEW old \in Nodes, NEW new \in Nodes,
         c.state[p] = old
  PROVE  Put(c, MovePod(c, p, old, new), p, new)
<1> DEFINE a == FALSE
           t == TakeOff(c, p, old)
           r == AddToNode(t, p, new, a)
<1>1. RemoveResult(c, p, old) = "ok" /\ Put(c, t, p, NoNode) /\ a \in BOOLEAN
  BY TakeOffWhole
<1> HIDE DEF t
<1>2. c.state \in [Pods -> Nodes \cup {NoNode}] /\ t \in Caches /\ Charged(t) /\ Whole(t)
  BY <1>1 DEF Put, Charged, Caches
<1>3. t.state[p] = NoNode
  BY <1>1, <1>2 DEF Put
<1>4. r.assumed = t.assumed
  BY <1>2, AddToNodeAssumed
<1> HIDE DEF a
<1>5. /\ Charged(r) /\ Whole(r) /\ r.real = t.real
      /\ r.state = [t.state EXCEPT ![p] = new]
  BY <1>1, <1>2, <1>3, AddToNodeWhole
<1> HIDE DEF r
<1>6. r.state = [c.state EXCEPT ![p] = new]
  BY <1>1, <1>2, <1>5 DEF Put
<1>7. Put(c, r, p, new)
  BY <1>1, <1>4, <1>5, <1>6 DEF Put
<1>8. MovePod(c, p, old, new) = r
  BY <1>1 DEF MovePod, r, t, a
<1> QED
  BY <1>7, <1>8

\* What the handlers of pod calls do to a whole cache.
LEMMA AddPodWhole ==
  ASSUME NEW c, Charged(c), Whole(c), NEW p \in Pods, NEW n \in Nodes,
         c.state[p] \in {n, NoNode}
  PROVE  Put(c, AddPod(c, p, n), p, n)
<1>1. c.state \in [Pods -> Nodes \cup {NoNode}] /\ n # NoNode
  BY CacheAssumption DEF Charged, Caches
<1>2. CASE c.state[p] = NoNode
  <2>1. AddPod(c, p, n) = AddToNode(c, p, n, FALSE)
    BY <1>2 DEF AddPod
  <2> DEFINE a == FALSE
  <2>0. a \in BOOLEAN
    OBVIOUS
  <2>2. AddPod(c, p, n).assumed = c.assumed
    <3>1. c \in Caches
      BY DEF Charged
    <3>2. AddToNode(c, p, n, FALSE).assumed = c.assumed
      BY <3>1, AddToNodeAssumed
    <3> QED
      BY <2>1, <3>2
  <2>3. LET r == AddToNode(c, p, n, a)
        IN  Charged(r) /\ Whole(r) /\ r.real = c.real /\ r.state = [c.state EXCEPT ![p] = n]
    <3> HIDE DEF a
    <3> QED
      BY <1>2, <2>0, AddToNodeWhole
  <2> QED
    BY <2>1, <2>2, <2>3 DEF Put
<1>3. CASE c.state[p] = n /\ p \in c.assumed
  <2>1. AddPod(c, p, n) = MovePod(c, p, n, n)
    BY <1>1, <1>3 DEF AddPod
  <2> QED
    BY <1>3, <2>1, MovePodWhole
<1>4. CASE c.state[p] = n /\ p \notin c.assumed
  <2>1. AddPod(c, p, n) = c /\ [c.state EXCEPT ![p] = n] = c.state
    BY <1>1, <1>4 DEF AddPod
  <2> QED
    BY <2>1 DEF Put
<1> QED
  BY <1>2, <1>3, <1>4

\* AssumePod leaves the cache whole.
LEMMA AssumePodWhole ==
  ASSUME NEW c, Charged(c), Whole(c), NEW p \in Pods, NEW n \in Nodes
  PROVE  Whole(AssumePod(c, p, n)) /\ AssumePod(c, p, n).real = c.real
<1>1. CASE MayAssume(c, p)
  <2> DEFINE a == TRUE
  <2>1. a \in BOOLEAN /\ AssumePod(c, p, n) = AddToNode(c, p, n, a) /\ c.state[p] = NoNode
    BY <1>1 DEF AssumePod, MayAssume
  <2> HIDE DEF a
  <2>2. LET r == AddToNode(c, p, n, a)
        IN  Charged(r) /\ Whole(r) /\ r.real = c.real /\ r.state = [c.state EXCEPT ![p] = n]
    BY <2>1, AddToNodeWhole
  <2> QED
    BY <2>1, <2>2
<1>2. CASE ~MayAssume(c, p)
  BY <1>2 DEF AssumePod
<1> QED
  BY <1>1, <1>2

\* UpdatePod leaves the pod where it is, as it may only be where the call says.
LEMMA UpdatePodWhole ==
  ASSUME NEW c, Charged(c), Whole(c), NEW p \in Pods, NEW n \in Nodes,
         c.state[p] \in {n, NoNode}
  PROVE  Put(c, UpdatePod(c, p, n, n), p, c.state[p])
<1>1. c.state \in [Pods -> Nodes \cup {NoNode}] /\ n # NoNode
  BY CacheAssumption DEF Charged, Caches
<1>2. CASE c.state[p] = n /\ p \notin c.assumed
  <2>1. UpdatePod(c, p, n, n) = MovePod(c, p, n, n)
    BY <1>1, <1>2 DEF UpdatePod
  <2> QED
    BY <1>2, <2>1, MovePodWhole
<1>3. CASE c.state[p] = NoNode \/ p \in c.assumed
  <2>1. UpdatePod(c, p, n, n) = c /\ [c.state EXCEPT ![p] = c.state[p]] = c.state
    BY <1>1, <1>3 DEF UpdatePod
  <2> QED
    BY <2>1 DEF Put
<1> QED
  BY <1>2, <1>3

\* RemovePod forgets the pod.
LEMMA RemovePodWhole ==
  ASSUME NEW c, Charged(c), Whole(c), NEW p \in Pods, NEW n \in Nodes \cup {NoNode},
         n \in Nodes => c.state[p] \in {n, NoNode}
  PROVE  Put(c, RemovePod(c, p, n), p, NoNode)
<1>1. c.state \in [Pods -> Nodes \cup {NoNode}] /\ NoNode \notin Nodes
  BY CacheAssumption DEF Charged, Caches
<1>2. CASE c.state[p] = NoNode
  <2>1. RemovePod(c, p, n) = c /\ [c.state EXCEPT ![p] = NoNode] = c.state
    BY <1>1, <1>2 DEF RemovePod
  <2> QED
    BY <2>1 DEF Put
<1>3. CASE c.state[p] # NoNode
  <2>1. c.state[p] \in Nodes
    BY <1>1, <1>3
  <2>2. RemoveResult(c, p, c.state[p]) = "ok" /\ Put(c, TakeOff(c, p, c.state[p]), p, NoNode)
    BY <2>1, TakeOffWhole
  <2>3. RemovePod(c, p, n) = TakeOff(c, p, c.state[p])
    BY <1>1, <1>3, <2>1, <2>2 DEF RemovePod, RemoveFromNode
  <2> QED
    BY <2>2, <2>3
<1> QED
  BY <1>2, <1>3

\* A node that joins, or is updated, loses no pod.
LEMMA SetNodeWhole ==
  ASSUME NEW c, Charged(c), Whole(c), NEW n \in Nodes
  PROVE  LET r == SetNode(c, n)
         IN  /\ Charged(r) /\ Whole(r)
             /\ r.state = c.state /\ r.assumed = c.assumed /\ r.real = c.real \cup {n}
<1> DEFINE r == SetNode(c, n)
<1>1. c \in Caches /\ Charged(r)
  BY NodeOk DEF Charged
<1>2. /\ r.state = c.state /\ r.assumed = c.assumed /\ r.count = c.count
      /\ r.infos = c.infos \cup {n} /\ r.real = c.real \cup {n} /\ r.down = c.down
  BY <1>1 DEF SetNode, Caches
<1> HIDE DEF r
<1>3. Whole(r)
  BY <1>2 DEF Whole
<1> QED
  BY <1>1, <1>2, <1>3 DEF r

-----------------------------------------------------------------------------
(* Where the cache has the pods.                                           *)

\* The cache has a pod that is bound where it is bound, or has forgotten it; a pod that
\* may be scheduled again is not forgotten before its binding is.
Homes ==
  \A p \in Pods, n \in Nodes :
    Named(p, n) => /\ cache.state[p] \in {n, NoNode}
                   /\ InQueueSide(p) => cache.state[p] = n

\* A removal is the last call for its pod, which the store knows to be gone.
RemovalsLast ==
  \A i \in DOMAIN toCache : toCache[i].op = "remove" =>
    /\ seen.pods[toCache[i].pod] = "gone"
    /\ \A j \in DOMAIN toCache : j > i => toCache[j].pod # toCache[i].pod

\* While the watch is up, the store has missed nothing.
WatchCurrent == ~gap => \A p \in Pods : ~Missed(p)

PlacesInv == SchedulerInv /\ Homes /\ RemovalsLast /\ WatchCurrent

\* What is where in a queue that got at most one call more, or lost its head.
LEMMA AppendOne ==
  ASSUME NEW S, NEW s \in Seq(S), NEW x \in S
  PROVE  /\ Range(s \o <<x>>) = Range(s) \cup {x}
         /\ DOMAIN (s \o <<x>>) = DOMAIN s \cup {Len(s) + 1}
         /\ \A i \in DOMAIN s : (s \o <<x>>)[i] = s[i] /\ i < Len(s) + 1
         /\ (s \o <<x>>)[Len(s) + 1] = x
<1> DEFINE r == s \o <<x>>
<1>1. /\ r \in Seq(S) /\ Len(r) = Len(s) + 1 /\ Len(s) \in Nat
      /\ \A i \in 1 .. Len(s) : r[i] = s[i]
      /\ r[Len(s) + 1] = x
  OBVIOUS
<1> HIDE DEF r
<1>2. DOMAIN r = DOMAIN s \cup {Len(s) + 1} /\ \A i \in DOMAIN s : r[i] = s[i] /\ i < Len(s) + 1
  BY <1>1
<1>3. Range(r) = Range(s) \cup {x}
  BY <1>1, <1>2 DEF Range
<1> QED
  BY <1>1, <1>2, <1>3 DEF r

\* What is where in the rest of a queue.
LEMMA TailOf ==
  ASSUME NEW S, NEW s \in Seq(S), s # <<>>
  PROVE  /\ Range(s) = {Head(s)} \cup Range(Tail(s)) /\ 1 \in DOMAIN s /\ s[1] = Head(s)
         /\ \A i \in DOMAIN Tail(s) : i + 1 \in DOMAIN s /\ Tail(s)[i] = s[i + 1] /\ i \in Nat \ {0}
<1>1. /\ Head(s) = s[1] /\ Len(s) \in Nat \ {0} /\ Len(Tail(s)) = Len(s) - 1
      /\ Tail(s) \in Seq(S) /\ DOMAIN s = 1 .. Len(s)
      /\ \A i \in 1 .. Len(s) - 1 : Tail(s)[i] = s[i + 1]
  OBVIOUS
<1>2. DOMAIN Tail(s) = 1 .. Len(s) - 1
  BY <1>1
<1>3. ASSUME NEW j \in DOMAIN s, j # 1
      PROVE  j - 1 \in DOMAIN Tail(s) /\ Tail(s)[j - 1] = s[j]
  BY <1>1, <1>2, <1>3
<1>4. Range(s) \subseteq {Head(s)} \cup Range(Tail(s))
  BY <1>1, <1>3 DEF Range
<1>5. \A i \in DOMAIN Tail(s) : i + 1 \in DOMAIN s /\ Tail(s)[i] = s[i + 1] /\ i \in Nat \ {0}
  BY <1>1, <1>2
<1>6. Range(Tail(s)) \subseteq Range(s) /\ Head(s) \in Range(s)
  BY <1>1, <1>5 DEF Range
<1> QED
  BY <1>1, <1>4, <1>5, <1>6

\* The cache listener is told of a change by at most one call.
LEMMA CacheCallIs ==
  ASSUME NEW p \in Pods, NEW a \in ApiStates, NEW b \in ApiStates, NEW t \in BOOLEAN
  PROVE  \/ CacheCall(p, a, b, t) = <<>> /\ ~(b \in Nodes /\ a \notin Nodes)
         \/ \E e \in PodCalls :
              /\ CacheCall(p, a, b, t) = <<e>> /\ e.pod = p
              /\ e.op = "remove" => b = "gone"
              /\ b \in Nodes /\ a \notin Nodes => e.op = "add"
<1>1. ASSUME NEW o \in {"add", "update", "remove"}, NEW n \in Nodes \cup {NoNode}
      PROVE  \E e \in PodCalls : Call(o, p, n) = <<e>> /\ e.pod = p /\ e.op = o
  <2> DEFINE e == [op |-> o, pod |-> p, node |-> n]
  <2>1. e \in PodCalls /\ Call(o, p, n) = <<e>> /\ e.pod = p /\ e.op = o
    BY DEF Call, PodCalls
  <2> QED
    BY <2>1
<1>2. NodeOf(a) \in Nodes \cup {NoNode} /\ \A n \in Nodes : n # "gone"
  BY SchedulerAssumption DEF NodeOf
<1>3. CASE b = "gone"
  BY <1>1, <1>2, <1>3 DEF CacheCall
<1>4. CASE b \in Nodes /\ a \in Nodes
  BY <1>1, <1>2, <1>4 DEF CacheCall
<1>5. CASE b \in Nodes /\ a \notin Nodes
  BY <1>1, <1>2, <1>5 DEF CacheCall
<1>6. CASE b # "gone" /\ b \notin Nodes
  BY <1>6 DEF CacheCall
<1> QED
  BY <1>3, <1>4, <1>5, <1>6

\* A pod step tells the cache listener what the store has not known to be gone.
LEMMA PodStepPlaces ==
  ASSUME PlacesInv, NEW p \in Pods, NEW a \in ApiStates, NEW b \in ApiStates,
         NEW t \in BOOLEAN, PodStep(p, a, b, t)
  PROVE  Homes' /\ RemovalsLast' /\ WatchCurrent'
<1>1. SchedulerInv /\ TypeOK /\ toCache \in Seq(PodCalls)
  BY DEF PlacesInv, SchedulerInv, TypeOK
<1>2. StepTells(p, a, b)
  BY <1>1, PodStepNames
<1>3. OneHome'
  BY <1>1, PodStepOk
<1>4. /\ cache' = cache /\ gap' = gap /\ Lives(p, api[p], b)
      /\ a \in {api[p], seen.pods[p]} /\ (b = "gone" => a # "gone")
      /\ \/ gap /\ UNCHANGED <<seen, toCache>>
         \/ /\ seen' = [seen EXCEPT !.pods[p] = b]
            /\ toCache' = toCache \o CacheCall(p, a, b, t)
  BY DEF PodStep, Told
<1>5. Homes'
  <2> SUFFICES ASSUME NEW q \in Pods, NEW n \in Nodes, Named(q, n)'
               PROVE  /\ cache'.state[q] \in {n, NoNode}
                      /\ InQueueSide(q)' => cache'.state[q] = n
    BY DEF Homes
  <2>1. api'[q] # "pending"
    BY <1>3 DEF OneHome
  <2>2. InQueueSide(q)' => InQueueSide(q)
    BY <1>2, <2>1 DEF StepTells
  <2>3. Named(q, n) \/ (q = p /\ n = b /\ cache.state[p] = b)
    BY <1>2 DEF StepTells
  <2> QED
    BY <1>4, <2>2, <2>3 DEF PlacesInv, Homes
<1>6. ASSUME NEW i \in DOMAIN toCache, toCache[i].op = "remove"
      PROVE  /\ toCache[i].pod \in Pods \ {p} /\ seen'.pods[toCache[i].pod] = "gone"
             /\ \A j \in DOMAIN toCache : j > i => toCache[j].pod # toCache[i].pod
  <2> DEFINE q == toCache[i].pod
  <2>1. q \in Pods /\ toCache[i] \in Range(toCache)
    <3>1. toCache[i] \in PodCalls /\ toCache[i] \in Range(toCache)
      BY <1>1 DEF Range
    <3> QED
      BY <3>1 DEF PodCalls
  <2>2. /\ seen.pods[q] = "gone" /\ api[q] = "gone"
        /\ \A j \in DOMAIN toCache : j > i => toCache[j].pod # toCache[i].pod
    BY <1>6, <2>1 DEF PlacesInv, RemovalsLast, SchedulerInv, CallsFit
  <2>3. q # p
    BY <1>4, <2>2 DEF Lives
  <2> QED
    BY <1>2, <2>1, <2>2, <2>3 DEF StepTells
<1>7. RemovalsLast'
  <2>1. CASE toCache' = toCache
    BY <1>6, <2>1 DEF RemovalsLast
  <2>2. CASE /\ seen' = [seen EXCEPT !.pods[p] = b]
             /\ toCache' = toCache \o CacheCall(p, a, b, t)
    <3>1. CASE CacheCall(p, a, b, t) = <<>>
      <4>1. toCache' = toCache
        BY <1>1, <2>2, <3>1
      <4> QED
        BY <2>1, <4>1
    <3>2. CASE CacheCall(p, a, b, t) # <<>>
      <4>1. PICK e \in PodCalls : /\ CacheCall(p, a, b, t) = <<e>> /\ e.pod = p
                                  /\ e.op = "remove" => b = "gone"
        BY <3>2, CacheCallIs
      <4> DEFINE k == Len(toCache) + 1
      <4>2. toCache' = toCache \o <<e>>
        BY <2>2, <4>1
      <4>3. /\ DOMAIN toCache' = DOMAIN toCache \cup {k} /\ toCache'[k] = e
            /\ \A i \in DOMAIN toCache : toCache'[i] = toCache[i] /\ i < k
            /\ k \in Nat /\ DOMAIN toCache \subseteq Nat
        BY <1>1, <4>2, AppendOne
      <4>4. seen'.pods[p] = b
        BY <1>1, <2>2 DEF TypeOK
      <4> HIDE DEF k
      <4> SUFFICES ASSUME NEW i \in DOMAIN toCache', toCache'[i].op = "remove"
                   PROVE  /\ seen'.pods[toCache'[i].pod] = "gone"
                          /\ \A j \in DOMAIN toCache' : j > i =>
                               toCache'[j].pod # toCache'[i].pod
        BY DEF RemovalsLast
      <4>5. CASE i \in DOMAIN toCache
        BY <1>6, <4>1, <4>3, <4>5
      <4>6. CASE i = k
        BY <4>1, <4>3, <4>4, <4>6
      <4> QED
        BY <4>3, <4>5, <4>6
    <3> QED
      BY <3>1, <3>2
  <2> QED
    BY <1>4, <2>1, <2>2
<1>8. WatchCurrent'
  <2> SUFFICES ASSUME ~gap', NEW q \in Pods PROVE ~Missed(q)'
    BY DEF WatchCurrent
  <2>1. seen' = [seen EXCEPT !.pods[p] = b] /\ ~Missed(q)
    BY <1>4 DEF PlacesInv, WatchCurrent
  <2>2. seen'.pods[q] = IF q = p THEN b ELSE seen.pods[q]
    BY <1>1, <2>1 DEF TypeOK
  <2>3. api'[q] = IF q = p THEN b ELSE api[q]
    BY <1>2 DEF StepTells
  <2> QED
    BY <2>1, <2>2, <2>3 DEF Missed
<1> QED
  BY <1>5, <1>7, <1>8

\* The steps that leave the pods alone leave their homes alone.
LEMMA SameNames ==
  ASSUME SameStep
  PROVE  \A p \in Pods, n \in Nodes : Named(p, n)' <=> Named(p, n)
BY DEF SameStep, Same, Named

\* Steps that tell nothing of a pod keep the places.
LEMMA QuietPlaces ==
  ASSUME PlacesInv, QuietAction
  PROVE  Homes' /\ RemovalsLast' /\ WatchCurrent'
<1>1. SameStep
  BY QuietActionsSame DEF PlacesInv
<1>2. gap' \/ ~gap \/ \A p \in Pods : ~Missed(p)
  BY DEF QuietAction, NodeAction, LoopAction, AddNode, TouchNode, TakeNodeAway, CatchUpNode,
         LoseWatch, Watch, QueueHandler, QueueUpdate, NodeHandler, Start, Pop, SchedulePod,
         BindFails, cluster
<1>3. Homes'
  BY <1>1, SameNames DEF PlacesInv, Homes, SameStep, Same
<1>4. RemovalsLast'
  BY <1>1 DEF PlacesInv, RemovalsLast, SameStep
<1>5. WatchCurrent'
  BY <1>1, <1>2 DEF PlacesInv, WatchCurrent, SameStep, Missed
<1> QED
  BY <1>3, <1>4, <1>5

\* A call that is handled names nothing new.
LEMMA InsideNames ==
  ASSUME InsideStep
  PROVE  \A p \in Pods, n \in Nodes : Named(p, n)' => Named(p, n)
BY DEF InsideStep, Named

\* Nobody names a node for a pod that the cache forgot on its removal.
LEMMA RemovedIsForgotten ==
  ASSUME PlacesInv, CacheHandler, Head(toCache).op = "remove",
         NEW p \in Pods, p = Head(toCache).pod, cache'.state[p] = NoNode
  PROVE  \A n \in Nodes : ~Named(p, n)'
<1> DEFINE e == Head(toCache)
<1>1. /\ toCache \in Seq(PodCalls) /\ toCache # <<>> /\ toCache' = Tail(toCache)
      /\ UNCHANGED <<api, seen>>
  BY DEF PlacesInv, SchedulerInv, TypeOK, CacheHandler, cluster
<1>2. /\ 1 \in DOMAIN toCache /\ toCache[1] = e /\ e.pod = p /\ e \in Range(toCache)
      /\ e.op = "remove"
      /\ \A i \in DOMAIN toCache' : /\ i + 1 \in DOMAIN toCache /\ i \in Nat \ {0}
                                    /\ toCache'[i] = toCache[i + 1]
  BY <1>1, TailOf
<1>3. /\ seen.pods[p] = "gone" /\ api[p] = "gone"
      /\ \A j \in DOMAIN toCache : j > 1 => toCache[j].pod # p
  BY <1>2 DEF PlacesInv, RemovalsLast, SchedulerInv, CallsFit
<1>4. \A k \in Range(toCache') : k.pod # p
  <2>1. \A i \in DOMAIN toCache' : toCache'[i].pod # p
    BY <1>2, <1>3
  <2> QED
    BY <2>1 DEF Range
<1>5. \A n \in Nodes : n # "gone" /\ n # NoNode
  BY SchedulerAssumption, CacheAssumption
<1> QED
  BY <1>1, <1>3, <1>4, <1>5 DEF Named

\* So does the pod handler.
LEMMA CacheHandlerPlaces ==
  ASSUME PlacesInv, CacheHandler
  PROVE  Homes' /\ RemovalsLast' /\ WatchCurrent'
<1> DEFINE e == Head(toCache)
<1>1. SchedulerInv /\ InsideStep /\ HandledCall
  BY CacheHandlerInside DEF PlacesInv
<1>2. /\ toCache \in Seq(PodCalls) /\ toCache # <<>> /\ toCache' = Tail(toCache)
      /\ UNCHANGED <<api, seen, gap>>
  BY DEF PlacesInv, SchedulerInv, TypeOK, CacheHandler, cluster
<1>3. /\ e.pod \in Pods
      /\ e.op # "remove" => e.node \in Nodes /\ Named(e.pod, e.node)
      /\ \A q \in Pods : q # e.pod => cache'.state[q] = cache.state[q]
      /\ \/ cache'.state[e.pod] = cache.state[e.pod]
         \/ cache'.state[e.pod] = NoNode /\ e.op = "remove"
         \/ cache'.state[e.pod] = e.node /\ e.op # "remove"
  BY <1>1 DEF HandledCall, PodCalls
<1>4. ASSUME NEW q \in Pods, NEW n \in Nodes,
             e.op = "remove", q = e.pod, cache'.state[q] = NoNode
      PROVE  ~Named(q, n)'
  BY <1>4, RemovedIsForgotten
<1> HIDE DEF e
<1>5. Homes'
  <2> SUFFICES ASSUME NEW q \in Pods, NEW n \in Nodes, Named(q, n)'
               PROVE  /\ cache'.state[q] \in {n, NoNode}
                      /\ InQueueSide(q)' => cache'.state[q] = n
    BY DEF Homes
  <2>1. Named(q, n) /\ (InQueueSide(q)' => InQueueSide(q))
    BY <1>1, InsideNames DEF InsideStep
  <2>2. /\ cache.state[q] \in {n, NoNode}
        /\ InQueueSide(q) => cache.state[q] = n
    BY <2>1 DEF PlacesInv, Homes
  <2>3. \A m \in Nodes : Named(q, m) => m = n
    BY <1>1, <2>1 DEF SchedulerInv, OneHome
  <2>4. CASE cache'.state[q] = cache.state[q]
    BY <2>1, <2>2, <2>4
  <2>5. CASE q = e.pod /\ cache'.state[q] = NoNode /\ e.op = "remove"
    BY <1>4, <2>5
  <2>6. CASE q = e.pod /\ cache'.state[q] = e.node /\ e.op # "remove"
    BY <1>3, <2>3, <2>6
  <2> QED
    BY <1>3, <2>4, <2>5, <2>6
<1>6. RemovalsLast'
  <2>1. \A i \in DOMAIN toCache' : /\ i + 1 \in DOMAIN toCache /\ i \in Nat \ {0}
                                   /\ toCache'[i] = toCache[i + 1]
    BY <1>2, TailOf
  <2> QED
    BY <1>2, <2>1 DEF PlacesInv, RemovalsLast
<1>7. WatchCurrent'
  BY <1>2 DEF PlacesInv, WatchCurrent, Missed
<1> QED
  BY <1>5, <1>6, <1>7

\* The pod that is assumed is named nowhere.
LEMMA AssumeNames ==
  ASSUME PlacesInv, Assume
  PROVE  /\ loop.pod \in Pods /\ loop.node \in Nodes
         /\ UNCHANGED <<api, nodes, gap, seen, toCache, toNodes, budget>>
         /\ \A q \in Pods : InQueueSide(q)' => InQueueSide(q)
         /\ \A q \in Pods, m \in Nodes : Named(q, m)' => Named(q, m)
         /\ MayAssume(cache, loop.pod) => \A m \in Nodes : ~Named(loop.pod, m)
         /\ cache'.state = IF MayAssume(cache, loop.pod)
                           THEN [cache.state EXCEPT ![loop.pod] = loop.node] ELSE cache.state
<1> DEFINE p == loop.pod
           n == loop.node
<1>1. /\ TypeOK /\ p \in Pods /\ n \in Nodes
      /\ UNCHANGED <<api, nodes, gap, seen, toCache, toQueue, toNodes, checked, queued, budget>>
      /\ loop' = Idle /\ cache' = AssumePod(cache, p, n)
  BY DEF PlacesInv, SchedulerInv, TypeOK, Assume, cluster, listeners
<1>2. /\ Charged(cache) /\ cache.state \in [Pods -> Nodes \cup {NoNode}]
      /\ NoNode \notin Nodes /\ \A q \in Pods : q # NoPod
  BY ChargedNow, CacheAssumption, SchedulerAssumption DEF PlacesInv, Charged, Caches, NoPod
<1>3. IF MayAssume(cache, p) THEN Moved(cache, cache', p, n, TRUE) ELSE cache' = cache
  BY <1>1, <1>2, AssumePodOk
<1>4. \A q \in Pods : InQueueSide(q)' => InQueueSide(q)
  BY <1>1, <1>2 DEF InQueueSide, Idle
<1>5. \A m \in Nodes : MayAssume(cache, p) => ~Named(p, m)
  <2>1. InQueueSide(p)
    BY DEF InQueueSide
  <2> QED
    BY <1>1, <1>2, <2>1 DEF PlacesInv, Homes, MayAssume
<1> HIDE DEF p, n
<1>6. ASSUME NEW q \in Pods, NEW m \in Nodes, Named(q, m)'
      PROVE  Named(q, m)
  <2>1. cache'.state[q] = m /\ q \notin cache'.assumed
          => cache.state[q] = m /\ q \notin cache.assumed
    BY <1>1, <1>2, <1>3 DEF Moved
  <2> QED
    BY <1>1, <1>6, <2>1 DEF Named
<1>7. cache'.state = IF MayAssume(cache, p) THEN [cache.state EXCEPT ![p] = n] ELSE cache.state
  BY <1>3 DEF Moved
<1> QED
  BY <1>1, <1>4, <1>5, <1>6, <1>7 DEF p, n

\* So does assume.
LEMMA AssumePlaces ==
  ASSUME PlacesInv, Assume
  PROVE  Homes' /\ RemovalsLast' /\ WatchCurrent'
<1>1. /\ loop.pod \in Pods /\ loop.node \in Nodes
      /\ UNCHANGED <<api, nodes, gap, seen, toCache, toNodes, budget>>
      /\ \A q \in Pods : InQueueSide(q)' => InQueueSide(q)
      /\ \A q \in Pods, m \in Nodes : Named(q, m)' => Named(q, m)
      /\ MayAssume(cache, loop.pod) => \A m \in Nodes : ~Named(loop.pod, m)
  BY AssumeNames
<1>2. cache'.state = IF MayAssume(cache, loop.pod)
                     THEN [cache.state EXCEPT ![loop.pod] = loop.node] ELSE cache.state
  BY AssumeNames
<1>3. cache.state \in [Pods -> Nodes \cup {NoNode}]
  BY DEF PlacesInv, SchedulerInv, TypeOK, Caches
<1>4. Homes'
  <2> SUFFICES ASSUME NEW q \in Pods, NEW n \in Nodes, Named(q, n)'
               PROVE  /\ cache'.state[q] \in {n, NoNode}
                      /\ InQueueSide(q)' => cache'.state[q] = n
    BY DEF Homes
  <2>1. cache'.state[q] = cache.state[q]
    BY <1>1, <1>2, <1>3
  <2> QED
    BY <1>1, <2>1 DEF PlacesInv, Homes
<1>5. RemovalsLast'
  BY <1>1 DEF PlacesInv, RemovalsLast
<1>6. WatchCurrent'
  BY <1>1 DEF PlacesInv, WatchCurrent, Missed
<1> QED
  BY <1>4, <1>5, <1>6

\* The places are right at the start.
LEMMA InitPlaces == Init => PlacesInv
<1> SUFFICES ASSUME Init PROVE PlacesInv
  OBVIOUS
<1>1. /\ toCache = <<>> /\ toQueue = <<>> /\ queued = {} /\ checked = NoPod /\ gap = TRUE
      /\ cache = EmptyCache /\ loop.pod = NoPod
  BY DEF Init, Idle
<1>2. Range(<<>>) = {} /\ \A p \in Pods : cache.state[p] = NoNode /\ p # NoPod
  BY <1>1, SchedulerAssumption DEF Range, EmptyCache, NoPod
<1>3. \A p \in Pods : ~InQueueSide(p)
  BY <1>1, <1>2 DEF InQueueSide
<1> QED
  BY <1>1, <1>2, <1>3, InitOk DEF PlacesInv, Homes, RemovalsLast, WatchCurrent

\* They stay right in every step, whatever the system does.
LEMMA NextPlaces == PlacesInv /\ [Next]_vars => PlacesInv'
<1> SUFFICES ASSUME PlacesInv, [Next]_vars PROVE PlacesInv'
  OBVIOUS
<1>1. SchedulerInv'
  BY NextOk DEF PlacesInv
<1>2. CASE UNCHANGED vars
  <2>1. Homes'
    BY <1>2 DEF vars, PlacesInv, Homes, Named, InQueueSide
  <2>2. RemovalsLast' /\ WatchCurrent'
    BY <1>2 DEF vars, PlacesInv, RemovalsLast, WatchCurrent, Missed
  <2> QED
    BY <1>1, <2>1, <2>2 DEF PlacesInv
<1>3. CASE PodAction
  <2>1. PICK p \in Pods, a \in ApiStates, b \in ApiStates, t \in BOOLEAN : PodStep(p, a, b, t)
    BY <1>3, PodActionSteps DEF PlacesInv
  <2>2. Homes' /\ RemovalsLast' /\ WatchCurrent'
    BY <2>1, PodStepPlaces
  <2> QED
    BY <1>1, <2>2 DEF PlacesInv
<1>4. CASE QuietAction
  BY <1>1, <1>4, QuietPlaces DEF PlacesInv
<1>5. CASE CacheHandler
  BY <1>1, <1>5, CacheHandlerPlaces DEF PlacesInv
<1>6. CASE Assume
  BY <1>1, <1>6, AssumePlaces DEF PlacesInv
<1> QED
  BY <1>2, <1>3, <1>4, <1>5, <1>6, NextSplits

-----------------------------------------------------------------------------
(* The steady system.                                                      *)

\* No node is lost on the way to the cache.
NodesCurrent ==
  /\ seen.nodes \subseteq nodes /\ (~gap => seen.nodes = nodes)
  /\ \A e \in Range(toNodes) : e.op = "set"
  /\ cache.real \cup {e.node : e \in Range(toNodes)} = seen.nodes

\* The cache has, or is about to be told of, each bound pod of the store.
SeenIsCached ==
  \A p \in Pods : seen.pods[p] \in Nodes =>
    \/ cache.state[p] = seen.pods[p]
    \/ \E e \in Range(toCache) : e.op = "add" /\ e.pod = p

\* Before the loop starts nothing is assumed or bound; from then on the cache has every
\* bound pod.
Waited ==
  IF loop.pc = "off" THEN cache.assumed = {} /\ binds = {}
  ELSE \A p \in Pods, n \in Nodes : Named(p, n) => cache.state[p] = n

\* The pods that take room on n, in the view of any part of the system, and what they
\* request.
On(n) == {p \in Pods : Named(p, n) \/ cache.state[p] = n}

Weight(S) == [p \in Pods |-> IF p \in S THEN Req[p] ELSE 0]
Load(S) == SumFunctionOnSet(Weight(S), Pods)

\* They fit, with the pod a node has been chosen for.
Room ==
  /\ \A n \in Nodes : Load(On(n)) <= Cap[n]
  /\ \A n \in Nodes, p \in Pods :
       loop = [pc |-> "chosen", pod |-> p, node |-> n] => Load(On(n) \cup {p}) <= Cap[n]

SteadyParts == Whole(cache) /\ NodesCurrent /\ SeenIsCached /\ Waited /\ Room

SteadyInv == PlacesInv /\ (Steady => SteadyParts)

\* More pods request more, and one pod more its own requests at most.
LEMMA LoadOk ==
  ASSUME NEW S, NEW T, S \subseteq T
  PROVE  Load(S) <= Load(T)
<1>1. Weight(S) \in [Pods -> Nat] /\ Weight(T) \in [Pods -> Nat]
  BY SchedulerAssumption DEF Weight
<1>2. \A p \in Pods : Weight(S)[p] <= Weight(T)[p]
  BY SchedulerAssumption DEF Weight
<1> QED
  BY <1>1, <1>2, TotalMonotone DEF Load

\* Loads are numbers, and one pod more adds at most its requests.
LEMMA LoadIsNat ==
  ASSUME NEW S, NEW p \in Pods
  PROVE  /\ Load(S) \in Nat /\ Load(S \cup {p}) \in Nat /\ Req[p] \in Nat
         /\ Load(S \cup {p}) <= Load(S) + Req[p]
<1> DEFINE f == Weight(S \cup {p})
           h == Weight(S)
<1>1. f \in [Pods -> Nat] /\ h \in [Pods -> Nat] /\ Req[p] \in Nat
  BY SchedulerAssumption DEF Weight
<1>2. \A q \in Pods \ {p} : f[q] <= h[q]
  BY SchedulerAssumption DEF Weight
<1>3. f[p] <= h[p] + Req[p]
  BY SchedulerAssumption DEF Weight
<1> HIDE DEF f, h
<1>4. /\ SumFunctionOnSet(f, Pods) \in Nat /\ SumFunctionOnSet(h, Pods) \in Nat
      /\ SumFunctionOnSet(f, Pods) <= SumFunctionOnSet(h, Pods) + Req[p]
  BY <1>1, <1>2, <1>3, TotalGrows
<1> QED
  BY <1>1, <1>4 DEF Load, f, h

\* The load of a set without pods is a number too.
LEMMA LoadsAreInt ==
  ASSUME NEW S
  PROVE  Load(S) \in Nat
<1>1. Weight(S) \in [Pods -> Nat] /\ IsFiniteSet(Pods)
  BY SchedulerAssumption DEF Weight
<1>2. PICK g : Sums(g, Weight(S), SUBSET Pods) /\ SumFunctionOnSet(Weight(S), Pods) = g[Pods]
  BY <1>1, TotalIsASum
<1>3. g[Pods] \in Nat
  BY <1>1, <1>2, SumsAreNat
<1> QED
  BY <1>2, <1>3 DEF Load

\* A step on which no node gets another pod keeps the room there is.
LEMMA RoomKept ==
  ASSUME Room, TypeOK, \A n \in Nodes : On(n)' \subseteq On(n),
         loop' = loop \/ loop'.pc # "chosen"
  PROVE  Room'
<1>1. ASSUME NEW n \in Nodes PROVE Load(On(n)') <= Load(On(n)) /\ Load(On(n)) <= Cap[n]
  BY LoadOk DEF Room
<1>2. ASSUME NEW n \in Nodes PROVE Load(On(n)') <= Cap[n]
  BY <1>1, LoadsAreInt, SchedulerAssumption
<1>3. ASSUME NEW n \in Nodes, NEW p \in Pods, loop' = [pc |-> "chosen", pod |-> p, node |-> n]
      PROVE  Load(On(n)' \cup {p}) <= Cap[n]
  <2> DEFINE S == On(n)' \cup {p}
             T == On(n) \cup {p}
  <2>1. S \subseteq T
    OBVIOUS
  <2>2. Load(T) <= Cap[n]
    BY <1>3 DEF Room
  <2> HIDE DEF S, T
  <2>3. Load(S) <= Load(T) /\ Load(S) \in Nat /\ Load(T) \in Nat /\ Cap[n] \in Nat
    BY <2>1, LoadOk, LoadsAreInt, SchedulerAssumption
  <2>4. Load(S) <= Cap[n]
    BY <2>2, <2>3
  <2> QED
    BY <2>4 DEF S
<1> QED
  BY <1>2, <1>3 DEF Room

\* A pod that is bound was charged to its node before.
LEMMA PodStepSteady ==
  ASSUME PlacesInv, SteadyParts, NEW p \in Pods, NEW a \in ApiStates, NEW b \in ApiStates,
         NEW t \in BOOLEAN, PodStep(p, a, b, t)
  PROVE  SteadyParts'
<1>1. SchedulerInv /\ TypeOK /\ toCache \in Seq(PodCalls)
  BY DEF PlacesInv, SchedulerInv, TypeOK
<1>2. StepTells(p, a, b)
  BY <1>1, PodStepNames
<1>3. /\ UNCHANGED <<cache, gap, nodes, toNodes, loop>> /\ binds' \subseteq binds
      /\ Lives(p, api[p], b) /\ a \in {api[p], seen.pods[p]}
      /\ \/ gap /\ UNCHANGED <<seen, toCache>>
         \/ /\ a = seen.pods[p] \/ ~gap
            /\ seen' = [seen EXCEPT !.pods[p] = b]
            /\ toCache' = toCache \o CacheCall(p, a, b, t)
  BY DEF PodStep, Told
<1>4. \A q \in Pods, n \in Nodes : Named(q, n)' => Named(q, n) \/ cache.state[q] = n
  BY <1>2 DEF StepTells
<1>5. Whole(cache)'
  BY <1>3 DEF SteadyParts, Whole
<1>6. NodesCurrent'
  <2>1. seen'.nodes = seen.nodes
    BY <1>1, <1>3 DEF TypeOK
  <2> QED
    BY <1>3, <2>1 DEF SteadyParts, NodesCurrent
<1>7. SeenIsCached'
  <2>1. CASE UNCHANGED <<seen, toCache>>
    BY <1>3, <2>1 DEF SteadyParts, SeenIsCached
  <2>2. CASE /\ a = seen.pods[p] \/ ~gap
             /\ seen' = [seen EXCEPT !.pods[p] = b]
             /\ toCache' = toCache \o CacheCall(p, a, b, t)
    <3>1. \A q \in Pods : seen'.pods[q] = IF q = p THEN b ELSE seen.pods[q]
      BY <1>1, <2>2 DEF TypeOK
    <3>2. /\ Range(toCache) \subseteq Range(toCache')
          /\ b \in Nodes /\ a \notin Nodes =>
               \E e \in Range(toCache') : e.op = "add" /\ e.pod = p
      <4>1. CASE CacheCall(p, a, b, t) = <<>> /\ ~(b \in Nodes /\ a \notin Nodes)
        <5>1. toCache' = toCache
          BY <1>1, <2>2, <4>1
        <5> QED
          BY <4>1, <5>1
      <4>2. CASE \E e \in PodCalls :
                   /\ CacheCall(p, a, b, t) = <<e>> /\ e.pod = p
                   /\ b \in Nodes /\ a \notin Nodes => e.op = "add"
        <5> PICK e \in PodCalls : /\ CacheCall(p, a, b, t) = <<e>> /\ e.pod = p
                                  /\ b \in Nodes /\ a \notin Nodes => e.op = "add"
          BY <4>2
        <5>1. toCache' = toCache \o <<e>>
          BY <2>2
        <5>2. Range(toCache') = Range(toCache) \cup {e}
          BY <1>1, <5>1, AppendOne
        <5> QED
          BY <5>2
      <4> QED
        BY <4>1, <4>2, CacheCallIs
    <3>3. b \in Nodes /\ a \in Nodes => seen.pods[p] = b
      <4> SUFFICES ASSUME b \in Nodes, a \in Nodes PROVE seen.pods[p] = b
        OBVIOUS
      <4>1. Named(p, a) /\ api[p] \notin {"absent", "pending"}
        BY <1>1, <1>3 DEF Named, SchedulerInv, OneHome
      <4>2. b \notin {"absent", "pending", "gone"}
        BY SchedulerAssumption
      <4>3. api[p] = b
        BY <4>1, <4>2 DEF Lives, PodStep
      <4>4. a = b
        BY <1>1, <4>1, <4>3 DEF Named, SchedulerInv, OneHome
      <4>5. ~gap => seen.pods[p] = b
        BY <4>2, <4>3 DEF PlacesInv, WatchCurrent, Missed, Exists
      <4> QED
        BY <2>2, <4>4, <4>5
    <3> SUFFICES ASSUME NEW q \in Pods, seen'.pods[q] \in Nodes
                 PROVE  \/ cache'.state[q] = seen'.pods[q]
                        \/ \E e \in Range(toCache') : e.op = "add" /\ e.pod = q
      BY DEF SeenIsCached
    <3>4. seen.pods[q] \in Nodes => \/ cache.state[q] = seen.pods[q]
                                   \/ \E e \in Range(toCache') : e.op = "add" /\ e.pod = q
      BY <3>2 DEF SteadyParts, SeenIsCached
    <3> QED
      BY <1>3, <3>1, <3>2, <3>3, <3>4
  <2> QED
    BY <1>3, <2>1, <2>2
<1>8. Waited'
  <2>1. CASE loop.pc = "off"
    BY <1>3, <2>1 DEF SteadyParts, Waited
  <2>2. CASE loop.pc # "off"
    BY <1>3, <1>4, <2>2 DEF SteadyParts, Waited
  <2> QED
    BY <2>1, <2>2
<1>9. Room'
  <2>1. \A n \in Nodes : On(n)' \subseteq On(n)
    BY <1>3, <1>4 DEF On
  <2> QED
    BY <1>1, <1>3, <2>1, RoomKept DEF SteadyParts
<1> QED
  BY <1>5, <1>6, <1>7, <1>8, <1>9 DEF SteadyParts

\* The steps that leave the pods alone, but for the nodes and the loop.
LEMMA SameSteady ==
  ASSUME PlacesInv, SteadyParts, SameStep
  PROVE  /\ SeenIsCached' /\ \A n \in Nodes : On(n)' \subseteq On(n)
         /\ loop' = loop \/ (loop.pc # "off" /\ loop'.pc # "off") => Waited'
<1>1. \A p \in Pods, n \in Nodes : Named(p, n)' <=> Named(p, n)
  BY SameNames
<1>2. /\ seen'.pods = seen.pods /\ toCache' = toCache /\ cache'.state = cache.state
      /\ cache'.assumed = cache.assumed /\ binds' \subseteq binds
  BY DEF SameStep, Same
<1>3. SeenIsCached'
  BY <1>2 DEF SteadyParts, SeenIsCached
<1>4. \A n \in Nodes : On(n)' \subseteq On(n)
  BY <1>1, <1>2 DEF On
<1>5. ASSUME loop' = loop \/ (loop.pc # "off" /\ loop'.pc # "off") PROVE Waited'
  BY <1>1, <1>2, <1>5 DEF SteadyParts, Waited
<1> QED
  BY <1>3, <1>4, <1>5

\* A node that joins, or is seen again, is on its way to the cache.
LEMMA NodeActionSteady ==
  ASSUME PlacesInv, SteadyParts, NodeAction, ~\E n \in Nodes : TakeNodeAway(n)
  PROVE  SteadyParts'
<1>1. SameStep /\ UNCHANGED <<cache, loop>>
  BY NodeActionsSame DEF PlacesInv, NodeAction, AddNode, TouchNode, TakeNodeAway, CatchUpNode,
     LoseWatch, Watch, inside
<1>2. /\ seen \in [pods : [Pods -> ApiStates], nodes : SUBSET Nodes]
      /\ toNodes \in Seq(NodeCalls) /\ TypeOK
  BY DEF PlacesInv, SchedulerInv, TypeOK
<1>3. ASSUME NEW n \in Nodes, toNodes' = toNodes \o NodeCall("set", n)
      PROVE  /\ \A e \in Range(toNodes') : e.op = "set"
             /\ {e.node : e \in Range(toNodes')} = {e.node : e \in Range(toNodes)} \cup {n}
  <2> DEFINE x == [op |-> "set", node |-> n]
  <2>1. x \in NodeCalls /\ toNodes' = toNodes \o <<x>>
    BY <1>3 DEF NodeCall, NodeCalls
  <2> HIDE DEF x
  <2>2. Range(toNodes') = Range(toNodes) \cup {x}
    BY <1>2, <2>1, AppendOne
  <2>3. x.op = "set" /\ x.node = n
    BY DEF x
  <2>4. \A e \in Range(toNodes') : e.op = "set"
    BY <2>2, <2>3 DEF SteadyParts, NodesCurrent
  <2>5. {e.node : e \in Range(toNodes')} = {e.node : e \in Range(toNodes)} \cup {n}
    BY <2>2, <2>3
  <2> QED
    BY <2>4, <2>5
<1>4. NodesCurrent'
  <2> USE DEF SteadyParts, NodesCurrent
  <2>1. CASE \E n \in Nodes : AddNode(n)
    <3> PICK n \in Nodes : AddNode(n)
      BY <2>1
    <3>1. nodes' = nodes \cup {n} /\ gap' = gap /\ NotifyNode("set", n, nodes')
      BY DEF AddNode
    <3>2. CASE gap
      BY <1>1, <3>1, <3>2 DEF NotifyNode
    <3>3. CASE ~gap
      <4>1. seen' = [seen EXCEPT !.nodes = nodes'] /\ toNodes' = toNodes \o NodeCall("set", n)
        BY <3>1, <3>3 DEF NotifyNode
      <4>2. seen'.nodes = nodes' /\ seen.nodes = nodes
        BY <1>2, <3>3, <4>1
      <4> QED
        BY <1>1, <1>3, <3>1, <4>1, <4>2
    <3> QED
      BY <3>2, <3>3
  <2>2. CASE \E n \in Nodes : TouchNode(n)
    <3> PICK n \in Nodes : TouchNode(n)
      BY <2>2
    <3>1. nodes' = nodes /\ n \in nodes /\ gap' = gap /\ NotifyNode("set", n, nodes)
      BY DEF TouchNode
    <3>2. CASE gap
      BY <1>1, <3>1, <3>2 DEF NotifyNode
    <3>3. CASE ~gap
      <4>1. seen' = [seen EXCEPT !.nodes = nodes] /\ toNodes' = toNodes \o NodeCall("set", n)
        BY <3>1, <3>3 DEF NotifyNode
      <4>2. seen'.nodes = nodes /\ seen.nodes = nodes
        BY <1>2, <3>3, <4>1
      <4> QED
        BY <1>1, <1>3, <3>1, <4>1, <4>2
    <3> QED
      BY <3>2, <3>3
  <2>3. CASE \E n \in Nodes : CatchUpNode(n)
    <3> PICK n \in Nodes : CatchUpNode(n)
      BY <2>3
    <3>1. /\ nodes' = nodes /\ gap' = gap /\ gap /\ n \in nodes
          /\ seen' = [seen EXCEPT !.nodes = @ \cup {n}]
          /\ toNodes' = toNodes \o NodeCall("set", n)
      BY DEF CatchUpNode
    <3>2. seen'.nodes = seen.nodes \cup {n}
      BY <1>2, <3>1
    <3> QED
      BY <1>1, <1>3, <3>1, <3>2
  <2>4. CASE LoseWatch
    BY <1>1, <2>4 DEF LoseWatch, listeners
  <2>5. CASE Watch
    BY <1>1, <2>5 DEF Watch, listeners
  <2> QED
    BY <2>1, <2>2, <2>3, <2>4, <2>5 DEF NodeAction
<1>5. SeenIsCached' /\ Waited' /\ \A n \in Nodes : On(n)' \subseteq On(n)
  BY <1>1, SameSteady
<1>6. Room'
  BY <1>1, <1>2, <1>5, RoomKept DEF SteadyParts
<1> QED
  BY <1>1, <1>4, <1>5, <1>6 DEF SteadyParts, Whole

\* A handled node call takes its node into the cache.
LEMMA NodeHandlerSteady ==
  ASSUME PlacesInv, SteadyParts, NodeHandler
  PROVE  SteadyParts'
<1> DEFINE e == Head(toNodes)
<1>1. /\ SameStep /\ UNCHANGED <<seen, nodes, gap, loop>> /\ toNodes' = Tail(toNodes)
      /\ toNodes \in Seq(NodeCalls) /\ toNodes # <<>> /\ TypeOK
      /\ cache' = IF e.op = "set" THEN SetNode(cache, e.node) ELSE RemoveNode(cache, e.node)
  BY NodeHandlerSame DEF PlacesInv, SchedulerInv, TypeOK, NodeHandler, cluster
<1>2. Range(toNodes) = {e} \cup Range(toNodes') /\ e \in NodeCalls
  BY <1>1, TailOf, TailRange
<1> HIDE DEF e
<1>3. e.op = "set" /\ e.node \in Nodes
  BY <1>2 DEF SteadyParts, NodesCurrent, NodeCalls
<1>4. Whole(cache') /\ cache'.real = cache.real \cup {e.node}
  BY <1>1, <1>3, ChargedNow, SetNodeWhole DEF SteadyParts, PlacesInv
<1>5. NodesCurrent'
  BY <1>1, <1>2, <1>4 DEF SteadyParts, NodesCurrent
<1>6. SeenIsCached' /\ Waited' /\ \A n \in Nodes : On(n)' \subseteq On(n)
  BY <1>1, SameSteady
<1>7. Room'
  BY <1>1, <1>6, RoomKept DEF SteadyParts
<1> QED
  BY <1>4, <1>5, <1>6, <1>7 DEF SteadyParts

\* Steps that change neither the nodes nor the cache.
LEMMA QueueActionSteady ==
  ASSUME PlacesInv, SteadyParts, QueueHandler \/ QueueUpdate
  PROVE  SteadyParts'
<1>1. SameStep /\ UNCHANGED <<cache, loop, seen, nodes, gap, toNodes>> /\ TypeOK
  BY QueueActionsSame DEF PlacesInv, SchedulerInv, QueueHandler, QueueUpdate, cluster
<1>2. SeenIsCached' /\ Waited' /\ \A n \in Nodes : On(n)' \subseteq On(n)
  BY <1>1, SameSteady
<1>3. Room'
  BY <1>1, <1>2, RoomKept DEF SteadyParts
<1> QED
  BY <1>1, <1>2, <1>3 DEF SteadyParts, Whole, NodesCurrent

\* What the cache charges to a node is what its pods request.
LEMMA RequestedIsLoad ==
  ASSUME PlacesInv, Whole(cache), NEW n \in Nodes
  PROVE  Requested(cache, n) = Load({p \in Pods : cache.state[p] = n})
<1> DEFINE f == [p \in Pods |-> cache.count[n][p] * Req[p]]
           S == {p \in Pods : cache.state[p] = n}
<1>1. ASSUME NEW p \in Pods PROVE f[p] = Weight(S)[p]
  <2>0. cache \in Caches /\ ChargedOnce
    BY DEF PlacesInv, SchedulerInv, TypeOK
  <2>1. /\ cache.count[n][p] \in Nat /\ Req[p] \in Nat
        /\ cache.count[n][p] <= (IF cache.state[p] = n /\ n \in cache.infos THEN 1 ELSE 0)
    BY <2>0, SchedulerAssumption DEF ChargedOnce, Caches
  <2>2. CASE cache.state[p] = n
    <3>1. cache.count[n][p] = 1
      BY <2>2, CacheAssumption DEF Whole
    <3> QED
      BY <2>1, <2>2, <3>1 DEF Weight
  <2>3. CASE cache.state[p] # n
    <3>1. cache.count[n][p] = 0
      BY <2>1, <2>3
    <3> QED
      BY <2>1, <2>3, <3>1 DEF Weight
  <2> QED
    BY <2>2, <2>3
<1>2. f = Weight(S)
  <2>1. f = [p \in Pods |-> f[p]] /\ Weight(S) = [p \in Pods |-> Weight(S)[p]]
    BY DEF Weight
  <2> HIDE DEF f
  <2> QED
    BY <1>1, <2>1
<1>3. Requested(cache, n) = SumFunctionOnSet(f, Pods)
  BY DEF Requested
<1> HIDE DEF f, S
<1>4. Requested(cache, n) = Load(S)
  BY <1>2, <1>3 DEF Load
<1> QED
  BY <1>4 DEF S

\* A pod is placed where it fits beside all the pods the system knows of.
LEMMA SchedulePodSteady ==
  ASSUME PlacesInv, SteadyParts, SchedulePod
  PROVE  Room'
<1>1. /\ SameStep /\ TypeOK /\ loop.pc = "picked" /\ loop.pod \in Pods /\ cache' = cache
      /\ \/ loop' = Idle
         \/ \E n \in Nodes : /\ Fits(cache, loop.pod, n)
                             /\ loop' = [loop EXCEPT !.pc = "chosen", !.node = n]
  BY LoopActionsSame DEF PlacesInv, SchedulerInv, TypeOK, SchedulePod, LoopAction
<1>2. \A n \in Nodes : On(n)' \subseteq On(n)
  BY <1>1, SameSteady
<1>3. CASE loop' = Idle
  <2>1. loop'.pc # "chosen"
    BY <1>3 DEF Idle
  <2> QED
    BY <1>1, <1>2, <2>1, RoomKept DEF SteadyParts
<1>4. ASSUME NEW n \in Nodes, Fits(cache, loop.pod, n),
             loop' = [loop EXCEPT !.pc = "chosen", !.node = n]
      PROVE  Room'
  <2>1. loop' = [pc |-> "chosen", pod |-> loop.pod, node |-> n]
    BY <1>1, <1>4 DEF TypeOK
  <2>2. On(n) = {p \in Pods : cache.state[p] = n}
    BY <1>1 DEF SteadyParts, Waited, On
  <2>3. Requested(cache, n) = Load(On(n)) /\ Req[loop.pod] <= Cap[n] - Requested(cache, n)
    BY <1>4, <2>2, RequestedIsLoad DEF SteadyParts, Fits
  <2>4. /\ Load(On(n)) \in Nat /\ Load(On(n) \cup {loop.pod}) \in Nat
        /\ Req[loop.pod] \in Nat /\ Cap[n] \in Nat
        /\ Load(On(n) \cup {loop.pod}) <= Load(On(n)) + Req[loop.pod]
    BY <1>1, LoadIsNat, SchedulerAssumption
  <2>5. Load(On(n) \cup {loop.pod}) <= Cap[n]
    BY <2>3, <2>4
  <2>6. ASSUME NEW m \in Nodes PROVE Load(On(m)') <= Cap[m]
    <3>1. Load(On(m)') <= Load(On(m)) /\ Load(On(m)) <= Cap[m]
      BY <1>2, LoadOk DEF SteadyParts, Room
    <3> QED
      BY <3>1, LoadsAreInt, SchedulerAssumption
  <2>7. ASSUME NEW p \in Pods, p = loop.pod
        PROVE  Load(On(n)' \cup {p}) <= Cap[n]
    <3> DEFINE S == On(n)' \cup {p}
               T == On(n) \cup {p}
    <3>1. S \subseteq T
      BY <1>2
    <3>2. Load(T) <= Cap[n]
      BY <2>5, <2>7
    <3> HIDE DEF S, T
    <3>3. Load(S) <= Load(T) /\ Load(S) \in Nat /\ Load(T) \in Nat /\ Cap[n] \in Nat
      BY <3>1, LoadOk, LoadsAreInt, SchedulerAssumption
    <3>4. Load(S) <= Cap[n]
      BY <3>2, <3>3
    <3> QED
      BY <3>4 DEF S
  <2>8. ASSUME NEW m \in Nodes, NEW p \in Pods, loop' = [pc |-> "chosen", pod |-> p, node |-> m]
        PROVE  Load(On(m)' \cup {p}) <= Cap[m]
    <3>1. m = n /\ p = loop.pod
      BY <2>1, <2>8
    <3> QED
      BY <2>7, <3>1
  <2> QED
    BY <2>6, <2>8 DEF Room
<1> QED
  BY <1>1, <1>3, <1>4

\* A loop that starts as it should finds every bound pod in the cache.
LEMMA StartWaited ==
  ASSUME PlacesInv, SteadyParts, Start, Synced
  PROVE  Waited'
<1>1. /\ UNCHANGED <<api, seen, toCache, cache>> /\ loop' = Idle
      /\ ~gap /\ toCache = <<>>
  BY DEF Start, Synced, cluster, listeners
<1>2. Range(toCache) = {}
  BY <1>1 DEF Range
<1>3. ASSUME NEW p \in Pods, NEW n \in Nodes, Named(p, n)
      PROVE  cache.state[p] = n
  <2>1. \A m \in Nodes : m \notin {"absent", "gone"}
    BY SchedulerAssumption
  <2>2. api[p] = n => seen.pods[p] = n
    BY <1>1, <2>1 DEF PlacesInv, WatchCurrent, Missed, Exists
  <2>3. seen.pods[p] = n => cache.state[p] = n
    BY <1>2 DEF SteadyParts, SeenIsCached
  <2> QED
    BY <1>2, <1>3, <2>2, <2>3 DEF Named
<1>4. \A p \in Pods, n \in Nodes : Named(p, n)' => Named(p, n)
  BY <1>1 DEF Named
<1>5. loop'.pc # "off"
  BY <1>1 DEF Idle
<1> QED
  BY <1>1, <1>3, <1>4, <1>5 DEF Waited

\* The loop starts synced, and chooses only nodes with room.
LEMMA LoopActionSteady ==
  ASSUME PlacesInv, SteadyParts, LoopAction, Start => Synced
  PROVE  SteadyParts'
<1>1. SameStep /\ TypeOK
  BY LoopActionsSame DEF PlacesInv, SchedulerInv
<1>2. UNCHANGED <<cache, nodes, gap, seen, toNodes>>
  BY DEF LoopAction, Start, Pop, SchedulePod, BindFails, cluster, listeners
<1>3. SeenIsCached' /\ \A n \in Nodes : On(n)' \subseteq On(n)
  BY <1>1, SameSteady
<1>4. Waited' /\ Room'
  <2>1. CASE Start
    <3>1. loop'.pc # "chosen"
      BY <2>1 DEF Start, Idle
    <3> QED
      BY <1>1, <1>3, <2>1, <3>1, StartWaited, RoomKept DEF SteadyParts
  <2>2. CASE \E p \in Pods : Pop(p)
    <3>1. loop.pc # "off" /\ loop'.pc # "off" /\ loop'.pc # "chosen"
      BY <2>2 DEF Pop
    <3>2. Waited'
      BY <1>1, <3>1, SameSteady
    <3>3. Room'
      BY <1>1, <1>3, <3>1, RoomKept DEF SteadyParts
    <3> QED
      BY <3>2, <3>3
  <2>3. CASE SchedulePod
    <3>1. loop.pc = "picked" /\ loop \in [pc : {"picked"}, pod : Pods, node : {NoNode}]
      BY <1>1, <2>3 DEF SchedulePod, TypeOK
    <3>2. \/ loop' = Idle
          \/ \E n \in Nodes : loop' = [loop EXCEPT !.pc = "chosen", !.node = n]
      BY <2>3 DEF SchedulePod
    <3>3. ASSUME NEW n \in Nodes, loop' = [loop EXCEPT !.pc = "chosen", !.node = n]
          PROVE  loop'.pc = "chosen"
      <4>1. loop' = [pc |-> "chosen", pod |-> loop.pod, node |-> n]
        BY <3>1, <3>3
      <4> QED
        BY <4>1
    <3>4. loop' = Idle => loop'.pc = "idle"
      BY DEF Idle
    <3>5. loop'.pc \in {"idle", "chosen"}
      BY <3>2, <3>3, <3>4
    <3>6. loop.pc # "off" /\ loop'.pc # "off"
      BY <3>1, <3>5
    <3> QED
      BY <1>1, <2>3, <3>6, SameSteady, SchedulePodSteady
  <2>4. CASE \E d \in binds : BindFails(d)
    <3>1. loop' = loop
      BY <2>4 DEF BindFails
    <3> QED
      BY <1>1, <1>3, <3>1, SameSteady, RoomKept DEF SteadyParts
  <2> QED
    BY <2>1, <2>2, <2>3, <2>4 DEF LoopAction
<1> QED
  BY <1>2, <1>3, <1>4 DEF SteadyParts, Whole, NodesCurrent

\* A pod call brings the cache nearer to the store.
LEMMA CacheHandlerSteady ==
  ASSUME PlacesInv, SteadyParts, CacheHandler
  PROVE  SteadyParts'
<1> DEFINE e == Head(toCache)
           p == e.pod
<1>1. /\ SchedulerInv /\ TypeOK /\ Charged(cache) /\ InsideStep /\ HandledCall
      /\ cache.state \in [Pods -> Nodes \cup {NoNode}] /\ NoNode \notin Nodes
  BY CacheHandlerInside, ChargedNow, CacheAssumption DEF PlacesInv, SchedulerInv, Charged, Caches
<1>2. /\ toCache \in Seq(PodCalls) /\ toCache # <<>> /\ toCache' = Tail(toCache)
      /\ UNCHANGED <<api, seen, nodes, gap, toNodes, loop, binds>>
      /\ cache' = CASE e.op = "add"    -> AddPod(cache, p, e.node)
                    [] e.op = "update" -> UpdatePod(cache, p, e.node, e.node)
                    [] e.op = "remove" -> RemovePod(cache, p, e.node)
  BY <1>1 DEF TypeOK, CacheHandler, cluster
<1>3. /\ Range(toCache) = {e} \cup Range(toCache')
      /\ 1 \in DOMAIN toCache /\ toCache[1] = e
  BY <1>2, TailOf
<1>4. /\ p \in Pods /\ e.node \in Nodes \cup {NoNode} /\ e.op \in {"add", "update", "remove"}
      /\ e.op # "remove" => e.node \in Nodes
      /\ \A n \in Nodes : e.node = n => Named(p, n)
  BY <1>1 DEF HandledCall, PodCalls
<1>5. e.op = "remove" => seen.pods[p] = "gone"
  BY <1>3 DEF PlacesInv, RemovalsLast
<1>6. ASSUME NEW q \in Pods, NEW n \in Nodes,
             e.op = "remove", q = p, cache'.state[q] = NoNode
      PROVE  ~Named(q, n)'
  BY <1>6, RemovedIsForgotten
<1> HIDE DEF e, p
<1>7. e.node \in Nodes => cache.state[p] \in {e.node, NoNode}
  BY <1>4 DEF PlacesInv, Homes
<1>8. \/ Put(cache, cache', p, e.node) /\ e.op = "add"
      \/ Put(cache, cache', p, cache.state[p]) /\ e.op = "update"
      \/ Put(cache, cache', p, NoNode) /\ e.op = "remove"
  <2>1. Whole(cache)
    BY DEF SteadyParts
  <2>2. CASE e.op = "add"
    <3>1. cache' = AddPod(cache, p, e.node)
      BY <1>2, <2>2
    <3> QED
      BY <1>1, <1>4, <1>7, <2>1, <2>2, <3>1, AddPodWhole
  <2>3. CASE e.op = "update"
    <3>1. cache' = UpdatePod(cache, p, e.node, e.node)
      BY <1>2, <2>3
    <3> QED
      BY <1>1, <1>4, <1>7, <2>1, <2>3, <3>1, UpdatePodWhole
  <2>4. CASE e.op = "remove"
    <3>1. cache' = RemovePod(cache, p, e.node)
      BY <1>2, <2>4
    <3> QED
      BY <1>1, <1>4, <1>7, <2>1, <2>4, <3>1, RemovePodWhole
  <2> QED
    BY <1>4, <2>2, <2>3, <2>4
<1>9. /\ Whole(cache)' /\ cache'.real = cache.real /\ cache'.assumed \subseteq cache.assumed
      /\ \A q \in Pods : q # p => cache'.state[q] = cache.state[q]
      /\ \/ cache'.state[p] = e.node /\ e.op = "add"
         \/ cache'.state[p] = cache.state[p] /\ e.op = "update"
         \/ cache'.state[p] = NoNode /\ e.op = "remove"
  BY <1>1, <1>4, <1>8 DEF Put
<1>10. NodesCurrent'
  BY <1>2, <1>9 DEF SteadyParts, NodesCurrent
<1>11. \A q \in Pods, n \in Nodes : Named(q, n)' => Named(q, n)
  BY <1>1, InsideNames
<1>12. \A m, n \in Nodes : Named(p, m) /\ Named(p, n) => m = n
  BY <1>1, <1>4 DEF SchedulerInv, OneHome
<1>13. SeenIsCached'
  <2> SUFFICES ASSUME NEW q \in Pods, seen.pods[q] \in Nodes
               PROVE  \/ cache'.state[q] = seen.pods[q]
                      \/ \E k \in Range(toCache') : k.op = "add" /\ k.pod = q
    BY <1>2 DEF SeenIsCached
  <2>1. \/ cache.state[q] = seen.pods[q]
        \/ \E k \in Range(toCache) : k.op = "add" /\ k.pod = q
    BY DEF SteadyParts, SeenIsCached
  <2>2. CASE q # p
    BY <1>3, <1>9, <2>1, <2>2 DEF p
  <2>3. CASE q = p /\ e.op = "add"
    <3>1. Named(p, seen.pods[q]) /\ Named(p, e.node) /\ e.node \in Nodes
      BY <1>4, <2>3 DEF Named
    <3> QED
      BY <1>9, <1>12, <2>3, <3>1
  <2>4. CASE q = p /\ e.op = "update"
    BY <1>3, <1>9, <2>1, <2>4
  <2>5. CASE q = p /\ e.op = "remove"
    BY <1>5, <2>5, SchedulerAssumption
  <2> QED
    BY <1>4, <2>2, <2>3, <2>4, <2>5
<1>14. Waited'
  <2>1. CASE loop.pc = "off"
    BY <1>2, <1>9, <2>1 DEF SteadyParts, Waited
  <2>2. CASE loop.pc # "off"
    <3> SUFFICES ASSUME NEW q \in Pods, NEW n \in Nodes, Named(q, n)'
                 PROVE  cache'.state[q] = n
      BY <1>2, <2>2 DEF Waited
    <3>1. Named(q, n) /\ cache.state[q] = n
      BY <1>11, <2>2 DEF SteadyParts, Waited
    <3>2. CASE q # p \/ e.op = "update"
      BY <1>4, <1>9, <3>1, <3>2
    <3>3. CASE q = p /\ e.op = "add"
      BY <1>4, <1>9, <1>12, <3>1, <3>3
    <3>4. CASE q = p /\ e.op = "remove"
      BY <1>6, <1>9, <3>4
    <3> QED
      BY <1>4, <3>2, <3>3, <3>4
  <2> QED
    BY <2>1, <2>2
<1>15. Room'
  <2>1. ASSUME NEW n \in Nodes, NEW q \in Pods, cache'.state[q] = n
        PROVE  Named(q, n) \/ cache.state[q] = n
    BY <1>1, <1>4, <1>9, <2>1
  <2>2. \A n \in Nodes : On(n)' \subseteq On(n)
    BY <1>11, <2>1 DEF On
  <2> QED
    BY <1>1, <1>2, <2>2, RoomKept DEF SteadyParts
<1> QED
  BY <1>9, <1>10, <1>13, <1>14, <1>15 DEF SteadyParts

\* A pod is assumed where it was found to fit, whatever has left since.
LEMMA AssumeSteady ==
  ASSUME PlacesInv, SteadyParts, Assume
  PROVE  SteadyParts'
<1>1. /\ UNCHANGED <<api, nodes, gap, seen, toCache, toNodes>> /\ TypeOK
      /\ loop.pc = "chosen" /\ loop' = Idle /\ loop'.pc = "idle" /\ Charged(cache)
      /\ cache.state \in [Pods -> Nodes \cup {NoNode}] /\ NoNode \notin Nodes
  BY ChargedNow, CacheAssumption DEF PlacesInv, SchedulerInv, Assume, Idle, cluster, listeners,
     Charged, Caches
<1>2. PICK p \in Pods, n \in Nodes : loop = [pc |-> "chosen", pod |-> p, node |-> n]
  BY <1>1 DEF TypeOK
<1>3. /\ \A q \in Pods, m \in Nodes : Named(q, m)' => Named(q, m)
      /\ MayAssume(cache, p) => \A m \in Nodes : ~Named(p, m)
      /\ cache'.state = IF MayAssume(cache, p) THEN [cache.state EXCEPT ![p] = n] ELSE cache.state
  BY <1>2, AssumeNames
<1>4. Whole(cache') /\ cache'.real = cache.real
  <2>1. cache' = AssumePod(cache, p, n) /\ Whole(cache)
    BY <1>2 DEF Assume, SteadyParts
  <2> QED
    BY <1>1, <2>1, AssumePodWhole
<1>5. \A q \in Pods : \/ cache'.state[q] = cache.state[q]
                      \/ q = p /\ cache'.state[q] = n /\ \A m \in Nodes : ~Named(q, m)
  BY <1>1, <1>3
<1>6. NodesCurrent'
  BY <1>1, <1>4 DEF SteadyParts, NodesCurrent
<1>7. SeenIsCached'
  <2> SUFFICES ASSUME NEW q \in Pods, seen.pods[q] \in Nodes
               PROVE  \/ cache'.state[q] = seen.pods[q]
                      \/ \E k \in Range(toCache) : k.op = "add" /\ k.pod = q
    BY <1>1 DEF SeenIsCached
  <2>1. Named(q, seen.pods[q])
    BY DEF Named
  <2> QED
    BY <1>5, <2>1 DEF SteadyParts, SeenIsCached
<1>8. Waited'
  <2>1. \A q \in Pods, m \in Nodes : Named(q, m) => cache.state[q] = m
    BY <1>1 DEF SteadyParts, Waited
  <2>2. \A q \in Pods, m \in Nodes : Named(q, m)' => cache'.state[q] = m
    BY <1>3, <1>5, <2>1
  <2> QED
    BY <1>1, <2>2 DEF Waited
<1>9. Room'
  <2>1. \A m \in Nodes : On(m)' \subseteq On(m) \/ (m = n /\ On(m)' \subseteq On(m) \cup {p})
    BY <1>3, <1>5 DEF On
  <2>2. /\ \A m \in Nodes : Load(On(m)) <= Cap[m]
        /\ Load(On(n) \cup {p}) <= Cap[n]
    BY <1>2 DEF SteadyParts, Room
  <2>3. ASSUME NEW m \in Nodes PROVE Load(On(m)') <= Cap[m]
    <3>1. CASE On(m)' \subseteq On(m)
      <4>1. Load(On(m)') <= Load(On(m))
        BY <3>1, LoadOk
      <4> QED
        BY <2>2, <4>1, LoadsAreInt, SchedulerAssumption
    <3>2. CASE m = n /\ On(m)' \subseteq On(m) \cup {p}
      <4>1. Load(On(m)') <= Load(On(m) \cup {p}) /\ Load(On(m) \cup {p}) <= Cap[m]
        BY <2>2, <3>2, LoadOk
      <4> QED
        BY <4>1, LoadsAreInt, SchedulerAssumption
    <3> QED
      BY <2>1, <3>1, <3>2
  <2>4. \A m \in Nodes, q \in Pods : loop' # [pc |-> "chosen", pod |-> q, node |-> m]
    BY <1>1
  <2> QED
    BY <2>3, <2>4 DEF Room
<1> QED
  BY <1>4, <1>6, <1>7, <1>8, <1>9 DEF SteadyParts

\* What the steady system's actions leave out: a node that leaves, and an early start.
LEMMA SteadyBack ==
  ASSUME TypeOK, Next, Steady'
  PROVE  /\ Steady /\ ~\E n \in Nodes : TakeNodeAway(n)
         /\ Start => Synced
<1>1. budget \in [Kinds -> Nat] /\ Kinds = {"early", "update", "nodeAdd", "flap", "gap", "fail"}
  BY DEF TypeOK, Kinds
<1>2. ASSUME NEW k \in Kinds, NEW m, Spend(k, m)
      PROVE  Steady /\ k # "flap" /\ k # "early"
  <2>1. \A j \in Kinds : budget'[j] = IF j = k THEN budget[j] + 1 ELSE budget[j]
    BY <1>1, <1>2 DEF Spend
  <2>2. "early" \in Kinds /\ "flap" \in Kinds /\ \A j \in Kinds : budget[j] \in Nat
    BY <1>1
  <2>3. budget'["early"] = 0 /\ budget'["flap"] = 0
    BY DEF Steady
  <2> HIDE DEF Kinds
  <2>4. k # "flap" /\ k # "early"
    BY <2>1, <2>2, <2>3
  <2> QED
    BY <2>1, <2>2, <2>3, <2>4 DEF Steady
<1>3. budget' = budget => Steady
  BY DEF Steady
<1>4. ~\E n \in Nodes : TakeNodeAway(n)
  BY <1>1, <1>2 DEF TakeNodeAway
<1>5. Start => Synced
  BY <1>1, <1>2 DEF Start
<1>6. \/ budget' = budget \/ \E k \in Kinds : \E m : Spend(k, m)
  <2>1. CASE PodAction
    BY <1>1, <2>1 DEF PodAction, CreatePod, TouchPod, DeletePod, CatchUpPod, BindLands
  <2>2. CASE NodeAction
    BY <1>1, <2>2 DEF NodeAction, AddNode, TouchNode, TakeNodeAway, CatchUpNode, LoseWatch, Watch
  <2>3. CASE QueueHandler \/ QueueUpdate \/ NodeHandler \/ CacheHandler \/ Assume
    BY <2>3 DEF QueueHandler, QueueUpdate, NodeHandler, CacheHandler, Assume
  <2>4. CASE LoopAction
    BY <1>1, <2>4 DEF LoopAction, Start, Pop, SchedulePod, BindFails
  <2> QED
    BY <2>1, <2>2, <2>3, <2>4, NextSplits DEF QuietAction
<1> QED
  BY <1>2, <1>3, <1>4, <1>5, <1>6

\* A scheduler starts with an empty cache, and with a cluster that fits.
LEMMA InitSteady == Init => SteadyInv
<1> SUFFICES ASSUME Init PROVE SteadyInv
  OBVIOUS
<1>1. /\ toCache = <<>> /\ toNodes = <<>> /\ gap = TRUE /\ cache = EmptyCache /\ binds = {}
      /\ seen = [pods |-> [p \in Pods |-> "absent"], nodes |-> {}] /\ loop.pc = "off"
      /\ BoundFits
  BY DEF Init, Idle
<1>2. Range(<<>>) = {}
  BY DEF Range
<1>3. /\ \A n \in Nodes : n \notin {"absent", NoNode}
      /\ \A p \in Pods : seen.pods[p] = "absent" /\ cache.state[p] = NoNode
  BY <1>1, SchedulerAssumption, CacheAssumption DEF EmptyCache
<1>4. Whole(cache) /\ NodesCurrent /\ SeenIsCached /\ Waited
  BY <1>1, <1>2, <1>3 DEF Whole, NodesCurrent, SeenIsCached, Waited, EmptyCache
<1>5. Room
  <2>1. ASSUME NEW n \in Nodes PROVE Load(On(n)) <= Cap[n]
    <3> DEFINE S == {p \in Pods : api[p] = n}
    <3>1. Weight(S) = [p \in Pods |-> IF api[p] = n THEN Req[p] ELSE 0]
      BY DEF Weight
    <3>2. Load(S) <= Cap[n]
      BY <1>1, <3>1 DEF BoundFits, Load
    <3>3. On(n) \subseteq S
      BY <1>1, <1>2, <1>3 DEF On, Named
    <3> HIDE DEF S
    <3>4. Load(On(n)) <= Load(S) /\ Load(S) \in Nat /\ Load(On(n)) \in Nat /\ Cap[n] \in Nat
      BY <3>3, LoadOk, LoadsAreInt, SchedulerAssumption
    <3> QED
      BY <3>2, <3>4
  <2>2. loop.pc = "off"
    BY <1>1
  <2>3. \A n \in Nodes, p \in Pods : loop # [pc |-> "chosen", pod |-> p, node |-> n]
    BY <2>2
  <2> QED
    BY <2>1, <2>3 DEF Room
<1> QED
  BY <1>4, <1>5, InitPlaces DEF SteadyInv, SteadyParts

\* The invariant is inductive: every step of the steady system keeps it, and the system
\* that is not steady any more will never be again.
LEMMA NextSteady == SteadyInv /\ [Next]_vars => SteadyInv'
<1> SUFFICES ASSUME SteadyInv, [Next]_vars PROVE SteadyInv'
  OBVIOUS
<1>1. PlacesInv /\ PlacesInv' /\ SchedulerInv /\ TypeOK
  BY NextPlaces DEF SteadyInv, PlacesInv, SchedulerInv
<1>2. CASE UNCHANGED vars
  <2>1. UNCHANGED <<api, nodes, gap, seen, toCache, toNodes, cache, loop, binds, budget>>
    BY <1>2 DEF vars
  <2>2. Whole(cache)' <=> Whole(cache)
    BY <2>1 DEF Whole
  <2>3. /\ NodesCurrent' <=> NodesCurrent
        /\ SeenIsCached' <=> SeenIsCached
        /\ \A p \in Pods, n \in Nodes : Named(p, n)' <=> Named(p, n)
        /\ Steady' <=> Steady
    BY <2>1 DEF NodesCurrent, SeenIsCached, Named, Steady
  <2>4. (Waited' <=> Waited) /\ \A n \in Nodes : On(n)' = On(n)
    BY <2>1, <2>3 DEF Waited, On
  <2>5. Room => Room'
    BY <1>1, <2>1, <2>4, RoomKept
  <2> QED
    BY <1>1, <2>2, <2>3, <2>4, <2>5 DEF SteadyInv, SteadyParts
<1>3. ASSUME Next, Steady' PROVE SteadyParts'
  <2>1. Steady /\ ~(\E n \in Nodes : TakeNodeAway(n)) /\ (Start => Synced)
    BY <1>1, <1>3, SteadyBack
  <2>2. SteadyParts
    BY <2>1 DEF SteadyInv
  <2>3. CASE PodAction
    <3>1. PICK p \in Pods, a \in ApiStates, b \in ApiStates, t \in BOOLEAN : PodStep(p, a, b, t)
      BY <1>1, <2>3, PodActionSteps
    <3> QED
      BY <1>1, <2>2, <3>1, PodStepSteady
  <2>4. CASE NodeAction
    BY <1>1, <2>1, <2>2, <2>4, NodeActionSteady
  <2>5. CASE QueueHandler \/ QueueUpdate
    BY <1>1, <2>2, <2>5, QueueActionSteady
  <2>6. CASE NodeHandler
    BY <1>1, <2>2, <2>6, NodeHandlerSteady
  <2>7. CASE LoopAction
    BY <1>1, <2>1, <2>2, <2>7, LoopActionSteady
  <2>8. CASE CacheHandler
    BY <1>1, <2>2, <2>8, CacheHandlerSteady
  <2>9. CASE Assume
    BY <1>1, <2>2, <2>9, AssumeSteady
  <2> QED
    BY <1>3, <2>3, <2>4, <2>5, <2>6, <2>7, <2>8, <2>9, NextSplits DEF QuietAction
<1> QED
  BY <1>1, <1>2, <1>3 DEF SteadyInv

\* Hence it always holds.
LEMMA AlwaysSteady == Spec => []SteadyInv
BY InitSteady, NextSteady, PTL DEF Spec

\* The pods bound to a node are among those that take room on it.
LEMMA SteadyInvFits == SteadyInv => SteadyFits
<1> SUFFICES ASSUME SteadyParts, NEW n \in Nodes
             PROVE  SumFunctionOnSet([p \in Pods |-> IF api[p] = n THEN Req[p] ELSE 0], Pods)
                      <= Cap[n]
  BY DEF SteadyInv, SteadyFits, NoOvercommit, BoundFits
<1> DEFINE S == {p \in Pods : api[p] = n}
<1>1. Weight(S) = [p \in Pods |-> IF api[p] = n THEN Req[p] ELSE 0]
  BY DEF Weight
<1>2. S \subseteq On(n) /\ Load(On(n)) <= Cap[n]
  BY DEF On, Named, SteadyParts, Room
<1> HIDE DEF S
<1>3. Load(S) <= Load(On(n)) /\ Load(S) \in Nat /\ Load(On(n)) \in Nat /\ Cap[n] \in Nat
  BY <1>2, LoadOk, LoadsAreInt, SchedulerAssumption
<1>4. Load(S) <= Cap[n]
  BY <1>2, <1>3
<1> QED
  BY <1>1, <1>4 DEF Load

\* With no call left on its way, what the stores know is what the cache has.
LEMMA SteadyInvCurrent == SteadyInv => SteadyCacheIsCurrent
<1> SUFFICES ASSUME PlacesInv, SteadyParts, Quiet
             PROVE  /\ cache.real = nodes
                    /\ \A p \in Pods : api[p] \in nodes => cache.count[api[p]][p] = 1
  BY DEF SteadyInv, SteadyCacheIsCurrent, QuietCacheIsCurrent
<1>1. /\ ~gap /\ toCache = <<>> /\ toNodes = <<>> /\ nodes \subseteq Nodes
      /\ Range(<<>>) = {} /\ NoNode \notin Nodes
  BY CacheAssumption DEF Quiet, Synced, PlacesInv, SchedulerInv, TypeOK, Range
<1>2. cache.real = nodes
  BY <1>1 DEF SteadyParts, NodesCurrent
<1>3. ASSUME NEW p \in Pods, api[p] \in nodes PROVE cache.count[api[p]][p] = 1
  <2>1. api[p] \in Nodes /\ api[p] \notin {"absent", "gone"}
    BY <1>1, <1>3, SchedulerAssumption
  <2>2. seen.pods[p] = api[p]
    BY <1>1, <2>1 DEF PlacesInv, WatchCurrent, Missed, Exists
  <2>3. cache.state[p] = api[p]
    BY <1>1, <2>1, <2>2 DEF SteadyParts, SeenIsCached
  <2> QED
    BY <1>1, <2>1, <2>3 DEF SteadyParts, Whole
<1> QED
  BY <1>2, <1>3

\* While the loop waited for the first lists and no node has left, schedulePod never
\* binds a node beyond its capacity (schedule_one.go, NodeResourcesFit): the pods that
\* are bound, being bound or assumed all count in the NodeInfos it filters by, for any
\* delay between the listeners, any lost watch and any failing Bind.
THEOREM SchedulerSteadyFits == Spec => []SteadyFits
BY AlwaysSteady, SteadyInvFits, PTL

\* In the same system, when all notifications have been handled and no pod is on its way
\* through the loop, the cache has exactly the API server's nodes and charges every bound
\* pod to its node (eventhandler.go, cache.go).
THEOREM SchedulerSteadyCacheIsCurrent == Spec => []SteadyCacheIsCurrent
BY AlwaysSteady, SteadyInvCurrent, PTL

\* In the same system no method of the cache ends the process, by the FlushAndExit of
\* RemovePod (cache.go:303) or by the nil Node in the error of NodeInfo.RemovePod.
THEOREM SchedulerSteadyUp == Spec => []SteadyUp
<1>1. SteadyInv => SteadyUp
  BY DEF SteadyInv, SteadyUp, SteadyParts, Whole, NeverDown, Up
<1> QED
  BY <1>1, AlwaysSteady, PTL
=============================================================================
