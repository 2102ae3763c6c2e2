---------------------------- MODULE SchedulerCache ----------------------------
(***************************************************************************)
(* The scheduler's cache of the cluster                                    *)
(* (ai-storage-scheduler/internal/framework/utils/cache.go, nodeinfo.go):  *)
(* one record c, and one operator per method, each of which runs under     *)
(* cache.mu and is therefore a function from cache to cache:               *)
(*   c.infos    the node names that have a NodeInfo (cache.nodes)          *)
(*   c.real     those whose NodeInfo has a Node object behind it           *)
(*   c.count    c.count[n][p]: entries of p in the NodeInfo of n, each of  *)
(*              which adds p's requests to NodeInfo.Requested              *)
(*   c.state    c.state[p]: Spec.NodeName of podStates[p].pod, or NoNode   *)
(*   c.assumed  assumedPods                                                *)
(*   c.down     the process has died inside a method                       *)
(* Image states and GPU metrics hang off a NodeInfo and decide nothing     *)
(* here; bindingFinished (set by FinishBinding) is never read.             *)
(***************************************************************************)
EXTENDS Naturals

CONSTANTS Pods, Nodes, NoNode

ASSUME CacheAssumption == NoNode \notin Nodes

Caches == [infos : SUBSET Nodes, real : SUBSET Nodes,
           count : [Nodes -> [Pods -> Nat]],
           state : [Pods -> Nodes \cup {NoNode}],
           assumed : SUBSET Pods, down : BOOLEAN]

EmptyCache == [infos |-> {}, real |-> {},
               count |-> [n \in Nodes |-> [p \in Pods |-> 0]],
               state |-> [p \in Pods |-> NoNode],
               assumed |-> {}, down |-> FALSE]

\* removeNodeInfoFromList: the NodeInfo goes, with every pod it counted.
DropInfo(c, n) ==
  [c EXCEPT !.infos = @ \ {n}, !.real = @ \ {n}, !.count[n] = [p \in Pods |-> 0]]

-----------------------------------------------------------------------------
(* Nodes.                                                                  *)

\* AddNode, and UpdateNode: a NodeInfo is made if there is none, and gets the Node.
SetNode(c, n) == [c EXCEPT !.infos = @ \cup {n}, !.real = @ \cup {n}]

\* RemoveNode: the NodeInfo is dropped even when pods are still on it.  An absent
\* one is an error that changes nothing.
RemoveNode(c, n) == IF n \in c.infos THEN DropInfo(c, n) ELSE c

-----------------------------------------------------------------------------
(* Pods.                                                                   *)

\* addPod: a NodeInfo without a Node is made for a node the cache does not know.
AddToNode(c, p, n, assume) ==
  [c EXCEPT !.infos = @ \cup {n},
            !.count[n][p] = @ + 1,
            !.state[p] = n,
            !.assumed = IF assume THEN @ \cup {p} ELSE @]

\* How removePod of a pod recorded on node n ends.
\*   ok      the NodeInfo is unknown, or held the pod
\*   error   the NodeInfo does not hold the pod: nothing more happens
\*   panic   ... and it has no Node either, so that the error message of
\*           NodeInfo.RemovePod dereferences a nil pointer
RemoveResult(c, p, n) ==
  CASE n \notin c.infos \/ c.count[n][p] > 0 -> "ok"
    [] n \in c.real /\ c.count[n][p] = 0     -> "error"
    [] OTHER                                 -> "panic"

\* removePod when it succeeds: the pod leaves its NodeInfo, an empty NodeInfo without
\* a Node is dropped, and the pod is forgotten.
TakeOff(c, p, n) ==
  LET d == IF n \in c.infos THEN [c EXCEPT !.count[n][p] = @ - 1] ELSE c
      e == IF n \in c.infos \ c.real /\ \A q \in Pods : d.count[n][q] = 0
           THEN DropInfo(d, n) ELSE d
  IN [e EXCEPT !.state[p] = NoNode, !.assumed = @ \ {p}]

RemoveFromNode(c, p, n) ==
  CASE RemoveResult(c, p, n) = "ok"    -> TakeOff(c, p, n)
    [] RemoveResult(c, p, n) = "error" -> c
    [] OTHER                           -> [c EXCEPT !.down = TRUE]

\* Mutant: the pod is not put back.
MovePod_NoAdd(c, p, old, new) == RemoveFromNode(c, p, old)

\* updatePod: off the node of the old object, onto that of the new one; an error of
\* the first half ends it.
MovePod(c, p, old, new) ==
  IF RemoveResult(c, p, old) = "ok"
  THEN AddToNode(TakeOff(c, p, old), p, new, FALSE)
  ELSE RemoveFromNode(c, p, old)

\* AddPod: a bound pod appears.  An assumed one is confirmed (moved, if it was bound
\* elsewhere); one that was added before is an error.
AddPod(c, p, n) ==
  CASE c.state[p] # NoNode /\ p \in c.assumed -> MovePod(c, p, c.state[p], n)
    [] c.state[p] = NoNode                    -> AddToNode(c, p, n, FALSE)
    [] OTHER                                  -> c

\* UpdatePod: a bound pod changes.  An unknown or an assumed one is an error.
UpdatePod(c, p, old, new) ==
  IF c.state[p] # NoNode /\ p \notin c.assumed THEN MovePod(c, p, old, new) ELSE c

\* Mutant: the pod is taken off the node its last object names, not the one the
\* cache recorded.
RemovePod_ByObject(c, p, n) ==
  IF c.state[p] = NoNode THEN c
  ELSE IF n = NoNode THEN [c EXCEPT !.state[p] = NoNode, !.assumed = @ \ {p}]
  ELSE RemoveFromNode(c, p, n)

\* Mutant: an object that names no node is taken for corruption too.
RemovePod_Strict(c, p, n) ==
  CASE c.state[p] = NoNode          -> c
    [] c.state[p] \in Nodes \ {n}   -> [c EXCEPT !.down = TRUE]
    [] OTHER                        -> RemoveFromNode(c, p, c.state[p])

\* RemovePod: a pod is deleted; n is the node its last known object names.  A node
\* other than the recorded one is taken for corruption and ends the process.
RemovePod(c, p, n) ==
  CASE c.state[p] = NoNode             -> c
    [] c.state[p] \in Nodes \ {n} /\ n # NoNode -> [c EXCEPT !.down = TRUE]
    [] OTHER                           -> RemoveFromNode(c, p, c.state[p])

IsAssumedPod(c, p) == p \in c.assumed

\* Mutant: a pod already in the cache is assumed again.
MayAssume_Always(c, p) == TRUE

\* AssumePod refuses a pod that is in the cache.
MayAssume(c, p) == c.state[p] = NoNode

AssumePod(c, p, n) == IF MayAssume(c, p) THEN AddToNode(c, p, n, TRUE) ELSE c
=============================================================================
