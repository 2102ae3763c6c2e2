------------------------------ MODULE Nominator ------------------------------
(***************************************************************************)
(* The nominator of the scheduling queue                                   *)
(* (ai-storage-scheduler/internal/backend/queue/nominator.go): which node  *)
(* a pending pod has been promised.  It keeps the same fact twice:         *)
(*   nominatedPods       node name -> list of pod references               *)
(*   nominatedPodToNode  pod UID   -> node name                            *)
(* Every operation runs under nLock, so each is one action.  What varies   *)
(* between two operations is the pod lister (an informer store that the    *)
(* API server changes on its own) and the nominatedNodeName in the status  *)
(* of the pod object the caller holds.                                     *)
(***************************************************************************)
EXTENDS Naturals

CONSTANTS Pods,    \* pod UIDs
          Nodes,   \* node names
          NoNode,  \* the empty node name ""
          Unset    \* "the map has no such key"

ASSUME NominatorAssumption ==
  /\ NoNode \notin Nodes
  /\ Unset \notin Nodes \cup {NoNode}

Names == Nodes \cup {NoNode}

VARIABLES
  refs,    \* refs[n][p]: how many references to p the list nominatedPods[n] holds
  node,    \* node[p]: nominatedPodToNode[p], or Unset
  lister,  \* lister[p]: what podLister.Pods(ns).Get(name) says of p
  status   \* status[p]: Status.NominatedNodeName of the newest object of p

vars == <<refs, node, lister, status>>

Listed == {"missing", "unassigned", "assigned"}
Modes  == {"noop", "override"}

TypeOK ==
  /\ refs \in [Names -> [Pods -> Nat]]
  /\ node \in [Pods -> Names \cup {Unset}]
  /\ lister \in [Pods -> Listed]
  /\ status \in [Pods -> Names]

-----------------------------------------------------------------------------
(* The two maps as a pair, so that the unlocked helpers compose the way    *)
(* the methods call one another.                                           *)

\* Mutant: the reverse-map entry goes away, the reference in the list stays.
DeleteUnlocked_KeepsRef(m, p) ==
  [refs |-> m.refs, node |-> [m.node EXCEPT ![p] = Unset]]

\* deleteUnlocked: forget p, dropping the first reference found in the list of
\* the node the reverse map names.
DeleteUnlocked(m, p) ==
  LET n == m.node[p] IN
  IF n = Unset THEN m
  ELSE [refs |-> IF m.refs[n][p] = 0 THEN m.refs
                 ELSE [m.refs EXCEPT ![n][p] = @ - 1],
        node |-> [m.node EXCEPT ![p] = Unset]]

\* The node addNominatedPodUnlocked settles on: the override, or (mode noop)
\* the name in the pod's own status.
ChosenName(mode, override, name) == IF mode = "override" THEN override ELSE name

\* Mutant: the lister is not consulted.
Nominates_Stale(mode, p, name) == mode = "noop" => name # NoNode

\* A noop nomination without a name in the status returns early; a pod that the
\* lister no longer has, or has on a node already, is not nominated either.
Nominates(mode, p, name) ==
  /\ mode = "noop" => name # NoNode
  /\ lister[p] = "unassigned"

\* The tail of addNominatedPodUnlocked: the reverse map is set, and a reference is
\* appended unless the list already holds one.
Put(m, p, n) ==
  [refs |-> IF m.refs[n][p] > 0 THEN m.refs ELSE [m.refs EXCEPT ![n][p] = @ + 1],
   node |-> [m.node EXCEPT ![p] = n]]

\* addNominatedPodUnlocked: always forget first, then nominate or return early.
AddUnlocked(m, mode, override, p, name) ==
  LET d == DeleteUnlocked(m, p)
  IN IF Nominates(mode, p, name) THEN Put(d, p, ChosenName(mode, override, name)) ELSE d

Maps == [refs |-> refs, node |-> node]

Install(m) == /\ refs' = m.refs
              /\ node' = m.node

-----------------------------------------------------------------------------
Init ==
  /\ refs = [n \in Names |-> [p \in Pods |-> 0]]
  /\ node = [p \in Pods |-> Unset]
  /\ lister = [p \in Pods |-> "unassigned"]
  /\ status = [p \in Pods |-> NoNode]

\* AddNominatedPod: a preemption reserves n in memory, before the status of the
\* pod object says so (or, in mode noop, repeats what the status says).
AddNominatedPod(p, mode, n) ==
  /\ Install(AddUnlocked(Maps, mode, n, p, status[p]))
  /\ UNCHANGED <<lister, status>>

\* Mutant: the reservation is looked up after the old pod has been forgotten.
UpdateNominatedPod_Forgets(p, new) ==
  /\ Install(AddUnlocked(DeleteUnlocked(Maps, p), "noop", NoNode, p, new))
  /\ status' = [status EXCEPT ![p] = new]
  /\ UNCHANGED lister

\* UpdateNominatedPod: a pod update reaches the queue while the pod is queued.
\* The reservation survives only when neither object names a node.
UpdateNominatedPod(p, new) ==
  LET keep == status[p] = NoNode /\ new = NoNode /\ node[p] # Unset
      d    == DeleteUnlocked(Maps, p)
  IN /\ Install(IF keep THEN AddUnlocked(d, "override", node[p], p, new)
                        ELSE AddUnlocked(d, "noop", NoNode, p, new))
     /\ status' = [status EXCEPT ![p] = new]
     /\ UNCHANGED lister

\* DeleteNominatedPodIfExists: the pod left the queue for good (deleted, or
\* assumed on a node).
DeleteNominatedPodIfExists(p) ==
  /\ Install(DeleteUnlocked(Maps, p))
  /\ UNCHANGED <<lister, status>>

\* The informer store behind the lister moves on: a pod is bound, or removed.
ListerChanges(p) ==
  /\ \/ lister[p] = "unassigned" /\ lister' = [lister EXCEPT ![p] = "assigned"]
     \/ lister[p] # "missing" /\ lister' = [lister EXCEPT ![p] = "missing"]
  /\ UNCHANGED <<refs, node, status>>

Next ==
  \E p \in Pods :
    \/ \E n \in Names, mode \in Modes : AddNominatedPod(p, mode, n)
    \/ \E new \in Names : UpdateNominatedPod(p, new)
    \/ DeleteNominatedPodIfExists(p)
    \/ ListerChanges(p)

Spec == Init /\ [][Next]_vars

-----------------------------------------------------------------------------
\* The two maps say the same thing: a pod is referenced exactly once, in the list
\* of the node the reverse map names, and nowhere else ("to ensure we never store
\* more than one instance of the pod", nominator.go:55).
MapsAgree ==
  \A p \in Pods, n \in Names : refs[n][p] = IF node[p] = n THEN 1 ELSE 0

\* A status update that names no node, of a pod whose object named none before,
\* leaves the in-memory reservation of a still pending pod alone, although the pod is
\* forgotten twice on the way (nominator.go:96-98: "we need to keep reserving the
\* NominatedNode when updating the pod pointer").
ReservationKept ==
  [][ \A p \in Pods :
        (/\ UpdateNominatedPod(p, NoNode)
         /\ status[p] = NoNode
         /\ lister[p] = "unassigned")
          => node' = node ]_vars

\* No operation leaves a pod with a new or changed reservation when the lister
\* already knows it bound or gone, whatever name its stale object still carries
\* (nominator.go:70: "If the pod was removed or if it was already scheduled, don't
\* nominate it").
NominatesOnlyPending ==
  [][ \A p \in Pods :
        (node'[p] # node[p] /\ node'[p] # Unset) => lister[p] = "unassigned" ]_vars
=============================================================================
