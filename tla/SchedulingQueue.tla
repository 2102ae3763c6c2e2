--------------------------- MODULE SchedulingQueue ---------------------------
(***************************************************************************)
(* The scheduling queue, at the level of its threads                       *)
(* (ai-storage-scheduler/internal/backend/queue/queue.go over              *)
(* internal/backend/heap/heap.go):                                         *)
(*   feeder  the informer's goroutine: Add, Update, Delete, one at a time, *)
(*           each under SchedulingQueue.lock;                              *)
(*   popper  the ScheduleOne loop, blocked in activeQueue.pop under        *)
(*           activeQueue.lock;                                             *)
(*   closer  Scheduler.Run, which calls Close once its context is done.    *)
(* SchedulingQueue.Add and the last branch of Update touch the heap        *)
(* without activeQueue.lock, so an insertion and a pop can overlap: both   *)
(* are split where the heap's slice is read and where it is written.       *)
(* The back-off heap and the unschedulable map are never filled by this    *)
(* code, so their branches of Update and Delete find nothing.              *)
(***************************************************************************)
EXTENDS Naturals, Sequences, FiniteSets, SequencesExt

CONSTANTS QueuePods,    \* pod keys (namespace/name)
          Prio,    \* Prio[p]: the pod's priority
          MaxOps,  \* bound on the informer events delivered
          Atomic   \* TRUE: an insertion and a pop of the heap never overlap

ASSUME QueueAssumption ==
  /\ Prio \in [QueuePods -> Nat]
  /\ MaxOps \in Nat
  /\ Atomic \in BOOLEAN

NoPod == "none"

VARIABLES
  items,   \* data.items: the keys of the heap's map
  queue,   \* data.queue: the heap's slice, in arrival order
  closed,  \* activeQueue.closed
  feeder,  \* [pc, pod, snap, wake]: the operation in progress and what it has read
  popper,  \* [pc, pod, snap]: where ScheduleOne's pop is
  closer,  \* where Close is; anything but "idle" means the context is done
  wanted,  \* history: pods inserted, and neither deleted nor delivered since
  ops      \* events delivered so far

queueVars == <<items, queue, closed, feeder, popper, closer, wanted, ops>>

FeederIdle == [pc |-> "idle", pod |-> NoPod, snap |-> <<>>, wake |-> FALSE]
At(pc)     == [pc |-> pc, pod |-> NoPod, snap |-> <<>>]

QueueTypeOK ==
  /\ items \subseteq QueuePods
  /\ queue \in Seq(QueuePods)
  /\ closed \in BOOLEAN
  /\ feeder \in [pc : {"idle", "insert", "store", "signal"}, pod : QueuePods \cup {NoPod},
                 snap : Seq(QueuePods), wake : BOOLEAN]
  /\ popper \in [pc : {"idle", "check", "register", "waiting", "woken", "take", "store",
                       "stopped"}, pod : QueuePods \cup {NoPod}, snap : Seq(QueuePods)]
  /\ closer \in {"idle", "locked", "flagged", "done"}
  /\ wanted \subseteq QueuePods
  /\ ops \in 0..MaxOps

-----------------------------------------------------------------------------
(* Locks, and the heap.                                                    *)

\* activeQueue.lock is free of the popper (the feeder and the closer hold it only
\* within one of their steps).
AqFree == popper.pc \notin {"check", "register", "take", "store"}

\* SchedulingQueue.lock is held by the feeder during an operation and by Close.
FeederMayStart == feeder.pc = "idle" /\ closer \in {"idle", "done"} /\ ops < MaxOps

InSeq(p, s)   == \E i \in DOMAIN s : s[i] = p
Without(s, p) == RemoveFirst(s, p)

\* Less: the highest priority, and the oldest of those.
Best(s) ==
  s[CHOOSE i \in DOMAIN s :
      /\ \A j \in DOMAIN s : Prio[s[j]] <= Prio[s[i]]
      /\ \A j \in 1..(i - 1) : Prio[s[j]] < Prio[s[i]]]

\* No insertion and no removal is half done.
AtRest == feeder.pc # "store" /\ popper.pc # "store"

\* The map and the slice hold the same keys, each once.
Agree == /\ \A p \in items : InSeq(p, queue)
         /\ \A i \in DOMAIN queue : queue[i] \in items
         /\ Len(queue) = Cardinality(items)

\* What the heap does once they differ (a nil dereference in Swap, a foreign key
\* removed) is not modelled: every operation starts from a heap that agrees.
Usable == AtRest => Agree

Mutex(busy) == Atomic => ~busy

\* sync.Cond.Broadcast wakes the popper only if it has registered as a waiter.
Broadcast(pop) == IF pop.pc = "waiting" THEN At("woken") ELSE pop

-----------------------------------------------------------------------------
(* The feeder.                                                             *)

\* Add: was_empty is read before the insertion, without activeQueue.lock.
Add(p) ==
  /\ FeederMayStart /\ Usable
  /\ feeder' = [FeederIdle EXCEPT !.pc = "insert", !.pod = p, !.wake = (Len(queue) = 0)]
  /\ ops' = ops + 1
  /\ UNCHANGED <<items, queue, closed, popper, closer, wanted>>

\* Update: a queued pod is replaced in place under activeQueue.lock; any other is
\* inserted outside that lock, and the popper is always signalled.
Update(p) ==
  /\ FeederMayStart /\ Usable /\ AqFree
  /\ IF p \in items
     THEN wanted' = wanted \cup {p} /\ UNCHANGED feeder
     ELSE /\ feeder' = [FeederIdle EXCEPT !.pc = "insert", !.pod = p, !.wake = TRUE]
          /\ UNCHANGED wanted
  /\ ops' = ops + 1
  /\ UNCHANGED <<items, queue, closed, popper, closer>>

\* Mutant: the removal does not take activeQueue.lock either.
Delete_Unlocked(p) ==
  /\ FeederMayStart /\ Usable
  /\ items' = items \ {p}
  /\ queue' = Without(queue, p)
  /\ wanted' = wanted \ {p}
  /\ ops' = ops + 1
  /\ UNCHANGED <<closed, feeder, popper, closer>>

Delete(p) ==
  /\ FeederMayStart /\ Usable /\ AqFree
  /\ items' = items \ {p}
  /\ queue' = Without(queue, p)
  /\ wanted' = wanted \ {p}
  /\ ops' = ops + 1
  /\ UNCHANGED <<closed, feeder, popper, closer>>

\* AddOrUpdate, first half: a present key is only fixed; an absent one is put in the
\* map and the slice header is read.
Insert ==
  /\ feeder.pc = "insert" /\ Usable /\ Mutex(popper.pc = "store")
  /\ IF feeder.pod \in items
     THEN feeder' = [feeder EXCEPT !.pc = "signal"] /\ UNCHANGED items
     ELSE /\ items' = items \cup {feeder.pod}
          /\ feeder' = [feeder EXCEPT !.pc = "store", !.snap = queue]
  /\ wanted' = wanted \cup {feeder.pod}
  /\ UNCHANGED <<queue, closed, popper, closer, ops>>

\* AddOrUpdate, second half: the appended slice is written back.
InsertStore ==
  /\ feeder.pc = "store"
  /\ queue' = Append(feeder.snap, feeder.pod)
  /\ feeder' = [feeder EXCEPT !.pc = "signal", !.snap = <<>>]
  /\ UNCHANGED <<items, closed, popper, closer, wanted, ops>>

Signal ==
  /\ feeder.pc = "signal"
  /\ popper' = IF feeder.wake THEN Broadcast(popper) ELSE popper
  /\ feeder' = FeederIdle
  /\ UNCHANGED <<items, queue, closed, closer, wanted, ops>>

-----------------------------------------------------------------------------
(* The popper: activeQueue.pop, called again and again by ScheduleOne.     *)

PopEnter ==
  /\ popper.pc = "idle" /\ closer = "idle"
  /\ popper' = At("check")
  /\ UNCHANGED <<items, queue, closed, feeder, closer, wanted, ops>>

\* One evaluation of the loop of unlockedPop, with activeQueue.lock held.
PopCheck ==
  /\ popper.pc = "check"
  /\ popper' = CASE Len(queue) > 0 -> At("take")
                 [] Len(queue) = 0 /\ closed -> At("idle")
                 [] OTHER -> At("register")
  /\ UNCHANGED <<items, queue, closed, feeder, closer, wanted, ops>>

\* sync.Cond.Wait: join the wait list and release activeQueue.lock.
PopWait ==
  /\ popper.pc = "register"
  /\ popper' = At("waiting")
  /\ UNCHANGED <<items, queue, closed, feeder, closer, wanted, ops>>

\* Mutant: a woken popper goes back to sleep without testing the queue again.
PopRelock_NoCheck ==
  /\ popper.pc = "woken" /\ AqFree
  /\ popper' = At("register")
  /\ UNCHANGED <<items, queue, closed, feeder, closer, wanted, ops>>

PopRelock ==
  /\ popper.pc = "woken" /\ AqFree
  /\ popper' = At("check")
  /\ UNCHANGED <<items, queue, closed, feeder, closer, wanted, ops>>

\* heap.Pop, first half: the root is chosen and the slice header is read.
PopTake ==
  /\ popper.pc = "take" /\ Usable /\ Mutex(feeder.pc = "store") /\ Len(queue) > 0
  /\ LET p == Best(queue) IN
       popper' = [pc |-> "store", pod |-> p, snap |-> Without(queue, p)]
  /\ UNCHANGED <<items, queue, closed, feeder, closer, wanted, ops>>

\* heap.Pop, second half: the shortened slice is written back, the key leaves the
\* map, and the pod is handed to ScheduleOne.
PopStore ==
  /\ popper.pc = "store"
  /\ queue' = popper.snap
  /\ items' = items \ {popper.pod}
  /\ wanted' = wanted \ {popper.pod}
  /\ popper' = At("idle")
  /\ UNCHANGED <<closed, feeder, closer, ops>>

\* wait.UntilWithContext ends the ScheduleOne loop between two rounds.
PopStop ==
  /\ popper.pc = "idle" /\ closer # "idle"
  /\ popper' = At("stopped")
  /\ UNCHANGED <<items, queue, closed, feeder, closer, wanted, ops>>

-----------------------------------------------------------------------------
(* Close.                                                                  *)

CloseLock ==
  /\ closer = "idle" /\ feeder.pc = "idle"
  /\ closer' = "locked"
  /\ UNCHANGED <<items, queue, closed, feeder, popper, wanted, ops>>

\* Mutant: the flag is set without activeQueue.lock.
CloseFlag_Unlocked ==
  /\ closer = "locked"
  /\ closer' = "flagged"
  /\ closed' = TRUE
  /\ UNCHANGED <<items, queue, feeder, popper, wanted, ops>>

CloseFlag ==
  /\ closer = "locked" /\ AqFree
  /\ closer' = "flagged"
  /\ closed' = TRUE
  /\ UNCHANGED <<items, queue, feeder, popper, wanted, ops>>

CloseBroadcast ==
  /\ closer = "flagged"
  /\ closer' = "done"
  /\ popper' = Broadcast(popper)
  /\ UNCHANGED <<items, queue, closed, feeder, wanted, ops>>

-----------------------------------------------------------------------------
QueueInit ==
  /\ items = {}
  /\ queue = <<>>
  /\ closed = FALSE
  /\ feeder = FeederIdle
  /\ popper = At("idle")
  /\ closer = "idle"
  /\ wanted = {}
  /\ ops = 0

Feed  == Insert \/ InsertStore \/ Signal
Pop   == PopEnter \/ PopCheck \/ PopWait \/ PopRelock \/ PopTake \/ PopStore \/ PopStop
Close == CloseFlag \/ CloseBroadcast

QueueNext ==
  \/ \E p \in QueuePods : Add(p) \/ Update(p) \/ Delete(p)
  \/ Insert \/ InsertStore \/ Signal
  \/ PopEnter \/ PopCheck \/ PopWait \/ PopRelock \/ PopTake \/ PopStore \/ PopStop
  \/ CloseLock \/ CloseFlag \/ CloseBroadcast

QueueSpec == QueueInit /\ [][QueueNext]_queueVars

\* A goroutine that can run does: an operation in progress is finished, the popper
\* keeps popping, Close returns.  New events and the shutdown may never come, and
\* a locker eventually gets a lock that is free again and again.
QueueFairness == WF_queueVars(Feed) /\ WF_queueVars(Pop) /\ SF_queueVars(Close)

-----------------------------------------------------------------------------
\* ScheduleOne is handed a pod only while the last event of that pod asked for it
\* to be scheduled, and once per request: never a pod deleted before the pop, and
\* never the same insertion twice.
DeliversOnlyWanted == popper.pc = "store" => popper.pod \in wanted

\* Outside the operations that change them, the heap's map and slice hold the same
\* keys (heap.go:25: "We depend on the property that items in the map are in the
\* queue and vice versa").
HeapAgrees == AtRest => Agree

\* Close always gets the scheduling loop out of Pop, wherever it was.
CloseStopsPopper == (closer # "idle") ~> (popper.pc = "stopped")

\* A popper that is awake when a pod is queued delivers it, unless the pod is
\* deleted or the scheduler stops.
AwakePopperDelivers ==
  \A p \in QueuePods :
    (p \in items /\ feeder.pc = "idle" /\ popper.pc \notin {"register", "waiting"})
      ~> (p \notin items \/ popper.pc = "stopped")
=============================================================================
