--------------------------- MODULE PolicyReconciler ---------------------------
(***************************************************************************)
(* The OrchestrationPolicy controller of APOLLO, for one policy: the       *)
(* object in the API server, the informer's copy that Reconcile reads, the *)
(* handler in progress, and the operations it has started at the           *)
(* orchestrator.  Policies do not interfere with each other, and the       *)
(* workqueue never hands the same key to two workers.                      *)
(*                                                                         *)
(* A handler stops at each call it makes; `rec.pc' names the call that     *)
(* comes next.  Patches are client.MergeFrom diffs without a               *)
(* resourceVersion: they overwrite exactly the fields in which the new     *)
(* object differs from the base, whatever the server holds by then.        *)
(*                                                                         *)
(* Message, conditions and completedAt are left out, and the two           *)
(* rollback annotations, which the controller writes and never reads.      *)
(***************************************************************************)
EXTENDS Integers, FiniteSets

CONSTANTS
  Kinds,       \* kinds of policies to start with, a subset of AllKinds
  MaxStarts,   \* 3: failed starts after which handleApprovedPolicy gives up
  MaxMissing,  \* MigrationMaxConsecutive404, SyncMaxConsecutive404
  MaxErrors,   \* MigrationMaxConsecutivePollErrors, SyncMaxConsecutiveGETErrors
  MaxOps,      \* bound: operations started
  MaxStale,    \* bound: reconciles of an object that is not current
  MaxFaults,   \* bound: crashes, failing patches, lost answers, failing DELETEs
  MaxRetries   \* bound: retries the user asks for

\* "undo" stands for scaling, caching and loadbalance, which the orchestrator can
\* delete, and "provision" for provisioning, which completes while it is still
\* being created (ProvisioningStrictReadyOnly is off).
AllKinds == {"migration", "preemption", "undo", "provision"}

ASSUME PolicyAssumption ==
  /\ Kinds \subseteq AllKinds
  /\ {MaxStarts, MaxMissing, MaxErrors, MaxOps} \subseteq Nat \ {0}
  /\ {MaxStale, MaxFaults, MaxRetries} \subseteq Nat

VARIABLES
  kind,    \* the policy's type
  srv,     \* the object in the API server
  cached,  \* the object in the informer's cache
  rec,     \* the handler: [pc, obj, elapsed, answer]
  ops,     \* the operations at the orchestrator
  proved,  \* the operations that have ever completed
  budget   \* how often each bounded event has happened

vars == <<kind, srv, cached, rec, ops, proved, budget>>

Phases   == {"new", "Pending", "Approved", "Rejected", "Executing", "Completed", "Failed"}
Terminal == {"Completed", "Failed", "Rejected"}
Ids      == 1 .. MaxOps
NoResult == 0              \* status.result is empty
Text     == MaxOps + 1     \* status.result is the message of a failure

\* time.Since(ExecutedAt), as far as the code tells it apart: less than 10 s, 45 s
\* (SyncCompleteGrace), 60 s, 30 min (ExecutionTimeout), and more.
Never == -1
Fresh == 0
Backfill == 1
Grace == 2
Hung == 3
TimedOut == 4

Policies == [phase : Phases, age : Never .. TimedOut, result : 0 .. Text,
             start : Nat, miss : Nat, errs : Nat, retry : BOOLEAN]
NewPolicy == [phase |-> "new", age |-> Never, result |-> NoResult,
              start |-> 0, miss |-> 0, errs |-> 0, retry |-> FALSE]

Calls   == {"idle", "pend", "judge", "begin", "start", "record", "started", "streak",
            "again", "rerecord", "mark", "poll", "clear", "miss", "err", "undo", "note",
            "fail", "complete", "unmark", "reset"}
OpState == {"none", "running", "done", "failed", "gone"}
Rest    == [pc |-> "idle", obj |-> NewPolicy, elapsed |-> Never, answer |-> "none"]
Events  == {"stale", "fault", "retry"}

TypeOK ==
  /\ kind \in AllKinds
  /\ srv \in Policies /\ cached \in Policies
  /\ rec \in [pc : Calls, obj : Policies, elapsed : Never .. TimedOut, answer : OpState]
  /\ ops \in [Ids -> OpState]
  /\ proved \subseteq Ids
  /\ budget \in [Events -> Nat]

Sync(k)     == k # "migration"
Undoable(k) == k \in {"undo", "provision"}
Exists(o)   == o \in Ids /\ ops[o] \notin {"none", "gone"}

Spend(e, max) == /\ budget[e] < max
                 /\ budget' = [budget EXCEPT ![e] = @ + 1]
Fault == Spend("fault", MaxFaults)

-----------------------------------------------------------------------------
(* Patches.                                                                *)

\* What the server holds after a patch of the fields in which new differs from base.
Merged(new, base) ==
  [f \in DOMAIN srv |-> IF new[f] # base[f] THEN new[f] ELSE srv[f]]

\* A patch succeeds and the handler goes on as ok says; or it fails, without or with
\* its effect, and the handler goes on as err says.
Patch(after, ok, err) ==
  \/ srv' = after /\ rec' = ok /\ UNCHANGED budget
  \/ Fault /\ srv' \in {srv, after} /\ rec' = err

\* patchStatusWithRetry copies the server's answer into the handler's status.
StatusOf(o, s) == [o EXCEPT !.phase = s.phase, !.age = s.age, !.result = s.result]

\* The status patches that end a handler: *st = policy.Status, on the cached object.
StatusPatch(new) == Patch(Merged(StatusOf(cached, new), cached), Rest, Rest)

\* A patch of a single field: patchAnnotationInt, and the patch of status.result.  It
\* reads the cached object again.
OneField(f, n) == [srv EXCEPT ![f] = IF n # cached[f] THEN n ELSE @]

Go(pc) == [rec EXCEPT !.pc = pc]

\* Mutant: a failed policy leaves its operation to itself.
FirstOfFailing_NoRollback(o) == "note"

\* markPolicyFailed starts with attemptOperatorRollback, which skips what it cannot
\* delete.
FirstOfFailing(o) == IF Undoable(kind) /\ o.result # NoResult THEN "undo" ELSE "note"

-----------------------------------------------------------------------------
(* Reconcile.                                                              *)

\* Mutant: the age of the execution is not looked at while there is a result.
Monitor_NoTimeout(o) ==
  CASE o.result = NoResult /\ o.age >= Hung -> "note"
    [] o.result = NoResult /\ o.age < Hung -> "idle"
    [] OTHER -> IF ~Sync(kind) \/ o.age >= Grace THEN "poll" ELSE "idle"

\* handleExecutingPolicy up to its first call.
Monitor(o) ==
  CASE o.age = Never                                                -> "idle"
    [] o.age = TimedOut                                             -> FirstOfFailing(o)
    [] o.age \in Fresh .. Hung /\ o.result = NoResult ->
         CASE Sync(kind) /\ o.age >= Backfill /\ o.start < 1        -> "again"
           [] o.age >= Hung /\ ~(Sync(kind) /\ o.start < 1)         -> "note"
           [] OTHER                                                 -> "idle"
    [] OTHER -> IF ~Sync(kind) \/ o.age >= Grace THEN "poll" ELSE "idle"

\* Mutant: a failed policy is reset whether or not it is annotated.
FirstCall_RetriesAll(o) ==
  CASE o.phase = "new"       -> "pend"
    [] o.phase = "Pending"   -> "judge"
    [] o.phase = "Approved"  -> "begin"
    [] o.phase = "Executing" -> Monitor(o)
    [] o.phase = "Failed"    -> "unmark"
    [] OTHER                 -> "idle"

FirstCall(o) ==
  CASE o.phase = "new"                -> "pend"
    [] o.phase = "Pending"            -> "judge"
    [] o.phase = "Approved"           -> "begin"
    [] o.phase = "Executing"          -> Monitor(o)
    [] o.phase = "Failed" /\ o.retry  -> "unmark"
    [] OTHER                          -> "idle"

\* r.Get reads the cache.  A pending policy without autoExecute waits for a user;
\* that is a handler that is not started.
Reconcile ==
  /\ rec.pc = "idle" /\ FirstCall(cached) # "idle"
  /\ rec' = [pc |-> FirstCall(cached), obj |-> cached, elapsed |-> cached.age,
             answer |-> "none"]
  /\ IF cached = srv THEN UNCHANGED budget ELSE Spend("stale", MaxStale)
  /\ UNCHANGED <<kind, srv, cached, ops, proved>>

\* handleNewPolicy.
Pend ==
  /\ rec.pc = "pend"
  /\ StatusPatch([rec.obj EXCEPT !.phase = "Pending"])
  /\ UNCHANGED <<kind, cached, ops, proved>>

\* handleAutoApprove: the policy agent approves, rejects, or delays.
Judge ==
  /\ rec.pc = "judge"
  /\ \E d \in {"Approved", "Rejected", "Pending"} :
       StatusPatch([rec.obj EXCEPT !.phase = d])
  /\ UNCHANGED <<kind, cached, ops, proved>>

-----------------------------------------------------------------------------
(* handleApprovedPolicy and the execute functions.                         *)

\* The patch to Executing; ExecutedAt is new, so it is always part of the diff.
Begin ==
  /\ rec.pc = "begin"
  /\ LET new   == [rec.obj EXCEPT !.phase = "Executing", !.age = Fresh]
         after == [Merged(StatusOf(cached, new), cached) EXCEPT !.age = Fresh]
     IN Patch(after, [rec EXCEPT !.pc = "start", !.obj = StatusOf(@, after)], Rest)
  /\ UNCHANGED <<kind, cached, ops, proved>>

\* Where a failed start leads: from Approved it is counted; a failed backfill is only
\* logged, and the age is looked at next.
StartFailed(r) ==
  IF rec.pc \in {"start", "record"} THEN [r EXCEPT !.pc = "streak"]
  ELSE IF rec.elapsed >= Hung THEN [r EXCEPT !.pc = FirstOfFailing(r.obj)]
  ELSE Rest

\* The POST creates the operation and answers with its id; creates it and loses the
\* answer; or creates nothing (also when no pod or node was found for it).
Start ==
  /\ rec.pc \in {"start", "again"}
  /\ \/ \E i \in Ids :
          /\ ops[i] = "none" /\ \A j \in 1 .. i - 1 : ops[j] # "none"
          /\ ops' = [ops EXCEPT ![i] = "running"]
          /\ \/ /\ rec' = [rec EXCEPT !.obj.result = i,
                             !.pc = IF @ = "start" THEN "record" ELSE "rerecord"]
                /\ UNCHANGED budget
             \/ Fault /\ rec' = StartFailed(rec)
     \/ rec' = StartFailed(rec) /\ UNCHANGED <<ops, budget>>
  /\ UNCHANGED <<kind, srv, cached, proved>>

\* The id is patched into status.result, and nothing else.
Record ==
  /\ rec.pc \in {"record", "rerecord"}
  /\ LET after == OneField("result", rec.obj.result)
         next  == IF rec.pc = "record" THEN "started" ELSE "mark"
     IN Patch(after, [rec EXCEPT !.pc = next, !.obj = StatusOf(@, after)], StartFailed(rec))
  /\ UNCHANGED <<kind, cached, ops, proved>>

\* exec-start-error-streak is removed after a start, set after a backfill, and
\* counted up after a failed start.
Started ==
  /\ rec.pc = "started"
  /\ Patch(OneField("start", 0), Rest, Rest)
  /\ UNCHANGED <<kind, cached, ops, proved>>

Mark ==
  /\ rec.pc = "mark"
  /\ Patch(OneField("start", 1), Rest, Rest)
  /\ UNCHANGED <<kind, cached, ops, proved>>

Streak ==
  /\ rec.pc = "streak"
  /\ LET n == rec.obj.start + 1 IN
       Patch(OneField("start", n),
             IF n < MaxStarts THEN Rest ELSE Go(FirstOfFailing(rec.obj)), Rest)
  /\ UNCHANGED <<kind, cached, ops, proved>>

-----------------------------------------------------------------------------
(* Monitoring.                                                             *)

\* GET of the recorded operation: its state, 404, or an error.
Poll ==
  /\ rec.pc = "poll"
  /\ \/ /\ Exists(rec.obj.result)
        /\ rec' = [rec EXCEPT !.pc = "clear", !.answer = ops[rec.obj.result]]
     \/ ~Exists(rec.obj.result) /\ rec' = Go("miss")
     \/ rec' = Go("err")
  /\ UNCHANGED <<kind, srv, cached, ops, proved, budget>>

\* Mutant: an operation that is still running is taken for a completed one.
Verdict_AnyAnswer ==
  IF rec.answer = "failed" THEN Go(FirstOfFailing(rec.obj)) ELSE Go("complete")

\* The answer clears both streaks, and is then acted on.
Verdict ==
  CASE rec.answer = "failed"                           -> Go(FirstOfFailing(rec.obj))
    [] rec.answer = "done" \/ kind = "provision"       -> Go("complete")
    [] OTHER                                           -> Rest

Clear ==
  /\ rec.pc = "clear"
  /\ IF cached.miss = 0 /\ cached.errs = 0
     THEN rec' = Verdict /\ UNCHANGED <<srv, budget>>
     ELSE Patch(Merged([cached EXCEPT !.miss = 0, !.errs = 0], cached), Verdict, Rest)
  /\ UNCHANGED <<kind, cached, ops, proved>>

\* 404s and other errors are counted apart; neither clears the other.
Miss ==
  /\ rec.pc = "miss"
  /\ LET n == rec.obj.miss + 1 IN
       Patch(OneField("miss", n),
             IF n >= MaxMissing THEN Go(FirstOfFailing(rec.obj)) ELSE Rest, Rest)
  /\ UNCHANGED <<kind, cached, ops, proved>>

Err ==
  /\ rec.pc = "err"
  /\ LET n == rec.obj.errs + 1 IN
       Patch(OneField("errs", n),
             IF n >= MaxErrors THEN Go(FirstOfFailing(rec.obj)) ELSE Rest, Rest)
  /\ UNCHANGED <<kind, cached, ops, proved>>

-----------------------------------------------------------------------------
(* The ends.                                                               *)

\* attemptOperatorRollback: three DELETEs, of which one succeeds, or none.
Undo ==
  /\ rec.pc = "undo"
  /\ rec' = Go("note")
  /\ \/ /\ Exists(rec.obj.result)
        /\ ops' = [ops EXCEPT ![rec.obj.result] = "gone"]
        /\ UNCHANGED budget
     \/ /\ IF Exists(rec.obj.result) THEN Fault ELSE UNCHANGED budget
        /\ UNCHANGED ops
  /\ UNCHANGED <<kind, srv, cached, proved>>

\* patchRollbackMeta: the answer replaces the handler's whole object.
Note ==
  /\ rec.pc = "note"
  /\ Patch(srv, [rec EXCEPT !.pc = "fail", !.obj = srv], Rest)
  /\ UNCHANGED <<kind, cached, ops, proved>>

Fail ==
  /\ rec.pc = "fail"
  /\ StatusPatch([rec.obj EXCEPT !.phase = "Failed", !.result = Text])
  /\ UNCHANGED <<kind, cached, ops, proved>>

Complete ==
  /\ rec.pc = "complete"
  /\ StatusPatch([rec.obj EXCEPT !.phase = "Completed"])
  /\ UNCHANGED <<kind, cached, ops, proved>>

\* handleRetryFromFailure: first the annotation, then the status; the streaks stay.
Unmark ==
  /\ rec.pc = "unmark"
  /\ LET after == [srv EXCEPT !.retry = FALSE] IN
       Patch(after, [rec EXCEPT !.pc = "reset", !.obj = after], Rest)
  /\ UNCHANGED <<kind, cached, ops, proved>>

Reset ==
  /\ rec.pc = "reset"
  /\ StatusPatch([rec.obj EXCEPT !.phase = "Pending", !.age = Never, !.result = NoResult])
  /\ UNCHANGED <<kind, cached, ops, proved>>

-----------------------------------------------------------------------------
(* The surroundings.                                                       *)

\* The informer catches up.
Deliver ==
  /\ cached # srv
  /\ cached' = srv
  /\ UNCHANGED <<kind, srv, rec, ops, proved, budget>>

\* Time passes for every copy of ExecutedAt.
Older(o) == [o EXCEPT !.age = IF @ \in Fresh .. Hung THEN @ + 1 ELSE @]
Tick ==
  /\ srv.age \in Fresh .. Hung
  /\ srv' = Older(srv) /\ cached' = Older(cached)
  /\ rec' = [rec EXCEPT !.obj = Older(@)]
  /\ UNCHANGED <<kind, ops, proved, budget>>

OpEnds(i) ==
  /\ ops[i] = "running"
  /\ \/ ops' = [ops EXCEPT ![i] = "done"] /\ proved' = proved \cup {i}
     \/ ops' = [ops EXCEPT ![i] = "failed"] /\ UNCHANGED proved
  /\ UNCHANGED <<kind, srv, cached, rec, budget>>

\* The orchestrator restarts and forgets its jobs.
Forget ==
  /\ \E i \in Ids : Exists(i)
  /\ ops' = [i \in Ids |-> IF Exists(i) THEN "gone" ELSE ops[i]]
  /\ UNCHANGED <<kind, srv, cached, rec, proved, budget>>

UserApproves ==
  /\ srv.phase = "Pending"
  /\ srv' = [srv EXCEPT !.phase = "Approved"]
  /\ UNCHANGED <<kind, cached, rec, ops, proved, budget>>

UserRetries ==
  /\ srv.phase = "Failed" /\ ~srv.retry /\ Spend("retry", MaxRetries)
  /\ srv' = [srv EXCEPT !.retry = TRUE]
  /\ UNCHANGED <<kind, cached, rec, ops, proved>>

\* The controller stops between two calls, and comes back with a fresh cache.
Crash ==
  /\ rec.pc # "idle" /\ Fault
  /\ rec' = Rest /\ cached' = srv
  /\ UNCHANGED <<kind, srv, ops, proved>>

-----------------------------------------------------------------------------
Init ==
  /\ kind \in Kinds
  /\ srv = NewPolicy /\ cached = NewPolicy
  /\ rec = Rest
  /\ ops = [i \in Ids |-> "none"]
  /\ proved = {}
  /\ budget = [e \in Events |-> 0]

Controller ==
  \/ Reconcile \/ Pend \/ Judge
  \/ Begin \/ Start \/ Record \/ Started \/ Mark \/ Streak
  \/ Poll \/ Clear \/ Miss \/ Err
  \/ Undo \/ Note \/ Fail \/ Complete \/ Unmark \/ Reset

Next ==
  \/ Reconcile \/ Pend \/ Judge
  \/ Begin \/ Start \/ Record \/ Started \/ Mark \/ Streak
  \/ Poll \/ Clear \/ Miss \/ Err
  \/ Undo \/ Note \/ Fail \/ Complete \/ Unmark \/ Reset
  \/ Deliver \/ Tick \/ (\E i \in Ids : OpEnds(i)) \/ Forget
  \/ UserApproves \/ UserRetries \/ Crash

Spec == Init /\ [][Next]_vars

\* The workqueue runs the key while a handler asks to be requeued, calls return, the
\* informer catches up, and time passes.
FairSpec == /\ Spec
            /\ WF_vars(Controller) /\ WF_vars(Deliver) /\ WF_vars(Tick)

-----------------------------------------------------------------------------
\* The handler has the answer of a start call that it has not recorded yet.
InHand(i) == rec.pc \in {"record", "rerecord"} /\ rec.obj.result = i

\* Every operation of an undoable policy that exists and that the policy does not name
\* was lost to a fault or a stale read of its own: without them nothing is ever left
\* behind at the orchestrator, and a backfill, a retry or a rollback loses nothing.
OrphansAreFaults ==
  Undoable(kind) =>
    Cardinality({i \in Ids : Exists(i) /\ srv.result # i /\ ~InHand(i)})
      <= budget["fault"] + budget["stale"]

\* The policy has been read as it was each time so far.
ReadCurrent == budget["stale"] = 0

\* A policy is only Completed on the word of the operation that it names.
CompletedIsProved ==
  ReadCurrent /\ srv.phase = "Completed" /\ kind # "provision" => srv.result \in proved

\* Phases end where the code calls them terminal, whatever crashes and fails, and a
\* failed policy comes back only when asked to.
TerminalIsFinal ==
  [][ReadCurrent' /\ srv.phase \in Terminal /\ srv'.phase # srv.phase =>
       srv.phase = "Failed" /\ srv'.phase = "Pending" /\ budget["retry"] > 0]_vars

\* An execution ends, whatever the orchestrator does and whatever is lost on the way.
ExecutionEnds == (srv.phase = "Executing") ~> (srv.phase \in Terminal)

\* A policy whose start calls created nothing is given up only after the third
\* (orchestrationpolicy_controller.go:461: "Execution start failed, retrying").
StartIsRetried ==
  srv.phase = "Failed" /\ srv.start > 0 /\ (\A i \in Ids : ops[i] = "none") =>
    srv.start >= MaxStarts
=============================================================================
