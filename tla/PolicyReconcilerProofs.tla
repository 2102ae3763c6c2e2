----------------------- MODULE PolicyReconcilerProofs -----------------------
(***************************************************************************)
(* Proofs about the OrchestrationPolicy controller: types, and, as long as *)
(* every reconcile has read the policy as it was, that ends are final and  *)
(* that a completed policy names an operation that has completed; and,     *)
(* whatever is read late or lost, that the operations a policy leaves      *)
(* behind are no more than the faults and the stale reads.                 *)
(*                                                                         *)
(* None of these properties is inductive.  The first two need to know in   *)
(* which phase the object in the server can be while a handler is between  *)
(* two calls, and that the handler's copy, made of a cached object, still  *)
(* names the operation the server's object names.  The last one counts an  *)
(* operation as lost before it is: from the moment at which a handler is   *)
(* about to overwrite or forget its name.                                  *)
(***************************************************************************)
EXTENDS PolicyReconciler, FiniteSetTheorems, TLAPS

Handlers == [pc : Calls, obj : Policies, elapsed : Never .. TimedOut, answer : OpState]
Fields   == {"phase", "age", "result", "start", "miss", "errs", "retry"}

\* The calls of a handler that found the policy executing, or made it so.
RunningCalls == Calls \ {"idle", "pend", "judge", "begin", "unmark", "reset"}

-----------------------------------------------------------------------------
(* What the operators on objects return.                                   *)

LEMMA MergedTypes ==
  ASSUME srv \in Policies, NEW new \in Policies, NEW base \in Policies
  PROVE  /\ Merged(new, base) \in Policies
         /\ Merged(new, base).phase = IF new.phase # base.phase THEN new.phase ELSE srv.phase
         /\ Merged(new, base).result = IF new.result # base.result THEN new.result ELSE srv.result
         /\ new.retry = base.retry => Merged(new, base).retry = srv.retry
<1>1. DOMAIN srv = Fields
  BY DEF Policies, Fields
<1>2. Merged(new, base) = [phase |-> IF new.phase # base.phase THEN new.phase ELSE srv.phase,
                           age |-> IF new.age # base.age THEN new.age ELSE srv.age,
                           result |-> IF new.result # base.result THEN new.result ELSE srv.result,
                           start |-> IF new.start # base.start THEN new.start ELSE srv.start,
                           miss |-> IF new.miss # base.miss THEN new.miss ELSE srv.miss,
                           errs |-> IF new.errs # base.errs THEN new.errs ELSE srv.errs,
                           retry |-> IF new.retry # base.retry THEN new.retry ELSE srv.retry]
  BY <1>1 DEF Merged, Fields
<1>3. /\ (IF new.phase # base.phase THEN new.phase ELSE srv.phase) \in Phases
      /\ (IF new.age # base.age THEN new.age ELSE srv.age) \in Never..TimedOut
      /\ (IF new.result # base.result THEN new.result ELSE srv.result) \in 0..Text
      /\ (IF new.start # base.start THEN new.start ELSE srv.start) \in Nat
      /\ (IF new.miss # base.miss THEN new.miss ELSE srv.miss) \in Nat
      /\ (IF new.errs # base.errs THEN new.errs ELSE srv.errs) \in Nat
  BY DEF Policies
<1>4. (IF new.retry # base.retry THEN new.retry ELSE srv.retry) \in BOOLEAN
  BY DEF Policies
<1> QED
  BY <1>2, <1>3, <1>4 DEF Policies

LEMMA StatusOfTypes ==
  ASSUME NEW o \in Policies, NEW s \in Policies
  PROVE  /\ StatusOf(o, s) \in Policies
         /\ StatusOf(o, s).phase = s.phase
         /\ StatusOf(o, s).result = s.result
         /\ StatusOf(o, s).retry = o.retry
  BY DEF StatusOf, Policies

LEMMA OlderTypes ==
  ASSUME NEW o \in Policies
  PROVE  /\ Older(o) \in Policies
         /\ Older(o).phase = o.phase
         /\ Older(o).result = o.result
         /\ Older(o).retry = o.retry
  BY DEF Older, Policies, Never, Fresh, Hung, TimedOut

LEMMA NewPolicyTypes == NewPolicy \in Policies /\ Rest \in Handlers
  BY PolicyAssumption
  DEF NewPolicy, Rest, Handlers, Policies, Phases, Calls, OpState, Never, TimedOut, NoResult, Text

LEMMA OneFieldTypes ==
  ASSUME srv \in Policies,
         NEW f \in {"result", "start", "miss", "errs"},
         NEW n, IF f = "result" THEN n \in 0 .. Text ELSE n \in Nat
  PROVE  /\ OneField(f, n) \in Policies
         /\ OneField(f, n).phase = srv.phase
         /\ OneField(f, n).retry = srv.retry
         /\ OneField(f, n).result = IF f = "result" /\ n # cached.result THEN n ELSE srv.result
  BY DEF OneField, Policies

LEMMA SpendTypes ==
  ASSUME budget \in [Events -> Nat], NEW e \in Events, NEW max, Spend(e, max)
  PROVE  /\ budget' \in [Events -> Nat]
         /\ budget'[e] = budget[e] + 1
         /\ \A d \in Events \ {e} : budget'[d] = budget[d]
  BY DEF Spend

\* What every patch leaves alone.
LEMMA PatchTypes ==
  ASSUME budget \in [Events -> Nat], srv \in Policies,
         NEW after \in Policies, NEW ok \in Handlers, NEW err \in Handlers,
         Patch(after, ok, err)
  PROVE  /\ srv' \in {srv, after}
         /\ srv' \in Policies
         /\ rec' \in {ok, err}
         /\ rec' \in Handlers
         /\ rec' = err \/ (rec' = ok /\ srv' = after)
         /\ budget' \in [Events -> Nat]
         /\ budget'["stale"] = budget["stale"]
         /\ budget'["retry"] = budget["retry"]
<1>1. CASE srv' = after /\ rec' = ok /\ UNCHANGED budget
  BY <1>1
<1>2. CASE Fault /\ srv' \in {srv, after} /\ rec' = err
  <2>1. Spend("fault", MaxFaults)
    BY <1>2 DEF Fault
  <2>2. "fault" \in Events /\ "stale" \in Events \ {"fault"} /\ "retry" \in Events \ {"fault"}
    BY DEF Events
  <2> QED
    BY <1>2, <2>1, <2>2, SpendTypes
<1> QED
  BY <1>1, <1>2 DEF Patch

LEMMA StatusPatchTypes ==
  ASSUME budget \in [Events -> Nat], srv \in Policies, cached \in Policies,
         NEW new \in Policies, StatusPatch(new)
  PROVE  /\ srv' \in Policies
         /\ rec' = Rest
         /\ srv'.phase \in {srv.phase, new.phase}
         /\ srv'.result \in {srv.result, new.result}
         /\ srv'.phase = srv.phase \/ srv'.result =
              (IF new.result # cached.result THEN new.result ELSE srv.result)
         /\ srv'.retry = srv.retry
         /\ budget' \in [Events -> Nat]
         /\ budget'["stale"] = budget["stale"]
         /\ budget'["retry"] = budget["retry"]
<1> DEFINE s == StatusOf(cached, new)
           m == Merged(s, cached)
<1>1. s \in Policies /\ s.phase = new.phase /\ s.result = new.result /\ s.retry = cached.retry
  BY StatusOfTypes
<1>2. /\ m \in Policies
      /\ m.phase \in {srv.phase, new.phase}
      /\ m.result = (IF new.result # cached.result THEN new.result ELSE srv.result)
      /\ m.retry = srv.retry
  <2> HIDE DEF s
  <2> QED
    BY <1>1, MergedTypes
<1>3. Patch(m, Rest, Rest)
  BY DEF StatusPatch
<1> HIDE DEF m
<1> QED
  BY <1>2, <1>3, PatchTypes, NewPolicyTypes

LEMMA MonitorTypes ==
  ASSUME NEW o \in Policies
  PROVE  Monitor(o) \in RunningCalls \cup {"idle"} /\ FirstOfFailing(o) \in {"undo", "note"}
  BY DEF Monitor, FirstOfFailing, RunningCalls, Calls

LEMMA FirstCallTypes ==
  ASSUME NEW o \in Policies
  PROVE  /\ FirstCall(o) \in Calls
         /\ FirstCall(o) = "pend" => o.phase = "new"
         /\ FirstCall(o) = "judge" => o.phase = "Pending"
         /\ FirstCall(o) = "begin" => o.phase = "Approved"
         /\ FirstCall(o) = "unmark" => o.phase = "Failed" /\ o.retry
         /\ FirstCall(o) # "reset"
         /\ FirstCall(o) \in RunningCalls => o.phase = "Executing"
<1>1. Monitor(o) \in RunningCalls \cup {"idle"}
  BY MonitorTypes
<1> QED
  BY <1>1 DEF FirstCall, RunningCalls, Calls

-----------------------------------------------------------------------------
(* Types.                                                                  *)

LEMMA TypeInit == Init => TypeOK
<1> SUFFICES ASSUME Init PROVE TypeOK
  OBVIOUS
<1>1. kind \in AllKinds /\ proved \subseteq Ids
  BY PolicyAssumption DEF Init
<1>2. ops \in [Ids -> OpState] /\ budget \in [Events -> Nat]
  BY DEF Init, OpState
<1> QED
  BY <1>1, <1>2, NewPolicyTypes DEF Init, TypeOK, Handlers

LEMMA StartFailedTypes ==
  ASSUME TypeOK, NEW r \in Handlers
  PROVE  /\ StartFailed(r) \in Handlers
         /\ StartFailed(r) = Rest \/ StartFailed(r).pc \in {"streak", "undo", "note"}
<1>1. FirstOfFailing(r.obj) \in {"undo", "note"}
  BY MonitorTypes DEF Handlers
<1> QED
  BY <1>1, NewPolicyTypes DEF StartFailed, Handlers, Calls

\* The fields that some actions leave alone, so that TypeOK can be put together.
LEMMA TypeParts ==
  ASSUME TypeOK
  PROVE  /\ kind \in AllKinds /\ srv \in Policies /\ cached \in Policies
         /\ rec \in Handlers /\ rec.obj \in Policies /\ rec.pc \in Calls
         /\ rec.elapsed \in Never .. TimedOut /\ rec.answer \in OpState
         /\ ops \in [Ids -> OpState] /\ proved \subseteq Ids
         /\ budget \in [Events -> Nat]
BY DEF TypeOK, Handlers

LEMMA GoTypes ==
  ASSUME rec \in Handlers, NEW c \in Calls
  PROVE  Go(c) \in Handlers /\ Go(c).pc = c /\ Go(c).obj = rec.obj
BY DEF Go, Handlers

LEMMA VerdictTypes ==
  ASSUME TypeOK
  PROVE  /\ Verdict \in Handlers
         /\ Verdict # Rest => Verdict.obj = rec.obj /\ Verdict.pc \in {"undo", "note", "complete"}
         /\ Verdict.pc = "complete" => rec.answer = "done" \/ kind = "provision"
<1>1. FirstOfFailing(rec.obj) \in {"undo", "note"}
  BY MonitorTypes, TypeParts
<1>2. /\ Go(FirstOfFailing(rec.obj)) \in Handlers
      /\ Go(FirstOfFailing(rec.obj)).obj = rec.obj
      /\ Go(FirstOfFailing(rec.obj)).pc \in {"undo", "note"}
  BY <1>1, GoTypes, TypeParts DEF Calls
<1>3. Go("complete") \in Handlers /\ Go("complete").obj = rec.obj /\ Go("complete").pc = "complete"
  BY GoTypes, TypeParts DEF Calls
<1>4. Rest \in Handlers /\ Rest.pc = "idle"
  BY NewPolicyTypes DEF Rest
<1> QED
  BY <1>2, <1>3, <1>4 DEF Verdict

-----------------------------------------------------------------------------
(* What each action does to the server's object, the handler and the budget. *)

\* An object with a new text, phase or age.
LEMMA ObjectTypes ==
  ASSUME NEW o \in Policies
  PROVE  /\ \A p \in Phases : /\ [o EXCEPT !.phase = p] \in Policies
                             /\ [o EXCEPT !.phase = p].phase = p
                             /\ [o EXCEPT !.phase = p].result = o.result
         /\ [o EXCEPT !.phase = "Failed", !.result = Text] \in Policies
         /\ [o EXCEPT !.phase = "Failed", !.result = Text].phase = "Failed"
         /\ [o EXCEPT !.phase = "Failed", !.result = Text].result = Text
         /\ [o EXCEPT !.phase = "Executing", !.age = Fresh] \in Policies
         /\ [o EXCEPT !.phase = "Executing", !.age = Fresh].phase = "Executing"
         /\ [o EXCEPT !.phase = "Executing", !.age = Fresh].result = o.result
         /\ [o EXCEPT !.phase = "Pending", !.age = Never, !.result = NoResult] \in Policies
         /\ [o EXCEPT !.phase = "Pending", !.age = Never, !.result = NoResult].phase = "Pending"
         /\ [o EXCEPT !.phase = "Pending", !.age = Never, !.result = NoResult].result = NoResult
         /\ [o EXCEPT !.retry = FALSE] \in Policies
         /\ [o EXCEPT !.retry = FALSE].phase = o.phase
         /\ [o EXCEPT !.retry = FALSE].retry = FALSE
         /\ [o EXCEPT !.retry = FALSE].result = o.result
         /\ [o EXCEPT !.retry = TRUE] \in Policies
         /\ [o EXCEPT !.retry = TRUE].phase = o.phase
         /\ [o EXCEPT !.miss = 0, !.errs = 0] \in Policies
         /\ [o EXCEPT !.miss = 0, !.errs = 0].phase = o.phase
         /\ [o EXCEPT !.miss = 0, !.errs = 0].result = o.result
         /\ [o EXCEPT !.miss = 0, !.errs = 0].retry = o.retry
<1>1. /\ Text \in 0 .. Text /\ NoResult \in 0 .. Text
      /\ Never \in Never .. TimedOut /\ Fresh \in Never .. TimedOut
  BY PolicyAssumption DEF Text, NoResult, Never, Fresh, TimedOut
<1>2. {"Failed", "Pending", "Executing"} \subseteq Phases
  BY DEF Phases
<1> QED
  BY <1>1, <1>2 DEF Policies

\* A handler that goes on in one of the calls it makes next.
Advances(calls) ==
  rec' = Rest \/ (rec' \in Handlers /\ rec'.pc \in calls)

\* The single-field patches and the clearing of the streaks keep phase and retry.
LEMMA RunningTypes ==
  ASSUME TypeOK,
         Start \/ Record \/ Started \/ Mark \/ Streak \/ Poll \/ Clear \/ Miss \/ Err
           \/ Undo \/ Note
  PROVE  /\ rec.pc \in RunningCalls
         /\ srv' \in Policies /\ srv'.phase = srv.phase /\ srv'.retry = srv.retry
         /\ rec' \in Handlers /\ Advances(RunningCalls)
         /\ Poll \/ Clear \/ rec'.pc \notin {"poll", "clear", "complete"}
         /\ budget' \in [Events -> Nat]
         /\ budget'["stale"] = budget["stale"] /\ budget'["retry"] = budget["retry"]
         /\ ops' \in [Ids -> OpState] /\ UNCHANGED <<kind, cached, proved>>
<1> USE TypeParts
<1>0. Rest \in Handlers /\ Rest.pc = "idle" /\ \A o \in Policies : FirstOfFailing(o) \in {"undo", "note"}
  BY NewPolicyTypes, MonitorTypes DEF Rest
<1>fault. Fault => /\ budget' \in [Events -> Nat]
                   /\ budget'["stale"] = budget["stale"] /\ budget'["retry"] = budget["retry"]
  <2> SUFFICES ASSUME Spend("fault", MaxFaults)
               PROVE  /\ budget' \in [Events -> Nat]
                      /\ budget'["stale"] = budget["stale"] /\ budget'["retry"] = budget["retry"]
    BY DEF Fault
  <2> QED
    BY SpendTypes DEF Events
<1>1. CASE Start
  <2>1. rec.pc \in RunningCalls /\ UNCHANGED <<kind, srv, cached, proved>>
    BY <1>1 DEF Start, RunningCalls, Calls
  <2>2. /\ StartFailed(rec) \in Handlers
        /\ StartFailed(rec) = Rest \/ StartFailed(rec).pc \in {"streak", "undo", "note"}
    BY StartFailedTypes
  <2>3. CASE rec' = StartFailed(rec) /\ UNCHANGED <<ops, budget>>
    BY <1>0, <2>1, <2>2, <2>3 DEF Advances, RunningCalls, Calls
  <2>4. CASE \E i \in Ids :
          /\ ops[i] = "none" /\ \A j \in 1 .. i - 1 : ops[j] # "none"
          /\ ops' = [ops EXCEPT ![i] = "running"]
          /\ \/ /\ rec' = [rec EXCEPT !.obj.result = i,
                             !.pc = IF @ = "start" THEN "record" ELSE "rerecord"]
                /\ UNCHANGED budget
             \/ Fault /\ rec' = StartFailed(rec)
    <3>1. PICK i \in Ids :
          /\ ops' = [ops EXCEPT ![i] = "running"]
          /\ \/ /\ rec' = [rec EXCEPT !.obj.result = i,
                             !.pc = IF @ = "start" THEN "record" ELSE "rerecord"]
                /\ UNCHANGED budget
             \/ Fault /\ rec' = StartFailed(rec)
      BY <2>4
    <3>2. ops' \in [Ids -> OpState]
      BY <3>1 DEF OpState
    <3>3. CASE /\ rec' = [rec EXCEPT !.obj.result = i,
                             !.pc = IF @ = "start" THEN "record" ELSE "rerecord"]
               /\ UNCHANGED budget
      <4>1. i \in 0 .. Text
        BY PolicyAssumption DEF Ids, Text
      <4>2. [rec.obj EXCEPT !.result = i] \in Policies
        BY <4>1 DEF Policies
      <4>3. rec' \in Handlers /\ rec'.pc \in {"record", "rerecord"}
        BY <3>3, <4>2 DEF Handlers, Calls
      <4> QED
        BY <1>0, <2>1, <3>2, <3>3, <4>3 DEF Advances, RunningCalls, Calls
    <3>4. CASE Fault /\ rec' = StartFailed(rec)
      BY <1>0, <1>fault, <2>1, <2>2, <3>2, <3>4 DEF Advances, RunningCalls, Calls
    <3> QED
      BY <3>1, <3>3, <3>4
  <2> QED
    BY <1>1, <2>3, <2>4 DEF Start
<1>2. CASE Record
  <2> DEFINE after == OneField("result", rec.obj.result)
             ok == [rec EXCEPT !.pc = IF rec.pc = "record" THEN "started" ELSE "mark",
                               !.obj = StatusOf(@, after)]
  <2>1. /\ rec.pc \in {"record", "rerecord"} /\ Patch(after, ok, StartFailed(rec))
        /\ UNCHANGED <<kind, cached, ops, proved>>
    BY <1>2 DEF Record
  <2>2. after \in Policies /\ after.phase = srv.phase /\ after.retry = srv.retry
    <3>1. rec.obj.result \in 0 .. Text
      BY DEF Policies
    <3> QED
      BY <3>1, OneFieldTypes
  <2>3. StatusOf(rec.obj, after) \in Policies
    BY <2>2, StatusOfTypes
  <2>4. ok \in Handlers /\ ok.pc \in {"started", "mark"}
    BY <2>3 DEF Handlers, Calls
  <2>5. /\ StartFailed(rec) \in Handlers
        /\ StartFailed(rec) = Rest \/ StartFailed(rec).pc \in {"streak", "undo", "note"}
    BY StartFailedTypes
  <2> HIDE DEF after, ok
  <2> QED
    BY <1>0, <2>1, <2>2, <2>4, <2>5, PatchTypes DEF Advances, RunningCalls, Calls
<1>3. CASE Started \/ Mark
  <2>1. PICK n \in {0, 1} :
        /\ rec.pc \in {"started", "mark"} /\ Patch(OneField("start", n), Rest, Rest)
        /\ UNCHANGED <<kind, cached, ops, proved>>
    BY <1>3 DEF Started, Mark
  <2>2. /\ OneField("start", n) \in Policies /\ OneField("start", n).phase = srv.phase
        /\ OneField("start", n).retry = srv.retry
    BY OneFieldTypes
  <2> QED
    BY <1>0, <2>1, <2>2, PatchTypes DEF Advances, RunningCalls, Calls
<1>4. CASE Streak \/ Miss \/ Err
  <2>1. PICK f \in {"start", "miss", "errs"}, n \in Nat, b \in BOOLEAN :
        /\ rec.pc \in {"streak", "miss", "err"}
        /\ Patch(OneField(f, n), IF b THEN Go(FirstOfFailing(rec.obj)) ELSE Rest, Rest)
        /\ UNCHANGED <<kind, cached, ops, proved>>
    <3>1. rec.obj.start + 1 \in Nat /\ rec.obj.miss + 1 \in Nat /\ rec.obj.errs + 1 \in Nat
      BY DEF Policies
    <3>2. CASE Streak
      <4> DEFINE n == rec.obj.start + 1
                 b == ~(n < MaxStarts)
      <4>1. (IF n < MaxStarts THEN Rest ELSE Go(FirstOfFailing(rec.obj)))
              = (IF b THEN Go(FirstOfFailing(rec.obj)) ELSE Rest) /\ b \in BOOLEAN
        OBVIOUS
      <4>2. /\ rec.pc = "streak"
            /\ Patch(OneField("start", n), IF b THEN Go(FirstOfFailing(rec.obj)) ELSE Rest, Rest)
            /\ UNCHANGED <<kind, cached, ops, proved>>
        BY <3>2, <4>1 DEF Streak
      <4> HIDE DEF n, b
      <4>3. n \in Nat
        BY <3>1 DEF n
      <4> QED
        BY <4>1, <4>2, <4>3
    <3>3. CASE Miss
      <4> DEFINE n == rec.obj.miss + 1
                 b == n >= MaxMissing
      <4>1. /\ rec.pc = "miss" /\ b \in BOOLEAN
            /\ Patch(OneField("miss", n), IF b THEN Go(FirstOfFailing(rec.obj)) ELSE Rest, Rest)
            /\ UNCHANGED <<kind, cached, ops, proved>>
        BY <3>3 DEF Miss
      <4> HIDE DEF n, b
      <4>2. n \in Nat
        BY <3>1 DEF n
      <4> QED
        BY <4>1, <4>2
    <3>4. CASE Err
      <4> DEFINE n == rec.obj.errs + 1
                 b == n >= MaxErrors
      <4>1. /\ rec.pc = "err" /\ b \in BOOLEAN
            /\ Patch(OneField("errs", n), IF b THEN Go(FirstOfFailing(rec.obj)) ELSE Rest, Rest)
            /\ UNCHANGED <<kind, cached, ops, proved>>
        BY <3>4 DEF Err
      <4> HIDE DEF n, b
      <4>2. n \in Nat
        BY <3>1 DEF n
      <4> QED
        BY <4>1, <4>2
    <3> QED
      BY <1>4, <3>2, <3>3, <3>4
  <2> DEFINE ok == IF b THEN Go(FirstOfFailing(rec.obj)) ELSE Rest
  <2>2. /\ OneField(f, n) \in Policies /\ OneField(f, n).phase = srv.phase
        /\ OneField(f, n).retry = srv.retry
    BY OneFieldTypes
  <2>3. ok \in Handlers /\ (ok = Rest \/ ok.pc \in {"undo", "note"})
    BY <1>0, GoTypes DEF Calls
  <2> HIDE DEF ok
  <2> QED
    BY <1>0, <2>1, <2>2, <2>3, PatchTypes DEF ok, Advances, RunningCalls, Calls
<1>5. CASE Poll
  <2>1. /\ rec.pc \in RunningCalls /\ UNCHANGED <<kind, srv, cached, ops, proved, budget>>
    BY <1>5 DEF Poll, RunningCalls, Calls
  <2>2. Exists(rec.obj.result) => [rec EXCEPT !.pc = "clear", !.answer = ops[rec.obj.result]] \in Handlers
    BY DEF Exists, Handlers, Calls
  <2>3. CASE Exists(rec.obj.result)
             /\ rec' = [rec EXCEPT !.pc = "clear", !.answer = ops[rec.obj.result]]
    <3>1. rec'.pc = "clear"
      BY <2>3 DEF Handlers
    <3> QED
      BY <1>0, <1>5, <2>1, <2>2, <2>3, <3>1 DEF Advances, RunningCalls, Calls
  <2>4. CASE rec' = Go("miss")
    <3>1. Go("miss") \in Handlers /\ Go("miss").pc = "miss"
      BY GoTypes DEF Calls
    <3> QED
      BY <1>0, <1>5, <2>1, <2>4, <3>1 DEF Advances, RunningCalls, Calls
  <2>5. CASE rec' = Go("err")
    <3>1. Go("err") \in Handlers /\ Go("err").pc = "err"
      BY GoTypes DEF Calls
    <3> QED
      BY <1>0, <1>5, <2>1, <2>5, <3>1 DEF Advances, RunningCalls, Calls
  <2>6. \/ /\ Exists(rec.obj.result)
           /\ rec' = [rec EXCEPT !.pc = "clear", !.answer = ops[rec.obj.result]]
        \/ rec' = Go("miss")
        \/ rec' = Go("err")
    BY <1>5 DEF Poll
  <2> QED
    BY <2>3, <2>4, <2>5, <2>6
<1>6. CASE Clear
  <2> DEFINE c == [cached EXCEPT !.miss = 0, !.errs = 0]
             m == Merged(c, cached)
  <2>1. /\ rec.pc = "clear" /\ UNCHANGED <<kind, cached, ops, proved>>
        /\ \/ rec' = Verdict /\ UNCHANGED <<srv, budget>>
           \/ Patch(m, Verdict, Rest)
    BY <1>6 DEF Clear
  <2>2. c \in Policies /\ c.phase = cached.phase /\ c.retry = cached.retry
    BY ObjectTypes
  <2>3. m \in Policies /\ m.phase = srv.phase /\ m.retry = srv.retry
    <3> HIDE DEF c
    <3> QED
      BY <2>2, MergedTypes
  <2>4. Verdict \in Handlers /\ (Verdict = Rest \/ Verdict.pc \in {"undo", "note", "complete"})
    BY VerdictTypes
  <2> HIDE DEF m
  <2>5. CASE rec' = Verdict /\ UNCHANGED <<srv, budget>>
    BY <1>0, <1>6, <2>1, <2>4, <2>5 DEF Advances, RunningCalls, Calls
  <2>6. CASE Patch(m, Verdict, Rest)
    BY <1>0, <1>6, <2>1, <2>3, <2>4, <2>6, PatchTypes DEF Advances, RunningCalls, Calls
  <2> QED
    BY <2>1, <2>5, <2>6
<1>7. CASE Undo
  <2>1. /\ rec.pc = "undo" /\ rec' = Go("note") /\ UNCHANGED <<kind, srv, cached, proved>>
        /\ Fault \/ UNCHANGED budget
        /\ ops' \in [Ids -> OpState]
    BY <1>7 DEF Undo, Exists, OpState
  <2>2. rec' \in Handlers /\ rec'.pc = "note"
    BY <2>1, GoTypes DEF Calls
  <2> QED
    BY <1>0, <1>fault, <2>1, <2>2 DEF Advances, RunningCalls, Calls
<1>8. CASE Note
  <2> DEFINE ok == [rec EXCEPT !.pc = "fail", !.obj = srv]
  <2>1. /\ rec.pc = "note" /\ Patch(srv, ok, Rest) /\ UNCHANGED <<kind, cached, ops, proved>>
    BY <1>8 DEF Note
  <2>2. ok \in Handlers /\ ok.pc = "fail"
    BY DEF Handlers, Calls
  <2> HIDE DEF ok
  <2> QED
    BY <1>0, <2>1, <2>2, PatchTypes DEF Advances, RunningCalls, Calls
<1> QED
  BY <1>1, <1>2, <1>3, <1>4, <1>5, <1>6, <1>7, <1>8

\* What monitoring hands from one call to the next.
LEMMA MonitoringTypes ==
  ASSUME TypeOK, Poll \/ Clear
  PROVE  /\ rec'.pc # "poll"
         /\ rec'.pc \in {"clear", "complete"} =>
              /\ rec.pc \in {"poll", "clear"}
              /\ rec'.obj = rec.obj /\ srv'.result = srv.result
         /\ rec'.pc = "clear" =>
              Exists(rec.obj.result) /\ rec'.answer = ops[rec.obj.result]
         /\ rec'.pc = "complete" =>
              rec.pc = "clear" /\ (rec.answer = "done" \/ kind = "provision")
         /\ UNCHANGED ops
<1> USE TypeParts
<1>0. Rest \in Handlers /\ Rest.pc = "idle"
  BY NewPolicyTypes DEF Rest
<1>1. CASE Poll
  <2>1. CASE rec' = [rec EXCEPT !.pc = "clear", !.answer = ops[rec.obj.result]] /\ Exists(rec.obj.result)
    BY <1>1, <2>1 DEF Poll, Handlers
  <2>2. CASE rec' = Go("miss") \/ rec' = Go("err")
    <3>1. rec'.pc \in {"miss", "err"}
      BY <2>2, GoTypes DEF Calls
    <3> QED
      BY <1>1, <3>1 DEF Poll
  <2> QED
    BY <1>1, <2>1, <2>2 DEF Poll
<1>2. CASE Clear
  <2> DEFINE c == [cached EXCEPT !.miss = 0, !.errs = 0]
             m == Merged(c, cached)
  <2>1. /\ rec.pc = "clear" /\ UNCHANGED ops
        /\ \/ rec' = Verdict /\ UNCHANGED <<srv, budget>>
           \/ Patch(m, Verdict, Rest)
    BY <1>2 DEF Clear
  <2>2. c \in Policies /\ c.result = cached.result
    BY ObjectTypes
  <2>3. m \in Policies /\ m.result = srv.result
    <3> HIDE DEF c
    <3> QED
      BY <2>2, MergedTypes
  <2>4. Verdict \in Handlers
    BY VerdictTypes
  <2> HIDE DEF m
  <2>5. rec' \in {Verdict, Rest} /\ srv'.result = srv.result
    BY <1>0, <2>1, <2>3, <2>4, PatchTypes
  <2> QED
    BY <1>0, <2>1, <2>5, VerdictTypes
<1> QED
  BY <1>1, <1>2

\* The calls that end a handler, each with the phase it asks for.
LEMMA EndingTypes ==
  ASSUME TypeOK, Pend \/ Judge \/ Fail \/ Complete \/ Reset
  PROVE  /\ srv' \in Policies /\ srv'.retry = srv.retry
         /\ rec' = Rest
         /\ budget' \in [Events -> Nat]
         /\ budget'["stale"] = budget["stale"] /\ budget'["retry"] = budget["retry"]
         /\ UNCHANGED <<kind, cached, ops, proved>>
         /\ \/ rec.pc = "pend" /\ srv'.phase \in {srv.phase, "Pending"}
            \/ rec.pc = "judge" /\ srv'.phase \in {srv.phase, "Pending", "Approved", "Rejected"}
            \/ rec.pc = "fail" /\ srv'.phase \in {srv.phase, "Failed"}
            \/ /\ rec.pc = "complete" /\ srv'.phase \in {srv.phase, "Completed"}
               /\ srv'.phase = srv.phase \/ srv'.result =
                    (IF rec.obj.result # cached.result THEN rec.obj.result ELSE srv.result)
            \/ rec.pc = "reset" /\ srv'.phase \in {srv.phase, "Pending"}
         /\ srv'.result \in {srv.result, rec.obj.result, NoResult, Text}
         /\ rec.pc = "complete" => srv'.result \in {srv.result, rec.obj.result}
<1> USE TypeParts
<1>1. CASE Pend
  <2> DEFINE new == [rec.obj EXCEPT !.phase = "Pending"]
  <2>1. rec.pc = "pend" /\ StatusPatch(new) /\ UNCHANGED <<kind, cached, ops, proved>>
    BY <1>1 DEF Pend
  <2>2. new \in Policies /\ new.phase = "Pending" /\ new.result = rec.obj.result
    BY ZenonT(60), ObjectTypes DEF Phases
  <2> HIDE DEF new
  <2> QED
    BY <2>1, <2>2, StatusPatchTypes
<1>2. CASE Judge
  <2>1. PICK d \in {"Approved", "Rejected", "Pending"} : StatusPatch([rec.obj EXCEPT !.phase = d])
    BY <1>2 DEF Judge
  <2> DEFINE new == [rec.obj EXCEPT !.phase = d]
  <2>2. rec.pc = "judge" /\ StatusPatch(new) /\ UNCHANGED <<kind, cached, ops, proved>>
    BY <1>2, <2>1 DEF Judge
  <2>3. new \in Policies /\ new.phase = d /\ new.result = rec.obj.result
    <3>1. d \in Phases
      BY DEF Phases
    <3>2. \A p \in Phases : /\ [rec.obj EXCEPT !.phase = p] \in Policies
                            /\ [rec.obj EXCEPT !.phase = p].phase = p
                            /\ [rec.obj EXCEPT !.phase = p].result = rec.obj.result
      BY DEF Policies
    <3> QED
      BY <3>1, <3>2
  <2> HIDE DEF new
  <2> QED
    BY <2>2, <2>3, StatusPatchTypes
<1>3. CASE Fail
  <2> DEFINE new == [rec.obj EXCEPT !.phase = "Failed", !.result = Text]
  <2>1. rec.pc = "fail" /\ StatusPatch(new) /\ UNCHANGED <<kind, cached, ops, proved>>
    BY <1>3 DEF Fail
  <2>2. new \in Policies /\ new.phase = "Failed" /\ new.result = Text
    BY ObjectTypes
  <2> HIDE DEF new
  <2> QED
    BY <2>1, <2>2, StatusPatchTypes
<1>4. CASE Complete
  <2> DEFINE new == [rec.obj EXCEPT !.phase = "Completed"]
  <2>1. rec.pc = "complete" /\ StatusPatch(new) /\ UNCHANGED <<kind, cached, ops, proved>>
    BY <1>4 DEF Complete
  <2>2. new \in Policies /\ new.phase = "Completed" /\ new.result = rec.obj.result
    BY ObjectTypes DEF Phases
  <2> HIDE DEF new
  <2> QED
    BY <2>1, <2>2, StatusPatchTypes
<1>5. CASE Reset
  <2> DEFINE new == [rec.obj EXCEPT !.phase = "Pending", !.age = Never, !.result = NoResult]
  <2>1. rec.pc = "reset" /\ StatusPatch(new) /\ UNCHANGED <<kind, cached, ops, proved>>
    BY <1>5 DEF Reset
  <2>2. new \in Policies /\ new.phase = "Pending" /\ new.result = NoResult
    BY ObjectTypes
  <2> HIDE DEF new
  <2> QED
    BY <2>1, <2>2, StatusPatchTypes
<1> QED
  BY <1>1, <1>2, <1>3, <1>4, <1>5

LEMMA BeginTypes ==
  ASSUME TypeOK, Begin
  PROVE  /\ rec.pc = "begin"
         /\ srv' \in Policies /\ srv'.retry = srv.retry
         /\ srv'.phase \in {srv.phase, "Executing"}
         /\ rec' \in Handlers
         /\ \/ rec' = Rest
            \/ rec'.pc = "start" /\ (cached.phase # "Executing" => srv'.phase = "Executing")
         /\ srv'.result \in {srv.result, rec.obj.result}
         /\ rec'.obj.result \in {NoResult, srv.result, rec.obj.result}
         /\ budget' \in [Events -> Nat]
         /\ budget'["stale"] = budget["stale"] /\ budget'["retry"] = budget["retry"]
         /\ UNCHANGED <<kind, cached, ops, proved>>
<1> USE TypeParts
<1> DEFINE new   == [rec.obj EXCEPT !.phase = "Executing", !.age = Fresh]
           s     == StatusOf(cached, new)
           m     == Merged(s, cached)
           after == [m EXCEPT !.age = Fresh]
           ok    == [rec EXCEPT !.pc = "start", !.obj = StatusOf(@, after)]
<1>1. /\ rec.pc = "begin" /\ Patch(after, ok, Rest)
      /\ UNCHANGED <<kind, cached, ops, proved>>
  BY DEF Begin
<1>2. new \in Policies /\ new.phase = "Executing" /\ new.result = rec.obj.result
  BY ObjectTypes
<1>3. /\ s \in Policies /\ s.phase = "Executing" /\ s.retry = cached.retry
      /\ s.result = rec.obj.result
  <2> HIDE DEF new
  <2> QED
    BY <1>2, StatusOfTypes
<1>4. /\ m \in Policies /\ m.retry = srv.retry
      /\ m.result \in {srv.result, rec.obj.result}
      /\ m.phase = IF "Executing" # cached.phase THEN "Executing" ELSE srv.phase
  <2> HIDE DEF s
  <2> QED
    BY <1>3, MergedTypes
<1>5. /\ after \in Policies /\ after.retry = m.retry /\ after.phase = m.phase
      /\ after.result = m.result
  <2> HIDE DEF m
  <2> QED
    BY <1>4 DEF Policies, Fresh, Never, TimedOut
<1> HIDE DEF m, after
<1>6. /\ StatusOf(rec.obj, after) \in Policies
      /\ StatusOf(rec.obj, after).result = after.result
  BY <1>5, StatusOfTypes
<1>7. ok \in Handlers /\ ok.pc = "start" /\ ok.obj.result = after.result
  BY <1>6 DEF Handlers, Calls
<1>8. Rest.obj.result = NoResult
  BY DEF Rest, NewPolicy
<1> HIDE DEF ok
<1> QED
  BY <1>1, <1>4, <1>5, <1>7, <1>8, NewPolicyTypes, PatchTypes

LEMMA UnmarkTypes ==
  ASSUME TypeOK, Unmark
  PROVE  /\ rec.pc = "unmark"
         /\ srv' \in Policies /\ srv'.phase = srv.phase
         /\ srv'.retry => srv.retry
         /\ rec' \in Handlers /\ (rec' = Rest \/ rec'.pc = "reset")
         /\ srv'.result = srv.result /\ rec'.obj.result \in {NoResult, srv.result}
         /\ budget' \in [Events -> Nat]
         /\ budget'["stale"] = budget["stale"] /\ budget'["retry"] = budget["retry"]
         /\ UNCHANGED <<kind, cached, ops, proved>>
<1> USE TypeParts
<1> DEFINE after == [srv EXCEPT !.retry = FALSE]
           ok    == [rec EXCEPT !.pc = "reset", !.obj = after]
<1>1. /\ rec.pc = "unmark" /\ Patch(after, ok, Rest)
      /\ UNCHANGED <<kind, cached, ops, proved>>
  BY DEF Unmark
<1>2. /\ after \in Policies /\ after.phase = srv.phase /\ after.retry = FALSE
      /\ after.result = srv.result
  BY ObjectTypes
<1> HIDE DEF after
<1>3. ok \in Handlers /\ ok.pc = "reset" /\ ok.obj.result = srv.result
  BY <1>2 DEF Handlers, Calls
<1>4. Rest.obj.result = NoResult
  BY DEF Rest, NewPolicy
<1> HIDE DEF ok
<1> QED
  BY <1>1, <1>2, <1>3, <1>4, NewPolicyTypes, PatchTypes

LEMMA ReconcileTypes ==
  ASSUME TypeOK, Reconcile
  PROVE  /\ rec.pc = "idle" /\ rec' \in Handlers
         /\ rec'.pc = FirstCall(cached) /\ rec'.obj = cached
         /\ budget' \in [Events -> Nat] /\ budget'["retry"] = budget["retry"]
         /\ \/ cached = srv /\ budget'["stale"] = budget["stale"]
            \/ budget'["stale"] > 0
         /\ UNCHANGED <<kind, srv, cached, ops, proved>>
<1> USE TypeParts
<1>1. /\ FirstCall(cached) \in Calls /\ cached.age \in Never .. TimedOut /\ "none" \in OpState
  BY FirstCallTypes DEF Policies, OpState
<1>2. rec' \in Handlers /\ rec'.pc = FirstCall(cached) /\ rec'.obj = cached
  BY <1>1 DEF Reconcile, Handlers
<1>3. CASE cached = srv
  BY <1>2, <1>3 DEF Reconcile
<1>4. CASE Spend("stale", MaxStale)
  <2>1. "stale" \in Events /\ "retry" \in Events \ {"stale"}
    BY DEF Events
  <2>2. budget["stale"] + 1 > 0
    BY <2>1
  <2> QED
    BY <1>2, <1>4, <2>1, <2>2, SpendTypes DEF Reconcile
<1> QED
  BY <1>3, <1>4 DEF Reconcile

LEMMA SurroundingsTypes ==
  ASSUME TypeOK,
         Deliver \/ Tick \/ (\E i \in Ids : OpEnds(i)) \/ Forget
           \/ UserApproves \/ UserRetries \/ Crash
  PROVE  /\ srv' \in Policies /\ cached' \in Policies /\ rec' \in Handlers
         /\ srv'.phase = srv.phase \/ (srv.phase = "Pending" /\ srv'.phase = "Approved")
         /\ srv'.result = srv.result
         /\ srv'.retry => srv.retry \/ budget'["retry"] > 0
         /\ \/ cached'.phase = cached.phase /\ cached'.retry = cached.retry
            \/ cached'.phase = srv'.phase /\ cached'.retry = srv'.retry
         /\ \/ rec' = Rest
            \/ /\ rec'.pc = rec.pc /\ rec'.answer = rec.answer
               /\ rec'.obj.result = rec.obj.result
         /\ budget' \in [Events -> Nat]
         /\ budget'["stale"] = budget["stale"] /\ budget'["retry"] >= budget["retry"]
         /\ ops' \in [Ids -> OpState] /\ proved' \subseteq Ids /\ proved \subseteq proved'
         /\ \A i \in Ids : ops'[i] = "done" => ops[i] = "done" \/ i \in proved'
         /\ UNCHANGED kind
<1> USE TypeParts
<1>0. /\ Rest \in Handlers
      /\ "stale" \in Events /\ "retry" \in Events /\ "fault" \in Events
      /\ budget["retry"] \in Nat /\ budget["stale"] \in Nat
  BY NewPolicyTypes DEF Events
<1>1. CASE Deliver
  BY <1>0, <1>1 DEF Deliver
<1>2. CASE Tick
  <2>1. /\ srv' = Older(srv) /\ cached' = Older(cached)
        /\ rec' = [rec EXCEPT !.obj = Older(rec.obj)]
        /\ UNCHANGED <<kind, ops, proved, budget>>
    BY <1>2 DEF Tick
  <2>2. Older(rec.obj) \in Policies /\ Older(rec.obj).result = rec.obj.result
    BY OlderTypes
  <2>3. /\ rec' \in Handlers /\ rec'.pc = rec.pc /\ rec'.answer = rec.answer
        /\ rec'.obj.result = rec.obj.result
    BY <2>1, <2>2 DEF Handlers
  <2> QED
    BY <1>0, <2>1, <2>3, OlderTypes
<1>3. CASE \E i \in Ids : OpEnds(i)
  <2>1. PICK i \in Ids : OpEnds(i)
    BY <1>3
  <2>2. ops' \in [Ids -> OpState] /\ proved' \subseteq Ids /\ proved \subseteq proved'
    BY <2>1 DEF OpEnds, OpState
  <2>3. \A j \in Ids : ops'[j] = "done" => ops[j] = "done" \/ j \in proved'
    BY <2>1 DEF OpEnds
  <2> QED
    BY <1>0, <2>1, <2>2, <2>3 DEF OpEnds
<1>4. CASE Forget
  <2>1. ops' \in [Ids -> OpState] /\ \A j \in Ids : ops'[j] = "done" => ops[j] = "done"
    BY <1>4 DEF Forget, OpState
  <2> QED
    BY <1>0, <1>4, <2>1 DEF Forget
<1>5. CASE UserApproves
  <2>1. srv' \in Policies /\ srv'.phase = "Approved" /\ srv'.result = srv.result /\ srv'.retry = srv.retry
    BY <1>5 DEF UserApproves, Policies, Phases
  <2> QED
    BY <1>0, <1>5, <2>1 DEF UserApproves
<1>6. CASE UserRetries
  <2>1. srv' \in Policies /\ srv'.phase = srv.phase /\ srv'.result = srv.result
    BY <1>6 DEF UserRetries, Policies
  <2>2. /\ budget' \in [Events -> Nat] /\ budget'["retry"] = budget["retry"] + 1
        /\ budget'["stale"] = budget["stale"]
    <3>1. Spend("retry", MaxRetries) /\ "stale" \in Events \ {"retry"}
      BY <1>6 DEF UserRetries, Events
    <3> QED
      BY <1>0, <3>1, SpendTypes
  <2> QED
    BY <1>0, <1>6, <2>1, <2>2 DEF UserRetries
<1>7. CASE Crash
  <2>1. /\ budget' \in [Events -> Nat] /\ budget'["retry"] = budget["retry"]
        /\ budget'["stale"] = budget["stale"]
    <3>1. Spend("fault", MaxFaults) /\ {"stale", "retry"} \subseteq Events \ {"fault"}
      BY <1>7 DEF Crash, Fault, Events
    <3> QED
      BY <1>0, <3>1, SpendTypes
  <2> QED
    BY <1>0, <1>7, <2>1 DEF Crash
<1> QED
  BY <1>1, <1>2, <1>3, <1>4, <1>5, <1>6, <1>7

-----------------------------------------------------------------------------
(* Type correctness.                                                       *)

LEMMA TypeStep == TypeOK /\ [Next]_vars => TypeOK'
<1> SUFFICES ASSUME TypeOK, [Next]_vars PROVE TypeOK'
  OBVIOUS
<1> USE TypeParts
<1>1. SUFFICES /\ kind' \in AllKinds /\ srv' \in Policies /\ cached' \in Policies
               /\ rec' \in Handlers /\ ops' \in [Ids -> OpState] /\ proved' \subseteq Ids
               /\ budget' \in [Events -> Nat]
  BY DEF TypeOK, Handlers
<1>2. CASE Reconcile
  BY <1>2, ReconcileTypes
<1>3. CASE Pend \/ Judge \/ Fail \/ Complete \/ Reset
  BY <1>3, EndingTypes, NewPolicyTypes
<1>4. CASE Begin
  BY <1>4, BeginTypes
<1>5. CASE Unmark
  BY <1>5, UnmarkTypes
<1>6. CASE Start \/ Record \/ Started \/ Mark \/ Streak \/ Poll \/ Clear \/ Miss \/ Err
             \/ Undo \/ Note
  BY <1>6, RunningTypes
<1>7. CASE Deliver \/ Tick \/ (\E i \in Ids : OpEnds(i)) \/ Forget
             \/ UserApproves \/ UserRetries \/ Crash
  BY <1>7, SurroundingsTypes
<1>8. CASE UNCHANGED vars
  BY <1>8 DEF vars
<1> QED
  BY <1>2, <1>3, <1>4, <1>5, <1>6, <1>7, <1>8 DEF Next

\* The variables keep their types: every patch, computed from whatever copies, leaves a
\* policy in the server (orchestrationpolicy_controller.go:1646).
THEOREM PolicyTypeOK == Spec => []TypeOK
<1>1. Init => TypeOK
  BY TypeInit
<1>2. TypeOK /\ [Next]_vars => TypeOK'
  BY TypeStep
<1> QED
  BY <1>1, <1>2, PTL DEF Spec

-----------------------------------------------------------------------------
(* The invariant.                                                          *)

\* While a handler is between two calls, nobody else changes the phase it found.
HandlerKnows ==
  /\ rec.pc = "pend" => srv.phase = "new"
  /\ rec.pc = "judge" => srv.phase \in {"Pending", "Approved"}
  /\ rec.pc = "begin" => srv.phase = "Approved" /\ cached.phase = "Approved"
  /\ rec.pc \in {"unmark", "reset"} => srv.phase = "Failed"
  /\ rec.pc \in RunningCalls => srv.phase = "Executing"

\* A retry in any copy was asked for.
RetryAsked ==
  srv.retry \/ cached.retry \/ rec.pc \in {"unmark", "reset"} => budget["retry"] > 0

\* A handler that monitors has the operation that the server's object names.
ResultKnown == rec.pc \in {"poll", "clear", "complete"} => srv.result = rec.obj.result

\* Whoever says that an operation is done knows that it once was.
WordProved ==
  /\ \A i \in Ids : ops[i] = "done" => i \in proved
  /\ rec.pc = "clear" /\ rec.answer = "done" => rec.obj.result \in proved
  /\ rec.pc = "complete" /\ kind # "provision" => rec.obj.result \in proved

PolicyInv ==
  /\ TypeOK /\ RetryAsked /\ WordProved
  /\ ReadCurrent => HandlerKnows /\ ResultKnown /\ CompletedIsProved

LEMMA CurrentBefore ==
  ASSUME TypeOK, [Next]_vars, ReadCurrent' PROVE ReadCurrent
<1> USE TypeParts
<1>0. budget["stale"] \in Nat /\ budget'["stale"] = 0
  BY DEF ReadCurrent, Events
<1>1. CASE Reconcile
  BY <1>0, <1>1, ReconcileTypes DEF ReadCurrent
<1>2. CASE Pend \/ Judge \/ Fail \/ Complete \/ Reset
  BY <1>0, <1>2, EndingTypes DEF ReadCurrent
<1>3. CASE Begin
  BY <1>0, <1>3, BeginTypes DEF ReadCurrent
<1>4. CASE Unmark
  BY <1>0, <1>4, UnmarkTypes DEF ReadCurrent
<1>5. CASE Start \/ Record \/ Started \/ Mark \/ Streak \/ Poll \/ Clear \/ Miss \/ Err
             \/ Undo \/ Note
  BY <1>0, <1>5, RunningTypes DEF ReadCurrent
<1>6. CASE Deliver \/ Tick \/ (\E i \in Ids : OpEnds(i)) \/ Forget
             \/ UserApproves \/ UserRetries \/ Crash
  BY <1>0, <1>6, SurroundingsTypes DEF ReadCurrent
<1>7. CASE UNCHANGED vars
  BY <1>0, <1>7 DEF vars, ReadCurrent
<1> QED
  BY <1>1, <1>2, <1>3, <1>4, <1>5, <1>6, <1>7 DEF Next

LEMMA RetryStep == TypeOK /\ RetryAsked /\ [Next]_vars => RetryAsked'
<1> SUFFICES ASSUME TypeOK, RetryAsked, [Next]_vars PROVE RetryAsked'
  OBVIOUS
<1> USE TypeParts DEF RetryAsked
<1>0. Rest.pc = "idle" /\ budget["retry"] \in Nat
  BY DEF Rest, Events
<1>1. CASE Reconcile
  <2>1. FirstCall(cached) # "reset" /\ (FirstCall(cached) = "unmark" => cached.retry)
    BY FirstCallTypes
  <2> QED
    BY <1>1, <2>1, ReconcileTypes
<1>2. CASE Pend \/ Judge \/ Fail \/ Complete \/ Reset
  BY <1>0, <1>2, EndingTypes
<1>3. CASE Begin
  BY <1>0, <1>3, BeginTypes
<1>4. CASE Unmark
  BY <1>0, <1>4, UnmarkTypes
<1>5. CASE Start \/ Record \/ Started \/ Mark \/ Streak \/ Poll \/ Clear \/ Miss \/ Err
             \/ Undo \/ Note
  BY <1>0, <1>5, RunningTypes DEF Advances, RunningCalls
<1>6. CASE Deliver \/ Tick \/ (\E i \in Ids : OpEnds(i)) \/ Forget
             \/ UserApproves \/ UserRetries \/ Crash
  <2>1. budget'["retry"] \in Nat /\ budget'["retry"] >= budget["retry"]
    BY <1>6, SurroundingsTypes DEF Events
  <2>2. budget["retry"] > 0 => budget'["retry"] > 0
    BY <1>0, <2>1
  <2> QED
    BY <1>0, <1>6, <2>2, SurroundingsTypes
<1>7. CASE UNCHANGED vars
  BY <1>7 DEF vars
<1> QED
  BY <1>1, <1>2, <1>3, <1>4, <1>5, <1>6, <1>7 DEF Next

LEMMA WordStep == TypeOK /\ WordProved /\ [Next]_vars => WordProved'
<1> SUFFICES ASSUME TypeOK, WordProved, [Next]_vars PROVE WordProved'
  OBVIOUS
<1> USE TypeParts DEF WordProved
<1>0. Rest.pc = "idle"
  BY DEF Rest
<1>1. CASE Reconcile
  <2>1. FirstCall(cached) \notin {"clear", "complete"}
    BY DEF FirstCall, Monitor, FirstOfFailing
  <2> QED
    BY <1>1, <2>1, ReconcileTypes
<1>2. CASE Pend \/ Judge \/ Fail \/ Complete \/ Reset
  BY <1>0, <1>2, EndingTypes
<1>3. CASE Begin
  BY <1>0, <1>3, BeginTypes
<1>4. CASE Unmark
  BY <1>0, <1>4, UnmarkTypes
<1>5. CASE Poll \/ Clear
  <2>1. UNCHANGED <<kind, proved, ops>>
    BY <1>5, RunningTypes, MonitoringTypes
  <2>2. Exists(rec.obj.result) => rec.obj.result \in Ids
    BY DEF Exists
  <2> QED
    BY <1>5, <2>1, <2>2, MonitoringTypes
<1>6. CASE Start \/ Record \/ Started \/ Mark \/ Streak \/ Miss \/ Err \/ Undo \/ Note
  <2>1. UNCHANGED <<kind, proved>>
    BY <1>6, RunningTypes
  <2>2. rec'.pc \notin {"clear", "complete"}
    <3>1. ~(Poll \/ Clear)
      BY <1>6 DEF Start, Record, Started, Mark, Streak, Miss, Err, Undo, Note, Poll, Clear
    <3> QED
      BY <1>6, <3>1, RunningTypes
  <2>3. \A i \in Ids : ops'[i] = "done" => ops[i] = "done"
    BY <1>6 DEF Start, Record, Started, Mark, Streak, Miss, Err, Undo, Note, Exists
  <2> QED
    BY <2>1, <2>2, <2>3
<1>7. CASE Deliver \/ Tick \/ (\E i \in Ids : OpEnds(i)) \/ Forget
             \/ UserApproves \/ UserRetries \/ Crash
  BY <1>0, <1>7, SurroundingsTypes
<1>8. CASE UNCHANGED vars
  BY <1>8 DEF vars
<1> QED
  BY <1>1, <1>2, <1>3, <1>4, <1>5, <1>6, <1>7, <1>8 DEF Next

LEMMA CurrentStep ==
  ASSUME PolicyInv, [Next]_vars, ReadCurrent'
  PROVE  (HandlerKnows /\ ResultKnown /\ CompletedIsProved)'
<1> USE TypeParts
<1>0. /\ TypeOK /\ WordProved /\ ReadCurrent
      /\ HandlerKnows /\ ResultKnown /\ CompletedIsProved
  BY CurrentBefore DEF PolicyInv
<1>a. Rest.pc = "idle" /\ "idle" \notin RunningCalls
  BY DEF Rest, RunningCalls
<1>1. CASE Reconcile
  <2>1. /\ rec'.pc = FirstCall(srv) /\ rec'.obj = srv /\ cached = srv
        /\ UNCHANGED <<kind, srv, cached, proved>>
    BY <1>0, <1>1, ReconcileTypes DEF ReadCurrent
  <2> QED
    BY <1>0, <2>1, FirstCallTypes DEF HandlerKnows, ResultKnown, CompletedIsProved, ReadCurrent
<1>2. CASE Pend \/ Judge \/ Fail \/ Reset
  <2>1. /\ rec' = Rest
        /\ srv'.phase = srv.phase \/ srv'.phase # "Completed"
        /\ srv.phase # "Completed"
    BY <1>0, <1>2, EndingTypes
    DEF Pend, Judge, Fail, Reset, HandlerKnows, RunningCalls, Calls
  <2> QED
    BY <1>a, <2>1 DEF HandlerKnows, ResultKnown, CompletedIsProved
<1>3. CASE Complete
  <2>1. rec.pc = "complete" /\ srv.phase = "Executing" /\ srv.result = rec.obj.result
    BY <1>0, <1>3 DEF Complete, HandlerKnows, ResultKnown, RunningCalls, Calls
  <2>2. /\ rec' = Rest /\ UNCHANGED <<kind, proved>>
        /\ srv'.phase = srv.phase \/ srv'.result = rec.obj.result
    BY <1>0, <1>3, <2>1, EndingTypes
  <2> QED
    BY <1>0, <1>a, <2>1, <2>2 DEF HandlerKnows, ResultKnown, CompletedIsProved, WordProved
<1>4. CASE Begin
  <2>1. srv.phase = "Approved" /\ cached.phase = "Approved"
    BY <1>0, <1>4, BeginTypes DEF HandlerKnows
  <2> QED
    BY <1>0, <1>a, <1>4, <2>1, BeginTypes DEF HandlerKnows, ResultKnown, CompletedIsProved
<1>5. CASE Unmark
  <2>1. srv.phase = "Failed"
    BY <1>0, <1>5, UnmarkTypes DEF HandlerKnows
  <2> QED
    BY <1>0, <1>a, <1>5, <2>1, UnmarkTypes
    DEF HandlerKnows, ResultKnown, CompletedIsProved, RunningCalls
<1>6. CASE Start \/ Record \/ Started \/ Mark \/ Streak \/ Poll \/ Clear \/ Miss \/ Err
             \/ Undo \/ Note
  <2>1. srv.phase = "Executing" /\ srv'.phase = "Executing" /\ Advances(RunningCalls)
    BY <1>0, <1>6, RunningTypes DEF HandlerKnows
  <2>2. HandlerKnows' /\ CompletedIsProved'
    BY <1>a, <2>1 DEF HandlerKnows, CompletedIsProved, Advances, RunningCalls
  <2>3. ResultKnown'
    <3>1. CASE Poll \/ Clear
      BY <1>0, <3>1, MonitoringTypes DEF ResultKnown
    <3>2. CASE ~(Poll \/ Clear)
      BY <1>0, <1>6, <3>2, RunningTypes DEF ResultKnown
    <3> QED
      BY <3>1, <3>2
  <2> QED
    BY <2>2, <2>3
<1>7. CASE Deliver \/ Tick \/ (\E i \in Ids : OpEnds(i)) \/ Forget
             \/ UserApproves \/ UserRetries \/ Crash
  <2>1. HandlerKnows'
    BY <1>0, <1>a, <1>7, SurroundingsTypes DEF HandlerKnows, RunningCalls
  <2>2. ResultKnown'
    BY <1>0, <1>a, <1>7, SurroundingsTypes DEF ResultKnown
  <2>3. CompletedIsProved'
    BY <1>0, <1>7, SurroundingsTypes DEF CompletedIsProved
  <2> QED
    BY <2>1, <2>2, <2>3
<1>8. CASE UNCHANGED vars
  BY <1>0, <1>8 DEF vars, HandlerKnows, ResultKnown, CompletedIsProved, ReadCurrent
<1> QED
  BY <1>1, <1>2, <1>3, <1>4, <1>5, <1>6, <1>7, <1>8 DEF Next

\* What the controller's patches, calls and crashes keep (orchestrationpolicy_controller.go:
\* 97-163, 1646).
THEOREM PolicyInvariant == Spec => []PolicyInv
<1>1. Init => PolicyInv
  <2> SUFFICES ASSUME Init PROVE PolicyInv
    OBVIOUS
  <2>1. srv = NewPolicy /\ cached = NewPolicy /\ rec = Rest /\ ops = [i \in Ids |-> "none"]
    BY DEF Init
  <2> QED
    BY <2>1, TypeInit
    DEF PolicyInv, RetryAsked, WordProved, HandlerKnows, ResultKnown, CompletedIsProved,
        NewPolicy, Rest, RunningCalls
<1>2. PolicyInv /\ [Next]_vars => PolicyInv'
  <2> SUFFICES ASSUME PolicyInv, [Next]_vars PROVE PolicyInv'
    OBVIOUS
  <2>1. (TypeOK /\ RetryAsked /\ WordProved)'
    BY TypeStep, RetryStep, WordStep DEF PolicyInv
  <2>2. ReadCurrent' => (HandlerKnows /\ ResultKnown /\ CompletedIsProved)'
    BY CurrentStep
  <2> QED
    BY <2>1, <2>2 DEF PolicyInv
<1> QED
  BY <1>1, <1>2, PTL DEF Spec

-----------------------------------------------------------------------------
(* The theorems.                                                           *)

\* A policy is Completed only on the word of the operation it names, for any limits and
\* any number of crashes, failing patches and retries (orchestrationpolicy_controller.go:
\* 1537), as long as no reconcile has read an old object.
THEOREM PolicyCompletedIsProved == Spec => []CompletedIsProved
<1>1. PolicyInv => CompletedIsProved
  BY DEF PolicyInv, CompletedIsProved
<1> QED
  BY <1>1, PolicyInvariant, PTL

LEMMA TerminalStep ==
  ASSUME PolicyInv, [Next]_vars
  PROVE  ReadCurrent' /\ srv.phase \in Terminal /\ srv'.phase # srv.phase =>
           srv.phase = "Failed" /\ srv'.phase = "Pending" /\ budget["retry"] > 0
<1> SUFFICES ASSUME ReadCurrent', srv.phase \in Terminal, srv'.phase # srv.phase
             PROVE  srv.phase = "Failed" /\ srv'.phase = "Pending" /\ budget["retry"] > 0
  OBVIOUS
<1>0. TypeOK /\ RetryAsked /\ HandlerKnows
  BY CurrentBefore DEF PolicyInv
<1>1. CASE Reconcile
  BY <1>0, <1>1, ReconcileTypes
<1>2. CASE Pend \/ Judge \/ Fail \/ Complete \/ Reset
  BY <1>0, <1>2, EndingTypes DEF HandlerKnows, RetryAsked, RunningCalls, Calls, Terminal
<1>3. CASE Begin
  BY <1>0, <1>3, BeginTypes DEF HandlerKnows, Terminal
<1>4. CASE Unmark
  BY <1>0, <1>4, UnmarkTypes
<1>5. CASE Start \/ Record \/ Started \/ Mark \/ Streak \/ Poll \/ Clear \/ Miss \/ Err
             \/ Undo \/ Note
  BY <1>0, <1>5, RunningTypes
<1>6. CASE Deliver \/ Tick \/ (\E i \in Ids : OpEnds(i)) \/ Forget
             \/ UserApproves \/ UserRetries \/ Crash
  BY <1>0, <1>6, SurroundingsTypes DEF Terminal
<1>7. CASE UNCHANGED vars
  BY <1>7 DEF vars
<1> QED
  BY <1>1, <1>2, <1>3, <1>4, <1>5, <1>6, <1>7 DEF Next

\* Ends are final, and only a failed policy comes back, when asked to
\* (orchestrationpolicy_controller.go:1509), for any limits, crashes and failing patches,
\* as long as no reconcile has read an old object.
THEOREM PolicyTerminalIsFinal == Spec => TerminalIsFinal
<1>1. PolicyInv /\ [Next]_vars =>
        [ReadCurrent' /\ srv.phase \in Terminal /\ srv'.phase # srv.phase =>
           srv.phase = "Failed" /\ srv'.phase = "Pending" /\ budget["retry"] > 0]_vars
  BY TerminalStep
<1> QED
  BY <1>1, PolicyInvariant, PTL DEF Spec, TerminalIsFinal
-----------------------------------------------------------------------------
(* Operations that are lost.                                               *)

\* The calls of a handler that has looked at the operation it works for, and the phases in
\* which a policy keeps its operation.
MonitoringCalls ==
  {"started", "mark", "streak", "poll", "clear", "miss", "err", "undo", "complete"}
LivePhases == {"Executing", "Completed"}

\* The policy names i, and no handler is about to forget it.
Safe(i) ==
  /\ srv.result = i /\ srv.phase \in LivePhases
  /\ rec.pc = "idle" \/ (rec.obj.result = i /\ rec.pc \in MonitoringCalls)

Existing == {i \in Ids : Exists(i)}
Lost == {i \in Existing : ~InHand(i) /\ ~Safe(i)}

\* A backfill of a policy that is no longer executing will lose what it starts.
Debt == IF rec.pc \in {"again", "rerecord"} /\ srv.phase \notin LivePhases THEN 1 ELSE 0

Spent == budget["fault"] + budget["stale"]
LossesPaid == Undoable(kind) => Cardinality(Lost) + Debt <= Spent

\* No copy names an operation that has not been started.
NamesKnown ==
  \A i \in Ids : ops[i] = "none" =>
    srv.result # i /\ cached.result # i /\ rec.obj.result # i

\* An operation in hand is named nowhere else.
HandFresh ==
  rec.pc \in {"record", "rerecord"} =>
    rec.obj.result \in Ids /\ rec.obj.result \notin {srv.result, cached.result}

\* The first start belongs to a policy that is executing.
StartRuns ==
  /\ rec.pc \in {"start", "record"} => srv.phase = "Executing"
  /\ rec.pc = "begin" /\ cached.phase = "Executing" => srv.phase = "Executing"

LossInv == NamesKnown /\ HandFresh /\ StartRuns /\ LossesPaid

\* What is spent only grows, by one with each fault.
LEMMA SpentTypes ==
  ASSUME TypeOK
  PROVE  /\ Spent \in Nat
         /\ Fault => Spent' = Spent + 1
         /\ budget' = budget => Spent' = Spent
         /\ Spend("stale", MaxStale) => Spent' = Spent + 1
         /\ Spend("retry", MaxRetries) => Spent' = Spent
<1>1. budget \in [Events -> Nat] /\ Events = {"stale", "fault", "retry"}
  BY DEF TypeOK, Events
<1>2. budget["fault"] \in Nat /\ budget["stale"] \in Nat
  BY <1>1
<1>3. ASSUME NEW e \in Events, NEW max, Spend(e, max)
      PROVE  /\ budget'[e] = budget[e] + 1
             /\ \A d \in Events \ {e} : budget'[d] = budget[d]
  BY <1>1, <1>3, SpendTypes
<1>4. Fault => Spent' = Spent + 1
  BY <1>1, <1>2, <1>3 DEF Fault, Spent
<1>5. Spend("stale", MaxStale) => Spent' = Spent + 1
  BY <1>1, <1>2, <1>3 DEF Spent
<1>6. Spend("retry", MaxRetries) => Spent' = Spent
  BY <1>1, <1>2, <1>3 DEF Spent
<1> QED
  BY <1>2, <1>4, <1>5, <1>6 DEF Spent

LEMMA PatchSpends ==
  ASSUME TypeOK, NEW after, NEW ok, NEW err, Patch(after, ok, err)
  PROVE  /\ Spent' \in Nat /\ Spent <= Spent' /\ srv' \in {srv, after}
         /\ (srv' = after /\ rec' = ok) \/ (rec' = err /\ Spent' = Spent + 1)
BY SpentTypes DEF Patch

\* Operations are finitely many, and a step that loses as much as it pays for is paid for.
LEMMA LostIsFinite ==
  /\ IsFiniteSet(Lost) /\ Cardinality(Lost) \in Nat /\ Debt \in Nat
<1>1. IsFiniteSet(Ids)
  BY PolicyAssumption, FS_Interval DEF Ids
<1>2. Lost \in SUBSET Ids
  BY DEF Lost, Existing
<1> QED
  BY <1>1, <1>2, FS_Subset, FS_CardinalityType DEF Debt

LEMMA StillPaid ==
  ASSUME NEW S, NEW T, NEW x, IsFiniteSet(S), T \subseteq S \cup {x},
         NEW d \in Nat, NEW e \in Nat, NEW s \in Nat, NEW t \in Nat, Cardinality(S) + d <= s,
         \/ T \subseteq S /\ e + s <= d + t
         \/ e + s < d + t
  PROVE  Cardinality(T) + e <= t
<1> DEFINE R == S \cup {x}
<1>0. Cardinality(S) \in Nat
  BY FS_CardinalityType
<1>1. IsFiniteSet(R) /\ Cardinality(R) <= Cardinality(S) + 1
  <2>1. /\ IsFiniteSet(R)
        /\ Cardinality(R) = IF x \in S THEN Cardinality(S) ELSE Cardinality(S) + 1
    BY FS_AddElement
  <2> HIDE DEF R
  <2> QED
    BY <1>0, <2>1
<1>2. /\ Cardinality(S) \in Nat /\ Cardinality(R) \in Nat /\ Cardinality(T) \in Nat
      /\ Cardinality(T) <= Cardinality(R) /\ (T \subseteq S => Cardinality(T) <= Cardinality(S))
  BY <1>1, FS_Subset, FS_CardinalityType
<1> HIDE DEF R
<1> QED
  BY <1>1, <1>2

LEMMA SpentAfter == ASSUME TypeOK' PROVE Spent' \in Nat
<1>1. budget' \in [Events -> Nat]
  BY DEF TypeOK
<1> QED
  BY <1>1 DEF Spent, Events

LEMMA PaidStep ==
  ASSUME TypeOK, TypeOK', LossesPaid, Undoable(kind), NEW x, Lost' \subseteq Lost \cup {x},
         \/ Lost' \subseteq Lost /\ Debt' + Spent <= Debt + Spent'
         \/ Debt' + Spent < Debt + Spent'
  PROVE  LossesPaid'
<1>1. /\ IsFiniteSet(Lost) /\ Debt \in Nat /\ Debt' \in Nat /\ Spent \in Nat
      /\ Cardinality(Lost) + Debt <= Spent
  BY LostIsFinite, SpentTypes DEF Debt, LossesPaid
<1>2. Spent' \in Nat
  BY SpentAfter
<1>3. Cardinality(Lost') + Debt' <= Spent'
  BY <1>1, <1>2, StillPaid
<1> QED
  BY <1>3 DEF LossesPaid

LEMMA GrowingPays ==
  ASSUME NEW d \in Nat, NEW s \in Nat, NEW t \in Nat, s <= t
  PROVE  0 + s <= d + t
OBVIOUS

LEMMA KeptStep ==
  ASSUME TypeOK, TypeOK', LossesPaid, Undoable(kind), Lost' \subseteq Lost, Debt' = 0,
         Spent <= Spent'
  PROVE  LossesPaid'
<1>1. Debt \in Nat /\ Spent \in Nat /\ Spent' \in Nat
  BY SpentTypes, SpentAfter DEF Debt
<1>2. 0 + Spent <= Debt + Spent'
  BY <1>1, GrowingPays
<1>3. Debt' + Spent <= Debt + Spent'
  BY <1>2
<1> QED
  BY <1>3, PaidStep

-----------------------------------------------------------------------------
(* What each action does to the names of operations.                       *)

LEMMA FailingKeeps ==
  ASSUME TypeOK
  PROVE  /\ FirstOfFailing(rec.obj) \in {"undo", "note"}
         /\ FirstOfFailing(rec.obj) = "note" /\ Undoable(kind) => rec.obj.result = NoResult
         /\ Go(FirstOfFailing(rec.obj)).pc = FirstOfFailing(rec.obj)
         /\ Go(FirstOfFailing(rec.obj)).obj = rec.obj
<1>1. FirstOfFailing(rec.obj) \in {"undo", "note"}
  BY DEF FirstOfFailing
<1>2. FirstOfFailing(rec.obj) \in Calls
  BY <1>1 DEF Calls
<1> QED
  BY <1>1, <1>2, TypeParts, GoTypes DEF FirstOfFailing

\* A handler that goes on: with the same object, in a call that monitors, or to the end
\* with nothing to delete.
GoesOn ==
  \/ rec' = Rest
  \/ rec'.obj = rec.obj /\ rec'.pc \in MonitoringCalls
  \/ rec'.obj = rec.obj /\ rec'.pc = "note" /\ (Undoable(kind) => rec.obj.result = NoResult)

LEMMA StartFailedKeeps ==
  ASSUME TypeOK, rec' = StartFailed(rec)
  PROVE  GoesOn
<1>1. CASE rec.pc \in {"start", "record"}
  <2>1. rec'.pc = "streak" /\ rec'.obj = rec.obj
    BY <1>1, TypeParts DEF StartFailed, Handlers
  <2> QED
    BY <2>1 DEF GoesOn, MonitoringCalls
<1>2. CASE rec.pc \notin {"start", "record"} /\ rec.elapsed >= Hung
  <2>1. rec' = Go(FirstOfFailing(rec.obj))
    BY <1>2 DEF StartFailed, Go
  <2>2. /\ rec'.pc \in {"undo", "note"} /\ rec'.obj = rec.obj
        /\ rec'.pc = "note" /\ Undoable(kind) => rec.obj.result = NoResult
    BY <2>1, FailingKeeps
  <2> QED
    BY <2>2 DEF GoesOn, MonitoringCalls
<1>3. CASE rec.pc \notin {"start", "record"} /\ ~(rec.elapsed >= Hung)
  BY <1>3 DEF StartFailed, GoesOn
<1> QED
  BY <1>1, <1>2, <1>3

LEMMA MonitorGoesOn ==
  ASSUME TypeOK, Started \/ Mark \/ Streak \/ Poll \/ Clear \/ Miss \/ Err
  PROVE  /\ rec.pc \in MonitoringCalls /\ GoesOn
         /\ srv'.phase = srv.phase /\ srv'.result = srv.result
         /\ Spent <= Spent' /\ UNCHANGED <<kind, cached, ops>>
<1> USE TypeParts
<1>0. Spent \in Nat /\ \A x \in {Spent} : x <= x
  BY SpentTypes
<1>1. CASE Started \/ Mark
  <2>1. PICK n \in {0, 1} :
        /\ rec.pc \in {"started", "mark"} /\ Patch(OneField("start", n), Rest, Rest)
        /\ UNCHANGED <<kind, cached, ops>>
    BY <1>1 DEF Started, Mark
  <2>2. OneField("start", n).phase = srv.phase /\ OneField("start", n).result = srv.result
    BY OneFieldTypes
  <2> QED
    BY <2>1, <2>2, PatchSpends DEF GoesOn, MonitoringCalls
<1>2. ASSUME NEW f \in {"start", "miss", "errs"}, NEW n \in Nat, NEW ok,
             ok \in {Rest, Go(FirstOfFailing(rec.obj))}, Patch(OneField(f, n), ok, Rest)
      PROVE  /\ GoesOn /\ srv'.phase = srv.phase /\ srv'.result = srv.result
             /\ Spent <= Spent'
  <2>1. OneField(f, n).phase = srv.phase /\ OneField(f, n).result = srv.result
    BY OneFieldTypes
  <2>2. srv' \in {srv, OneField(f, n)} /\ Spent <= Spent' /\ rec' \in {ok, Rest}
    BY <1>2, PatchSpends
  <2>3. CASE rec' = Go(FirstOfFailing(rec.obj))
    BY <2>1, <2>2, <2>3, FailingKeeps DEF GoesOn, MonitoringCalls
  <2> QED
    BY <1>2, <2>1, <2>2, <2>3 DEF GoesOn
<1>3. rec.obj.start + 1 \in Nat /\ rec.obj.miss + 1 \in Nat /\ rec.obj.errs + 1 \in Nat
  BY DEF Policies
<1>4. CASE Streak
  <2> DEFINE n == rec.obj.start + 1
             ok == IF n < MaxStarts THEN Rest ELSE Go(FirstOfFailing(rec.obj))
  <2>1. /\ rec.pc = "streak" /\ Patch(OneField("start", n), ok, Rest)
        /\ UNCHANGED <<kind, cached, ops>>
    BY <1>4 DEF Streak
  <2>2. n \in Nat /\ ok \in {Rest, Go(FirstOfFailing(rec.obj))}
    BY <1>3
  <2> HIDE DEF n, ok
  <2> QED
    BY <1>2, <2>1, <2>2 DEF MonitoringCalls
<1>5. CASE Miss
  <2> DEFINE n == rec.obj.miss + 1
             ok == IF n >= MaxMissing THEN Go(FirstOfFailing(rec.obj)) ELSE Rest
  <2>1. rec.pc = "miss" /\ Patch(OneField("miss", n), ok, Rest) /\ UNCHANGED <<kind, cached, ops>>
    BY <1>5 DEF Miss
  <2>2. n \in Nat /\ ok \in {Rest, Go(FirstOfFailing(rec.obj))}
    BY <1>3
  <2> HIDE DEF n, ok
  <2> QED
    BY <1>2, <2>1, <2>2 DEF MonitoringCalls
<1>6. CASE Err
  <2> DEFINE n == rec.obj.errs + 1
             ok == IF n >= MaxErrors THEN Go(FirstOfFailing(rec.obj)) ELSE Rest
  <2>1. rec.pc = "err" /\ Patch(OneField("errs", n), ok, Rest) /\ UNCHANGED <<kind, cached, ops>>
    BY <1>6 DEF Err
  <2>2. n \in Nat /\ ok \in {Rest, Go(FirstOfFailing(rec.obj))}
    BY <1>3
  <2> HIDE DEF n, ok
  <2> QED
    BY <1>2, <2>1, <2>2 DEF MonitoringCalls
<1>7. CASE Poll
  <2>1. rec.pc = "poll" /\ UNCHANGED <<kind, srv, cached, ops, budget>>
    BY <1>7 DEF Poll
  <2>2. rec'.obj = rec.obj /\ rec'.pc \in {"clear", "miss", "err"}
    <3>1. CASE rec' = [rec EXCEPT !.pc = "clear", !.answer = ops[rec.obj.result]]
      BY <3>1 DEF Handlers
    <3>2. CASE rec' = Go("miss") \/ rec' = Go("err")
      BY <3>2, GoTypes DEF Calls
    <3> QED
      BY <1>7, <3>1, <3>2 DEF Poll
  <2> QED
    BY <1>0, <2>1, <2>2, SpentTypes DEF GoesOn, MonitoringCalls
<1>8. CASE Clear
  <2> DEFINE c == [cached EXCEPT !.miss = 0, !.errs = 0]
             m == Merged(c, cached)
  <2>1. /\ rec.pc = "clear" /\ UNCHANGED <<kind, cached, ops>>
        /\ (rec' = Verdict /\ UNCHANGED <<srv, budget>>) \/ Patch(m, Verdict, Rest)
    BY <1>8 DEF Clear
  <2>2. c \in Policies /\ c.phase = cached.phase /\ c.result = cached.result
    BY ObjectTypes
  <2>3. m.phase = srv.phase /\ m.result = srv.result
    <3> HIDE DEF c
    <3> QED
      BY <2>2, MergedTypes
  <2> HIDE DEF m
  <2>4. /\ rec' \in {Verdict, Rest} /\ Spent <= Spent'
        /\ srv'.phase = srv.phase /\ srv'.result = srv.result
    BY <1>0, <2>1, <2>3, SpentTypes, PatchSpends
  <2>5. Verdict \in {Go(FirstOfFailing(rec.obj)), Go("complete"), Rest}
    BY DEF Verdict
  <2>6. Go("complete").pc = "complete" /\ Go("complete").obj = rec.obj
    BY GoTypes DEF Calls
  <2>7. GoesOn
    <3>1. CASE rec' = Go(FirstOfFailing(rec.obj))
      BY <3>1, FailingKeeps DEF GoesOn, MonitoringCalls
    <3> QED
      BY <2>4, <2>5, <2>6, <3>1 DEF GoesOn, MonitoringCalls
  <2> QED
    BY <2>1, <2>4, <2>7 DEF MonitoringCalls
<1> QED
  BY <1>1, <1>4, <1>5, <1>6, <1>7, <1>8

\* A start call that is answered, one whose answer is lost, and one that does nothing.
Answered(i) ==
  /\ rec'.obj.result = i /\ rec'.pc = IF rec.pc = "start" THEN "record" ELSE "rerecord"
  /\ Spent' = Spent

LEMMA StartMoves ==
  ASSUME TypeOK, Start
  PROVE  /\ rec.pc \in {"start", "again"} /\ UNCHANGED <<kind, srv, cached>>
         /\ \/ \E i \in Ids : /\ ops[i] = "none" /\ ops' = [ops EXCEPT ![i] = "running"]
                              /\ Answered(i) \/ (GoesOn /\ Spent' = Spent + 1)
            \/ GoesOn /\ ops' = ops /\ Spent' = Spent
<1>1. rec.pc \in {"start", "again"} /\ UNCHANGED <<kind, srv, cached>>
  BY DEF Start
<1>2. CASE rec' = StartFailed(rec) /\ UNCHANGED <<ops, budget>>
  BY <1>1, <1>2, StartFailedKeeps, SpentTypes
<1>3. ASSUME NEW i \in Ids, ops[i] = "none", ops' = [ops EXCEPT ![i] = "running"],
             \/ /\ rec' = [rec EXCEPT !.obj.result = i,
                             !.pc = IF @ = "start" THEN "record" ELSE "rerecord"]
                /\ UNCHANGED budget
             \/ Fault /\ rec' = StartFailed(rec)
      PROVE  Answered(i) \/ (GoesOn /\ Spent' = Spent + 1)
  <2>1. CASE Fault /\ rec' = StartFailed(rec)
    BY <2>1, StartFailedKeeps, SpentTypes
  <2>2. CASE /\ rec' = [rec EXCEPT !.obj.result = i,
                          !.pc = IF @ = "start" THEN "record" ELSE "rerecord"]
             /\ UNCHANGED budget
    <3>1. rec'.pc = IF rec.pc = "start" THEN "record" ELSE "rerecord"
      BY <2>2, TypeParts DEF Handlers
    <3>2. rec'.obj = [rec.obj EXCEPT !.result = i]
      BY <2>2, TypeParts DEF Handlers
    <3>3. rec'.obj.result = i
      BY <3>2, TypeParts DEF Policies
    <3>4. Spent' = Spent
      BY <2>2, SpentTypes
    <3> QED
      BY <3>1, <3>3, <3>4 DEF Answered
  <2> QED
    BY <1>3, <2>1, <2>2
<1> QED
  BY <1>1, <1>2, <1>3 DEF Start

LEMMA RecordMoves ==
  ASSUME TypeOK, Record
  PROVE  /\ rec.pc \in {"record", "rerecord"} /\ UNCHANGED <<kind, cached, ops>>
         /\ srv'.phase = srv.phase /\ srv'.result \in {srv.result, rec.obj.result}
         /\ \/ /\ rec.obj.result # cached.result => srv'.result = rec.obj.result
               /\ rec'.obj.result = srv'.result
               /\ rec'.pc \in {"started", "mark"} /\ Spent <= Spent'
            \/ GoesOn /\ Spent' = Spent + 1
<1> DEFINE after == OneField("result", rec.obj.result)
           ok == [rec EXCEPT !.pc = IF rec.pc = "record" THEN "started" ELSE "mark",
                             !.obj = StatusOf(@, after)]
<1>1. /\ rec.pc \in {"record", "rerecord"} /\ Patch(after, ok, StartFailed(rec))
      /\ UNCHANGED <<kind, cached, ops>>
  BY DEF Record
<1>2. /\ after \in Policies /\ after.phase = srv.phase
      /\ after.result = IF rec.obj.result # cached.result THEN rec.obj.result ELSE srv.result
  <2>1. rec.obj.result \in 0 .. Text
    BY TypeParts DEF Policies
  <2> QED
    BY <2>1, TypeParts, OneFieldTypes
<1> HIDE DEF after
<1>3. StatusOf(rec.obj, after).result = after.result
  BY <1>2, TypeParts, StatusOfTypes
<1>4. ok.pc \in {"started", "mark"} /\ ok.obj.result = after.result
  BY <1>3, TypeParts DEF Handlers
<1> HIDE DEF ok
<1>5. /\ srv' \in {srv, after} /\ Spent <= Spent'
      /\ (srv' = after /\ rec' = ok) \/ (rec' = StartFailed(rec) /\ Spent' = Spent + 1)
  BY <1>1, PatchSpends
<1>6. rec' = StartFailed(rec) => GoesOn
  BY StartFailedKeeps
<1> QED
  BY <1>1, <1>2, <1>4, <1>5, <1>6

LEMMA UndoMoves ==
  ASSUME TypeOK, Undo
  PROVE  /\ rec.pc = "undo" /\ UNCHANGED <<kind, srv, cached>>
         /\ rec'.obj = rec.obj /\ rec'.pc = "note"
         /\ \/ rec.obj.result \in Ids /\ ops' = [ops EXCEPT ![rec.obj.result] = "gone"]
               /\ Spent' = Spent
            \/ ~Exists(rec.obj.result) /\ ops' = ops /\ Spent' = Spent
            \/ ops' = ops /\ Spent' = Spent + 1
<1>1. rec'.obj = rec.obj /\ rec'.pc = "note"
  BY TypeParts, GoTypes DEF Undo, Calls
<1> QED
  BY <1>1, SpentTypes DEF Undo, Exists

LEMMA NoteMoves ==
  ASSUME TypeOK, Note
  PROVE  /\ rec.pc = "note" /\ UNCHANGED <<kind, srv, cached, ops>> /\ Spent <= Spent'
         /\ rec' = Rest \/ (rec'.pc = "fail" /\ rec'.obj = srv)
<1> DEFINE ok == [rec EXCEPT !.pc = "fail", !.obj = srv]
<1>1. rec.pc = "note" /\ Patch(srv, ok, Rest) /\ UNCHANGED <<kind, cached, ops>>
  BY DEF Note
<1>2. ok.pc = "fail" /\ ok.obj = srv
  BY TypeParts DEF Handlers
<1> HIDE DEF ok
<1> QED
  BY <1>1, <1>2, PatchSpends

\* The calls that end a handler, and the first call of an execution or a retry, only spend.
LEMMA EndingSpends ==
  ASSUME TypeOK, Pend \/ Judge \/ Fail \/ Complete \/ Reset \/ Begin \/ Unmark
  PROVE  Spent <= Spent'
<1>1. PICK after, ok : Patch(after, ok, Rest)
  BY DEF Pend, Judge, Fail, Complete, Reset, Begin, Unmark, StatusPatch
<1> QED
  BY <1>1, PatchSpends

LEMMA ReconcileSpends ==
  ASSUME TypeOK, Reconcile
  PROVE  (cached = srv /\ Spent' = Spent) \/ Spent' = Spent + 1
BY SpentTypes DEF Reconcile

LEMMA FirstCallIs ==
  ASSUME NEW o \in Policies
  PROVE  /\ FirstCall(o) \in {"pend", "judge", "begin", "unmark", "idle", "undo", "note",
                              "again", "poll"}
         /\ FirstCall(o) = "begin" => o.phase = "Approved"
         /\ FirstCall(o) = "again" => o.phase = "Executing"
         /\ o.result # NoResult /\ Undoable(kind) /\ o.phase \in LivePhases =>
              FirstCall(o) \in {"idle", "undo", "poll"}
<1>1. /\ Monitor(o) \in {"idle", "undo", "note", "again", "poll"}
      /\ o.result # NoResult /\ Undoable(kind) => Monitor(o) \in {"idle", "undo", "poll"}
  BY DEF Monitor, FirstOfFailing
<1> QED
  BY <1>1 DEF FirstCall, LivePhases

\* The surroundings name nothing, and only a crash makes the handler let go of something.
LEMMA SurroundingsMoves ==
  ASSUME TypeOK,
         Deliver \/ Tick \/ (\E i \in Ids : OpEnds(i)) \/ Forget
           \/ UserApproves \/ UserRetries \/ Crash
  PROVE  /\ cached'.result \in {cached.result, srv.result}
         /\ \A i \in Ids : ops[i] # "none" => ops'[i] # "none"
         /\ \A i \in Ids : Exists(i)' => Exists(i)
         /\ \/ /\ rec'.pc = rec.pc /\ rec'.obj.result = rec.obj.result /\ Spent' = Spent
               /\ srv'.phase = srv.phase \/ {srv.phase, srv'.phase} \cap LivePhases = {}
            \/ rec' = Rest /\ srv' = srv /\ Spent' = Spent + 1
<1> USE TypeParts
<1>0. srv'.phase = srv.phase \/ {srv.phase, srv'.phase} \cap LivePhases = {}
  BY SurroundingsTypes DEF LivePhases
<1>1. CASE Deliver
  BY <1>1, SpentTypes DEF Deliver, Exists
<1>2. CASE Tick
  <2>1. rec' = [rec EXCEPT !.obj = Older(rec.obj)]
    BY <1>2 DEF Tick
  <2>2. rec'.pc = rec.pc /\ rec'.obj = Older(rec.obj)
    BY <2>1 DEF Handlers
  <2> QED
    BY <1>0, <1>2, <2>2, OlderTypes, SpentTypes DEF Tick, Exists
<1>3. CASE \E i \in Ids : OpEnds(i)
  BY <1>3, SpentTypes DEF OpEnds, Exists
<1>4. CASE Forget
  BY <1>4, SpentTypes DEF Forget, Exists
<1>5. CASE UserApproves
  BY <1>0, <1>5, SpentTypes DEF UserApproves, Exists
<1>6. CASE UserRetries
  BY <1>0, <1>6, SpentTypes DEF UserRetries, Exists
<1>7. CASE Crash
  BY <1>7, SpentTypes DEF Crash, Exists
<1> QED
  BY <1>1, <1>2, <1>3, <1>4, <1>5, <1>6, <1>7

-----------------------------------------------------------------------------
(* The parts of the invariant.                                             *)

\* What no operation is named.
LEMMA NoNames == NoResult \notin Ids /\ Text \notin Ids /\ Rest.obj.result = NoResult
BY PolicyAssumption DEF NoResult, Text, Ids, Rest, NewPolicy

\* Every name a step writes was there before, or is that of the operation it starts.
LEMMA NamesStep ==
  ASSUME TypeOK, NamesKnown, [Next]_vars
  PROVE  NamesKnown'
<1> DEFINE Old == {srv.result, cached.result, rec.obj.result, NoResult, Text}
<1>0. ops \in [Ids -> OpState]
  BY TypeParts
<1>1. SUFFICES ASSUME NEW i \in Ids, ops'[i] = "none"
               PROVE  srv'.result # i /\ cached'.result # i /\ rec'.obj.result # i
  BY DEF NamesKnown
<1>2. ASSUME ops[i] = "none", {srv'.result, cached'.result, rec'.obj.result} \subseteq Old
      PROVE  srv'.result # i /\ cached'.result # i /\ rec'.obj.result # i
  BY <1>2, NoNames DEF NamesKnown
<1>3. GoesOn => rec'.obj.result \in Old
  BY NoNames DEF GoesOn
<1>4. CASE Reconcile
  BY <1>1, <1>2, <1>4, ReconcileTypes
<1>5. CASE Pend \/ Judge \/ Fail \/ Complete \/ Reset
  BY <1>1, <1>2, <1>5, EndingTypes, NoNames
<1>6. CASE Begin
  BY <1>1, <1>2, <1>6, BeginTypes
<1>7. CASE Unmark
  BY <1>1, <1>2, <1>7, UnmarkTypes
<1>8. CASE Start
  <2>1. UNCHANGED <<srv, cached>>
    BY <1>8, StartMoves
  <2>2. CASE GoesOn /\ ops' = ops
    BY <1>1, <1>2, <1>3, <2>1, <2>2
  <2>3. ASSUME NEW j \in Ids, ops[j] = "none", ops' = [ops EXCEPT ![j] = "running"],
               Answered(j) \/ GoesOn
        PROVE  srv'.result # i /\ cached'.result # i /\ rec'.obj.result # i
    <3>1. i # j /\ ops[i] = "none"
      BY <1>0, <1>1, <2>3
    <3>2. CASE Answered(j)
      BY <2>1, <3>1, <3>2 DEF Answered, NamesKnown
    <3>3. CASE GoesOn
      BY <1>2, <1>3, <2>1, <3>1, <3>3
    <3> QED
      BY <2>3, <3>2, <3>3
  <2> QED
    BY <1>8, <2>2, <2>3, StartMoves
<1>9. CASE Record
  BY <1>1, <1>2, <1>3, <1>9, RecordMoves
<1>10. CASE Started \/ Mark \/ Streak \/ Poll \/ Clear \/ Miss \/ Err
  BY <1>1, <1>2, <1>3, <1>10, MonitorGoesOn
<1>11. CASE Undo
  <2>1. ops[i] = "none"
    BY <1>0, <1>1, <1>11, UndoMoves
  <2> QED
    BY <1>2, <1>11, <2>1, UndoMoves
<1>12. CASE Note
  BY <1>1, <1>2, <1>12, NoteMoves, NoNames
<1>13. CASE Deliver \/ Tick \/ (\E j \in Ids : OpEnds(j)) \/ Forget
              \/ UserApproves \/ UserRetries \/ Crash
  BY <1>1, <1>2, <1>13, SurroundingsTypes, SurroundingsMoves, NoNames
<1>14. CASE UNCHANGED vars
  BY <1>1, <1>2, <1>14 DEF vars
<1> QED
  BY <1>4, <1>5, <1>6, <1>7, <1>8, <1>9, <1>10, <1>11, <1>12, <1>13, <1>14 DEF Next

\* Only an answered start call puts an operation in hand, and the last starts only from an
\* executing policy.
LEMMA HandStep ==
  ASSUME TypeOK, NamesKnown, HandFresh, StartRuns, [Next]_vars
  PROVE  HandFresh' /\ StartRuns'
<1> DEFINE Early == {"record", "rerecord", "start", "begin"}
<1>1. ASSUME rec'.pc \notin Early PROVE HandFresh' /\ StartRuns'
  BY <1>1 DEF HandFresh, StartRuns
<1>2. GoesOn => rec'.pc \notin Early
  BY DEF GoesOn, MonitoringCalls, Rest
<1>3. Rest.pc = "idle"
  BY DEF Rest
<1>4. CASE Reconcile
  <2>1. rec'.pc \notin Early \/ (rec'.pc = "begin" /\ cached'.phase = "Approved")
    BY <1>4, TypeParts, ReconcileTypes, FirstCallIs
  <2> QED
    BY <1>1, <2>1 DEF HandFresh, StartRuns
<1>5. CASE Pend \/ Judge \/ Fail \/ Complete \/ Reset
  BY <1>1, <1>3, <1>5, EndingTypes
<1>6. CASE Begin
  <2>1. /\ rec.pc = "begin" /\ srv'.phase \in {srv.phase, "Executing"}
        /\ \/ rec' = Rest
           \/ rec'.pc = "start" /\ (cached.phase # "Executing" => srv'.phase = "Executing")
    BY <1>6, BeginTypes
  <2> QED
    BY <1>1, <1>3, <2>1 DEF HandFresh, StartRuns
<1>7. CASE Unmark
  BY <1>1, <1>3, <1>7, UnmarkTypes
<1>8. CASE Start
  <2>1. rec.pc \in {"start", "again"} /\ UNCHANGED <<srv, cached>>
    BY <1>8, StartMoves
  <2>2. ASSUME NEW i \in Ids, ops[i] = "none", Answered(i)
        PROVE  HandFresh' /\ StartRuns'
    BY <2>1, <2>2 DEF Answered, HandFresh, StartRuns, NamesKnown
  <2> QED
    BY <1>1, <1>2, <1>8, <2>2, StartMoves
<1>9. CASE Record
  BY <1>1, <1>2, <1>9, RecordMoves
<1>10. CASE Started \/ Mark \/ Streak \/ Poll \/ Clear \/ Miss \/ Err
  BY <1>1, <1>2, <1>10, MonitorGoesOn
<1>11. CASE Undo
  BY <1>1, <1>11, UndoMoves
<1>12. CASE Note
  BY <1>1, <1>3, <1>12, NoteMoves
<1>13. CASE Deliver \/ Tick \/ (\E j \in Ids : OpEnds(j)) \/ Forget
              \/ UserApproves \/ UserRetries \/ Crash
  <2>1. CASE rec' = Rest
    BY <1>1, <1>3, <2>1
  <2>2. CASE rec'.pc = rec.pc /\ rec'.obj.result = rec.obj.result
    <3>1. /\ srv'.result = srv.result /\ cached'.result \in {cached.result, srv.result}
          /\ srv'.phase = srv.phase \/ (srv.phase = "Pending" /\ srv'.phase = "Approved")
          /\ cached'.phase \in {cached.phase, srv'.phase}
      BY <1>13, SurroundingsTypes, SurroundingsMoves
    <3> QED
      BY <2>2, <3>1 DEF HandFresh, StartRuns
  <2> QED
    BY <1>13, <2>1, <2>2, SurroundingsMoves
<1>14. CASE UNCHANGED vars
  BY <1>14 DEF vars, HandFresh, StartRuns
<1> QED
  BY <1>4, <1>5, <1>6, <1>7, <1>8, <1>9, <1>10, <1>11, <1>12, <1>13, <1>14 DEF Next

-----------------------------------------------------------------------------
(* No step loses more than it pays for.                                    *)

\* A handler at a call that does not monitor is about to forget whatever the policy names.
LEMMA LooseCalls ==
  ASSUME rec.pc \notin MonitoringCalls, rec.pc # "idle"
  PROVE  Lost = {i \in Existing : ~InHand(i)}
BY DEF Lost, Safe

LEMMA LossStart ==
  ASSUME TypeOK, TypeOK', LossesPaid, Undoable(kind), Start
  PROVE  LossesPaid'
<1>1. rec.pc \in {"start", "again"} /\ UNCHANGED <<kind, srv, cached>>
  BY StartMoves
<1>2. \A i \in Ids : Exists(i) => i \in Lost
  BY <1>1, LooseCalls DEF Existing, InHand, MonitoringCalls
<1>3. ops \in [Ids -> OpState] /\ Spent \in Nat
  BY TypeParts, SpentTypes
<1>4. GoesOn => Debt' = 0
  BY DEF GoesOn, Debt, MonitoringCalls, Rest
<1>5. Debt \in {0, 1}
  BY DEF Debt
<1>6. CASE GoesOn /\ ops' = ops /\ Spent' = Spent
  <2>1. Lost' \subseteq Lost
    BY <1>2, <1>6 DEF Lost, Existing, Exists
  <2>2. Debt' + Spent <= Debt + Spent'
    BY <1>3, <1>4, <1>5, <1>6
  <2> QED
    BY <2>1, <2>2, PaidStep
<1>7. ASSUME NEW i \in Ids, ops[i] = "none", ops' = [ops EXCEPT ![i] = "running"],
             Answered(i) \/ (GoesOn /\ Spent' = Spent + 1)
      PROVE  LossesPaid'
  <2>1. Lost' \subseteq Lost \cup {i}
    BY <1>2, <1>3, <1>7 DEF Lost, Existing, Exists
  <2>2. CASE Answered(i)
    <3>1. rec'.pc \in {"record", "rerecord"} /\ rec'.obj.result = i /\ Spent' = Spent
      BY <2>2 DEF Answered
    <3>2. Lost' \subseteq Lost
      BY <2>1, <3>1 DEF Lost, InHand
    <3>3. Debt' = Debt
      BY <1>1, <2>2 DEF Answered, Debt
    <3>4. Debt' + Spent <= Debt + Spent'
      BY <1>3, <1>5, <3>1, <3>3
    <3> QED
      BY <3>2, <3>4, PaidStep
  <2>3. CASE GoesOn /\ Spent' = Spent + 1
    <3>1. Debt' + Spent < Debt + Spent'
      BY <1>3, <1>4, <1>5, <2>3
    <3> QED
      BY <2>1, <3>1, PaidStep
  <2> QED
    BY <1>7, <2>2, <2>3
<1> QED
  BY <1>6, <1>7, StartMoves

LEMMA LossRecord ==
  ASSUME TypeOK, TypeOK', HandFresh, StartRuns, LossesPaid, Undoable(kind), Record
  PROVE  LossesPaid'
<1>0. PICK x : x = rec.obj.result
  OBVIOUS
<1>1. /\ rec.pc \in {"record", "rerecord"} /\ UNCHANGED <<kind, cached, ops>>
      /\ srv'.phase = srv.phase
  BY RecordMoves
<1>2. \A i \in Ids : Exists(i) => i \in Lost \cup {x}
  <2>1. Lost = {i \in Existing : ~InHand(i)}
    BY <1>1, LooseCalls DEF MonitoringCalls
  <2> QED
    BY <1>0, <2>1 DEF Existing, InHand
<1>3. Spent \in Nat /\ Spent' \in Nat /\ Debt \in {0, 1}
  BY SpentTypes, SpentAfter DEF Debt
<1>4. Lost' \subseteq Lost \cup {x}
  BY <1>1, <1>2 DEF Lost, Existing, Exists
<1>5. CASE GoesOn /\ Spent' = Spent + 1
  <2>1. Debt' = 0
    BY <1>5 DEF GoesOn, Debt, MonitoringCalls, Rest
  <2>2. Debt' + Spent < Debt + Spent'
    BY <1>3, <1>5, <2>1
  <2> QED
    BY <1>4, <2>2, PaidStep
<1>6. CASE srv'.result = x /\ rec'.obj.result = x /\ rec'.pc \in {"started", "mark"}
           /\ Spent <= Spent'
  <2>1. Debt' = 0
    BY <1>6 DEF Debt
  <2>2. CASE srv.phase \in LivePhases
    <3>1. Lost' \subseteq Lost
      <4>1. Safe(x)'
        BY <1>1, <1>6, <2>2 DEF Safe, MonitoringCalls
      <4>2. x \notin Lost'
        BY <4>1 DEF Lost
      <4> QED
        BY <1>4, <4>2
    <3> QED
      BY <1>6, <2>1, <3>1, KeptStep
  <2>3. CASE srv.phase \notin LivePhases
    <3>1. Debt = 1
      BY <1>1, <2>3 DEF Debt, StartRuns, LivePhases
    <3>2. Debt' + Spent < Debt + Spent'
      BY <1>3, <1>6, <2>1, <3>1
    <3> QED
      BY <1>4, <3>2, PaidStep
  <2> QED
    BY <2>2, <2>3
<1> QED
  BY <1>0, <1>1, <1>5, <1>6, RecordMoves DEF HandFresh

\* Monitoring goes on with the operation that the policy names, or leaves it to the policy.
LEMMA LossMonitor ==
  ASSUME TypeOK, TypeOK', LossesPaid, Undoable(kind),
         Started \/ Mark \/ Streak \/ Poll \/ Clear \/ Miss \/ Err
  PROVE  LossesPaid'
<1>1. /\ rec.pc \in MonitoringCalls /\ GoesOn /\ srv'.phase = srv.phase
      /\ srv'.result = srv.result /\ Spent <= Spent' /\ ops' = ops
  BY MonitorGoesOn
<1>2. Debt' = 0
  BY <1>1 DEF Debt, GoesOn, MonitoringCalls, Rest
<1>3. ASSUME NEW i \in Ids, Safe(i)
      PROVE  Safe(i)'
  BY <1>1, <1>3, NoNames DEF Safe, GoesOn, MonitoringCalls, Rest
<1>4. \A i \in Ids : ~InHand(i)
  BY <1>1 DEF InHand, MonitoringCalls
<1>5. Lost' \subseteq Lost
  BY <1>1, <1>3, <1>4 DEF Lost, Existing, Exists
<1> QED
  BY <1>1, <1>2, <1>5, KeptStep

LEMMA LossUndo ==
  ASSUME TypeOK, TypeOK', LossesPaid, Undoable(kind), Undo
  PROVE  LossesPaid'
<1> DEFINE x == rec.obj.result
<1>1. rec.pc = "undo" /\ UNCHANGED <<kind, srv, cached>> /\ rec'.obj = rec.obj /\ rec'.pc = "note"
  BY UndoMoves
<1>2. Debt = 0 /\ Debt' = 0 /\ Spent \in Nat /\ ops \in [Ids -> OpState]
  BY <1>1, SpentTypes, TypeParts DEF Debt
<1>3. \A i \in Ids : Exists(i) => i \in Lost \cup {x}
  BY <1>1 DEF Lost, Existing, InHand, Safe
<1>4. CASE ops' = ops /\ Spent' = Spent + 1
  <2>1. Lost' \subseteq Lost \cup {x}
    BY <1>3, <1>4 DEF Lost, Existing, Exists
  <2>2. Debt' + Spent < Debt + Spent'
    BY <1>2, <1>4
  <2> QED
    BY <2>1, <2>2, PaidStep
<1>5. CASE Spent' = Spent /\ \/ ops' = [ops EXCEPT ![x] = "gone"] /\ x \in Ids
                             \/ ops' = ops /\ ~Exists(x)
  <2>1. \A i \in Ids : Exists(i)' => Exists(i) /\ i # x
    BY <1>2, <1>5 DEF Exists
  <2>2. Lost' \subseteq Lost
    BY <1>3, <2>1 DEF Lost, Existing
  <2>3. Debt' + Spent <= Debt + Spent'
    BY <1>2, <1>5
  <2> QED
    BY <2>2, <2>3, PaidStep
<1> QED
  BY <1>4, <1>5, UndoMoves

\* Nothing is left to lose at the calls that forget what the policy names.
LEMMA LossLoose ==
  ASSUME TypeOK, TypeOK', LossesPaid, Undoable(kind),
         Note \/ Pend \/ Judge \/ Fail \/ Reset \/ Begin \/ Unmark
  PROVE  LossesPaid'
<1>1. /\ rec.pc \in {"note", "pend", "judge", "fail", "reset", "begin", "unmark"}
      /\ ops' = ops /\ Spent <= Spent'
      /\ rec' = Rest \/ rec'.pc \in {"fail", "start", "reset"}
  <2>1. CASE Note
    BY <2>1, NoteMoves
  <2>2. CASE Pend \/ Judge \/ Fail \/ Reset
    BY <2>2, EndingTypes, EndingSpends DEF Pend, Judge, Fail, Reset
  <2>3. CASE Begin
    BY <2>3, BeginTypes, EndingSpends
  <2>4. CASE Unmark
    BY <2>4, UnmarkTypes, EndingSpends
  <2> QED
    BY <2>1, <2>2, <2>3, <2>4
<1>2. Lost' \subseteq Lost
  BY <1>1, LooseCalls DEF Lost, Existing, Exists, InHand, MonitoringCalls
<1>3. Debt' = 0
  BY <1>1 DEF Debt, Rest
<1> QED
  BY <1>1, <1>2, <1>3, KeptStep

LEMMA LossComplete ==
  ASSUME TypeOK, TypeOK', LossesPaid, Undoable(kind), Complete
  PROVE  LossesPaid'
<1>1. /\ rec.pc = "complete" /\ rec' = Rest /\ ops' = ops /\ Spent <= Spent'
      /\ srv'.phase \in {srv.phase, "Completed"}
      /\ srv'.result \in {srv.result, rec.obj.result}
  BY EndingTypes, EndingSpends DEF Complete
<1>2. Debt' = 0
  BY <1>1 DEF Debt, Rest
<1>3. \A i \in Ids : ~InHand(i) /\ (Safe(i) => Safe(i)')
  BY <1>1 DEF InHand, Safe, LivePhases, Rest
<1>4. Lost' \subseteq Lost
  BY <1>1, <1>3 DEF Lost, Existing, Exists
<1> QED
  BY <1>1, <1>2, <1>4, KeptStep

\* A stale read forgets at most one operation: the one the policy names, or the one that a
\* backfill of a policy that has ended is about to start.
LEMMA LossReconcile ==
  ASSUME TypeOK, TypeOK', LossesPaid, Undoable(kind), Reconcile
  PROVE  LossesPaid'
<1> DEFINE x == srv.result
<1>1. /\ rec.pc = "idle" /\ rec'.pc = FirstCall(cached) /\ rec'.obj = cached
      /\ UNCHANGED <<srv, ops>>
  BY ReconcileTypes
<1>2. FirstCall(cached) # "idle"
  BY DEF Reconcile
<1>3. Debt = 0 /\ Debt' \in {0, 1} /\ Spent \in Nat
  BY <1>1, SpentTypes DEF Debt
<1>4. FirstCall(cached) # "rerecord" /\ (FirstCall(cached) = "again" => cached.phase = "Executing")
  BY TypeParts, FirstCallIs
<1>5. \A i \in Ids : ~InHand(i) /\ (Safe(i) => i = x /\ srv.phase \in LivePhases)
  BY <1>1 DEF InHand, Safe
<1>6. CASE cached = srv /\ Spent' = Spent
  <2>1. \A i \in Ids : Safe(i) => Safe(i)'
    <3>1. ASSUME NEW i \in Ids, Safe(i) PROVE Safe(i)'
      <4>1. cached.result = i /\ cached.result # NoResult /\ cached.phase \in LivePhases
        BY <1>6, <3>1, NoNames DEF Safe
      <4>2. rec'.pc \in {"undo", "poll"}
        BY <1>1, <1>2, <4>1, TypeParts, FirstCallIs
      <4> QED
        BY <1>1, <1>6, <4>1, <4>2 DEF Safe, MonitoringCalls
    <3> QED
      BY <3>1
  <2>2. Lost' \subseteq Lost
    BY <1>1, <1>5, <2>1 DEF Lost, Existing, Exists
  <2>3. Debt' = 0
    BY <1>1, <1>4, <1>6 DEF Debt, LivePhases
  <2>4. Debt' + Spent <= Debt + Spent'
    BY <1>3, <1>6, <2>3
  <2> QED
    BY <2>2, <2>4, PaidStep
<1>7. CASE Spent' = Spent + 1 /\ srv.phase \in LivePhases
  <2>1. Lost' \subseteq Lost \cup {x}
    BY <1>1, <1>5 DEF Lost, Existing, Exists
  <2>2. Debt' = 0
    BY <1>1, <1>7 DEF Debt
  <2>3. Debt' + Spent < Debt + Spent'
    BY <1>3, <1>7, <2>2
  <2> QED
    BY <2>1, <2>3, PaidStep
<1>8. CASE Spent' = Spent + 1 /\ srv.phase \notin LivePhases
  <2>1. Lost' \subseteq Lost
    BY <1>1, <1>5, <1>8 DEF Lost, Existing, Exists
  <2>2. Debt' + Spent <= Debt + Spent'
    <3>1. Debt' = 0 \/ Debt' = 1
      BY <1>3
    <3>2. Debt = 0 /\ Spent \in Nat /\ Spent' = Spent + 1
      BY <1>3, <1>8
    <3> QED
      BY <3>1, <3>2
  <2> QED
    BY <2>1, <2>2, PaidStep
<1> QED
  BY <1>6, <1>7, <1>8, ReconcileSpends

LEMMA LossSurroundings ==
  ASSUME TypeOK, TypeOK', LossesPaid, Undoable(kind),
         Deliver \/ Tick \/ (\E i \in Ids : OpEnds(i)) \/ Forget
           \/ UserApproves \/ UserRetries \/ Crash
  PROVE  LossesPaid'
<1> DEFINE x == rec.obj.result
<1>1. srv'.result = srv.result /\ \A i \in Ids : Exists(i)' => Exists(i)
  BY SurroundingsTypes, SurroundingsMoves
<1>2. Debt \in {0, 1} /\ Spent \in Nat
  BY SpentTypes DEF Debt
<1>3. CASE /\ rec'.pc = rec.pc /\ rec'.obj.result = x /\ Spent' = Spent
           /\ srv'.phase = srv.phase \/ {srv.phase, srv'.phase} \cap LivePhases = {}
  <2>1. \A i \in Ids : (InHand(i) => InHand(i)') /\ (Safe(i) => Safe(i)')
    BY <1>1, <1>3 DEF InHand, Safe
  <2>2. Lost' \subseteq Lost
    BY <1>1, <2>1 DEF Lost, Existing
  <2>3. Debt' = Debt
    BY <1>3 DEF Debt
  <2>4. Debt' + Spent <= Debt + Spent'
    BY <1>2, <1>3, <2>3
  <2> QED
    BY <2>2, <2>4, PaidStep
<1>4. CASE rec' = Rest /\ srv' = srv /\ Spent' = Spent + 1
  <2>1. \A i \in Ids : i # x => ~InHand(i) /\ (Safe(i) => Safe(i)')
    BY <1>4 DEF InHand, Safe, Rest
  <2>2. Lost' \subseteq Lost \cup {x}
    BY <1>1, <2>1 DEF Lost, Existing
  <2>3. Debt' = 0
    BY <1>4 DEF Debt, Rest
  <2>4. Debt' + Spent < Debt + Spent'
    BY <1>2, <1>4, <2>3
  <2> QED
    BY <2>2, <2>4, PaidStep
<1> QED
  BY <1>3, <1>4, SurroundingsMoves

LEMMA KindStays ==
  ASSUME TypeOK, [Next]_vars PROVE kind' = kind
BY DEF Next, vars, Reconcile, Pend, Judge, Begin, Start, Record, Started, Mark, Streak, Poll,
       Clear, Miss, Err, Undo, Note, Fail, Complete, Unmark, Reset, Deliver, Tick, OpEnds,
       Forget, UserApproves, UserRetries, Crash

LEMMA LossStep ==
  ASSUME TypeOK, LossInv, [Next]_vars
  PROVE  LossInv'
<1>1. TypeOK' /\ NamesKnown' /\ HandFresh' /\ StartRuns'
  BY TypeStep, NamesStep, HandStep DEF LossInv
<1>2. HandFresh /\ StartRuns /\ LossesPaid
  BY DEF LossInv
<1>3. LossesPaid'
  <2>1. SUFFICES ASSUME Undoable(kind) PROVE LossesPaid'
    BY KindStays DEF LossesPaid, Undoable
  <2>2. CASE Reconcile
    BY <1>1, <1>2, <2>1, <2>2, LossReconcile
  <2>3. CASE Note \/ Pend \/ Judge \/ Fail \/ Reset \/ Begin \/ Unmark
    BY <1>1, <1>2, <2>1, <2>3, LossLoose
  <2>4. CASE Start
    BY <1>1, <1>2, <2>1, <2>4, LossStart
  <2>5. CASE Record
    BY <1>1, <1>2, <2>1, <2>5, LossRecord
  <2>6. CASE Started \/ Mark \/ Streak \/ Poll \/ Clear \/ Miss \/ Err
    BY <1>1, <1>2, <2>1, <2>6, LossMonitor
  <2>7. CASE Undo
    BY <1>1, <1>2, <2>1, <2>7, LossUndo
  <2>8. CASE Complete
    BY <1>1, <1>2, <2>1, <2>8, LossComplete
  <2>9. CASE Deliver \/ Tick \/ (\E i \in Ids : OpEnds(i)) \/ Forget
               \/ UserApproves \/ UserRetries \/ Crash
    BY <1>1, <1>2, <2>1, <2>9, LossSurroundings
  <2>10. CASE UNCHANGED vars
    <3>1. Lost' = Lost /\ Debt' = Debt /\ Spent' = Spent /\ kind' = kind
      BY <2>10 DEF vars, Lost, Existing, Exists, InHand, Safe, Debt, Spent
    <3> QED
      BY <1>2, <3>1 DEF LossesPaid, Undoable
  <2> QED
    BY <2>2, <2>3, <2>4, <2>5, <2>6, <2>7, <2>8, <2>9, <2>10 DEF Next
<1> QED
  BY <1>1, <1>3 DEF LossInv

\* Whatever is started, recorded, deleted and read late or lost (orchestrationpolicy_
\* controller.go:345, 461, 1646), every name is known, an operation in hand is new, and what
\* is lost is paid for.
THEOREM PolicyLossInv == Spec => []LossInv
<1>1. Init => LossInv
  <2> SUFFICES ASSUME Init PROVE LossInv
    OBVIOUS
  <2>1. /\ srv = NewPolicy /\ cached = NewPolicy /\ rec = Rest
        /\ ops = [i \in Ids |-> "none"] /\ budget = [e \in Events |-> 0]
    BY DEF Init
  <2>2. rec.pc = "idle" /\ srv.result = NoResult /\ rec.obj.result = NoResult
    BY <2>1 DEF Rest, NewPolicy
  <2>3. NamesKnown
    BY <2>1, <2>2, NoNames DEF NamesKnown
  <2>4. HandFresh /\ StartRuns
    BY <2>2 DEF HandFresh, StartRuns
  <2>5. Lost = {} /\ Debt = 0 /\ Spent = 0
    BY <2>1, <2>2 DEF Lost, Existing, Exists, Debt, Spent, Events
  <2>6. LossesPaid
    BY <2>5, FS_EmptySet DEF LossesPaid
  <2> QED
    BY <2>3, <2>4, <2>6 DEF LossInv
<1>2. TypeOK /\ LossInv /\ [Next]_vars => LossInv'
  BY LossStep
<1> QED
  BY <1>1, <1>2, PolicyTypeOK, PTL DEF Spec

\* For any number of operations, faults, stale reads and retries, the operations of a policy
\* that exist and that it does not name are no more than the faults and the stale reads: a
\* rollback, a backfill or a retry leaves none behind (orchestrationpolicy_controller.go:345).
THEOREM PolicyOrphansAreFaults == Spec => []OrphansAreFaults
<1>1. TypeOK /\ LossInv => OrphansAreFaults
  <2> SUFFICES ASSUME TypeOK, LossInv, Undoable(kind)
               PROVE  Cardinality({i \in Ids : Exists(i) /\ srv.result # i /\ ~InHand(i)})
                        <= budget["fault"] + budget["stale"]
    BY DEF OrphansAreFaults
  <2> DEFINE Orphans == {i \in Ids : Exists(i) /\ srv.result # i /\ ~InHand(i)}
  <2>1. Orphans \subseteq Lost
    BY DEF Lost, Existing, Safe
  <2>2. Cardinality(Orphans) \in Nat /\ Cardinality(Orphans) <= Cardinality(Lost)
    BY <2>1, LostIsFinite, FS_Subset, FS_CardinalityType
  <2>3. Cardinality(Lost) + Debt <= Spent
    BY DEF LossInv, LossesPaid
  <2>4. Cardinality(Lost) \in Nat /\ Debt \in Nat /\ Spent \in Nat
    BY LostIsFinite, SpentTypes
  <2> HIDE DEF Orphans
  <2>5. Cardinality(Orphans) <= Spent
    BY <2>2, <2>3, <2>4
  <2> QED
    BY <2>5 DEF Orphans, Spent
<1> QED
  BY <1>1, PolicyTypeOK, PolicyLossInv, PTL
=============================================================================
