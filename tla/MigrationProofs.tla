-------------------------- MODULE MigrationProofs --------------------------
(***************************************************************************)
(* Proofs about Migration, for any pods, jobs, limits and crashes.  The    *)
(* inductive invariant says where a job's pods can be:                     *)
(*   - a stage pod exists only for the stage the job is at, and not before *)
(*     its creation;                                                       *)
(*   - only an intermediate stage's pod is dropped;                        *)
(*   - once an output pod has arrived, the job never touches it again, and *)
(*     the original is removed only after that.                            *)
(***************************************************************************)
EXTENDS Migration, FiniteSetTheorems, TLAPS

Before == {"idle", "start", "capture", "checkpoint", "plan", "create"}
After  == {"remove", "cleanup", "finish"}

StagesInOrder ==
  \A j \in Jobs :
    /\ \A s \in Stages : Exists(stagePod[j][s]) => s = stage[j] /\ pc[j] \notin Before
    /\ pc[j] = "drop" => stage[j] # "output"

TargetKept ==
  \A j \in Jobs :
    /\ pc[j] \in After => j \in arrived
    /\ j \in arrived => /\ pc[j] \in After \cup {"release", "over", "lost"}
                        /\ stagePod[j]["output"] \in {"ready", "succeeded", "failed", "vanished"}

MigrationInv == TypeOK /\ SlotsAreJobs /\ StagesInOrder /\ TargetKept

Act(j) == Request(j) \/ Step(j) \/ ContextExpires(j)

-----------------------------------------------------------------------------
(* The slots.                                                              *)

\* What a step of one job does to the set of active jobs.
LEMMA OnlyOneMoves ==
  ASSUME TypeOK, NEW j \in Jobs, NEW l, Goto(j, l)
  PROVE  Active' = IF l \in Working THEN Active \cup {j} ELSE Active \ {j}
BY DEF Active, Goto, TypeOK

LEMMA ActiveFinite == IsFiniteSet(Active)
<1>1. Active \subseteq Jobs
  BY DEF Active
<1>. QED
  BY <1>1, FS_Subset, MigrationAssumption

\* A job that goes on keeps its slot.
LEMMA StillActive ==
  ASSUME TypeOK, SlotsAreJobs, NEW j \in Jobs, pc[j] \in Working,
         NEW l \in Working, Goto(j, l), slots' = slots
  PROVE  SlotsAreJobs'
<1>1. Active' = Active
  BY OnlyOneMoves DEF Active
<1>. QED
  BY <1>1 DEF SlotsAreJobs

LEMMA InitInv == Init => MigrationInv
<1>. SUFFICES ASSUME Init PROVE MigrationInv
  OBVIOUS
<1>1. TypeOK
  BY MigrationAssumption DEF Init, TypeOK, Stages, PodStates
<1>2. SlotsAreJobs
  <2>1. Active = {}
    BY DEF Init, Active, Working
  <2>. QED
    BY <2>1, FS_EmptySet, MigrationAssumption DEF SlotsAreJobs, Init
<1>3. StagesInOrder /\ TargetKept
  BY DEF Init, StagesInOrder, TargetKept, Exists, Stages, Before, After
<1>. QED
  BY <1>1, <1>2, <1>3 DEF MigrationInv

\* Every action preserves the slots' part of the invariant.
LEMMA SlotsPreserved ==
  ASSUME MigrationInv, [Next]_vars
  PROVE  SlotsAreJobs'
<1>. USE DEF MigrationInv, memory, cluster
<1>1. ASSUME NEW j \in Jobs, Request(j) PROVE SlotsAreJobs'
  <2>1. CASE slots < MaxConcurrent
    <3>1. Active' = Active \cup {j} /\ j \notin Active
      BY <1>1, <2>1, OnlyOneMoves, "start" \in Working DEF Request, Active, Working
    <3>2. Cardinality(Active') = Cardinality(Active) + 1
      BY <3>1, ActiveFinite, FS_AddElement
    <3>. QED
      BY <1>1, <2>1, <3>2, MigrationAssumption DEF Request, SlotsAreJobs, TypeOK
  <2>2. CASE ~(slots < MaxConcurrent)
    BY <1>1, <2>2 DEF Request, SlotsAreJobs, Active
  <2>. QED
    BY <2>1, <2>2
<1>2. ASSUME NEW j \in Jobs, Release(j) PROVE SlotsAreJobs'
  <2>1. Active' = Active \ {j} /\ j \in Active
    BY <1>2, OnlyOneMoves DEF Release, Active, Working
  <2>2. Cardinality(Active') = Cardinality(Active) - 1
    BY <2>1, ActiveFinite, FS_RemoveElement
  <2>. QED
    BY <1>2, <2>2, MigrationAssumption DEF Release, SlotsAreJobs, TypeOK
<1>3. ASSUME NEW j \in Jobs, Step(j), ~Release(j) PROVE SlotsAreJobs'
  <2>1. pc[j] \in Working /\ slots' = slots
    BY <1>3 DEF Step, Working, Begin, Capture, CreateCheckpoint, Plan, CreateStagePod,
       StageDone, StageFails, DropStagePod, RemoveOriginal, Cleanup, Complete, Fail, Continue
  <2>2. \E l \in Working : Goto(j, l)
    BY <1>3 DEF Step, Working, Begin, Capture, CreateCheckpoint, Plan, CreateStagePod,
       StageDone, StageFails, DropStagePod, RemoveOriginal, Cleanup, Complete, Fail, Continue
  <2>. QED
    BY <2>1, <2>2, StillActive
<1>4. CASE Restart
  <2>1. Active' = {}
    BY <1>4 DEF Restart, Active, Working
  <2>. QED
    BY <1>4, <2>1, FS_EmptySet, MigrationAssumption DEF Restart, SlotsAreJobs
<1>5. ASSUME UNCHANGED <<pc, slots>> PROVE SlotsAreJobs'
  BY <1>5 DEF SlotsAreJobs, Active
<1>. QED
  BY <1>1, <1>2, <1>3, <1>4, <1>5
     DEF Next, vars, ContextExpires, StagePodMoves, OriginalVanishes

\* A taken slot can be given back.
LEMMA SlotTaken ==
  ASSUME MigrationInv, NEW j \in Jobs, pc[j] \in Working
  PROVE  slots - 1 \in Nat
<1>1. Cardinality(Active \ {j}) = slots - 1
  BY ActiveFinite, FS_RemoveElement DEF MigrationInv, SlotsAreJobs, Active
<1>. QED
  BY <1>1, ActiveFinite, FS_RemoveElement, FS_CardinalityType

-----------------------------------------------------------------------------
(* Types.                                                                  *)

LEMMA StagePodTyped ==
  ASSUME TypeOK, NEW j \in Jobs, NEW s \in Stages, NEW v \in PodStates
  PROVE  [stagePod EXCEPT ![j][s] = v] \in [Jobs -> [Stages -> PodStates]]
BY DEF TypeOK

\* Every action preserves the types.
LEMMA TypePreserved ==
  ASSUME MigrationInv, [Next]_vars
  PROVE  TypeOK'
<1>. USE MigrationAssumption DEF MigrationInv, memory, cluster
<1>1. ASSUME NEW j \in Jobs, Request(j) PROVE TypeOK'
  <2>1. plans' \in [Pods -> Jobs \cup {NoJob}]
    BY <1>1 DEF TypeOK, Request
  <2>2. slots \in Nat /\ (slots' = slots + 1 \/ slots' = slots)
    BY <1>1 DEF TypeOK, Request
  <2>4. slots' \in Nat
    BY <2>2
  <2>5. status' \in [Jobs -> {"unknown", "pending", "running", "completed", "failed"}]
    BY <1>1 DEF TypeOK, Request
  <2>3. pc' \in [Jobs -> Working \cup {"idle", "over", "lost"}]
    BY <1>1 DEF TypeOK, Request, Goto, Working
  <2>. QED
    BY <1>1, <2>1, <2>3, <2>4, <2>5 DEF TypeOK, Request
<1>2. ASSUME NEW j \in Jobs, Begin(j) PROVE TypeOK'
  BY <1>2 DEF TypeOK, Begin, Goto, Working
<1>3. ASSUME NEW j \in Jobs, Capture(j) PROVE TypeOK'
  BY <1>3 DEF TypeOK, Capture, Continue, Fail, Goto, Working
<1>4. ASSUME NEW j \in Jobs, CreateCheckpoint(j) PROVE TypeOK'
  BY ZenonT(60), <1>4 DEF TypeOK, CreateCheckpoint, Continue, Fail, Goto, Working
<1>5. ASSUME NEW j \in Jobs, Plan(j) PROVE TypeOK'
  <2>1. stage' \in [Jobs -> Stages]
    BY <1>5 DEF TypeOK, Plan, Fail
  <2>. QED
    BY <1>5, <2>1 DEF TypeOK, Plan, Fail, Goto, Working
<1>6. ASSUME NEW j \in Jobs, CreateStagePod(j) PROVE TypeOK'
  <2>1. stagePod' \in [Jobs -> [Stages -> PodStates]]
    BY <1>6, StagePodTyped, "pending" \in PodStates DEF TypeOK, CreateStagePod, PodStates
  <2>. QED
    BY ZenonT(60), <1>6, <2>1 DEF TypeOK, CreateStagePod, Continue, Fail, Goto, Working
<1>7. ASSUME NEW j \in Jobs, StageDone(j) PROVE TypeOK'
  BY <1>7 DEF TypeOK, StageDone, Continue, Goto, Working
<1>8. ASSUME NEW j \in Jobs, StageFails(j) PROVE TypeOK'
  BY <1>8 DEF TypeOK, StageFails, Fail, Goto, Working
<1>9. ASSUME NEW j \in Jobs, DropStagePod(j) PROVE TypeOK'
  <2>1. stagePod' \in [Jobs -> [Stages -> PodStates]]
    BY <1>9, StagePodTyped DEF TypeOK, DropStagePod, PodStates
  <2>2. stage' \in [Jobs -> Stages]
    BY <1>9 DEF TypeOK, DropStagePod, Following, Stages, Fail
  <2>. QED
    BY ZenonT(60), <1>9, <2>1, <2>2 DEF TypeOK, DropStagePod, Fail, Goto, Working
<1>10. ASSUME NEW j \in Jobs, RemoveOriginal(j) PROVE TypeOK'
  BY <1>10 DEF TypeOK, RemoveOriginal, Continue, Goto, Working
<1>11. ASSUME NEW j \in Jobs, Cleanup(j) PROVE TypeOK'
  BY <1>11 DEF TypeOK, Cleanup, Continue, Goto, Working
<1>12. ASSUME NEW j \in Jobs, Complete(j) PROVE TypeOK'
  BY <1>12 DEF TypeOK, Complete, Goto, Working
<1>13. ASSUME NEW j \in Jobs, Release(j) PROVE TypeOK'
  <2>1. slots' \in Nat
    BY <1>13, SlotTaken DEF Release, Working
  <2>. QED
    BY <1>13, <2>1 DEF TypeOK, Release, Goto, Working
<1>14. ASSUME NEW j \in Jobs, ContextExpires(j) PROVE TypeOK'
  BY <1>14 DEF TypeOK, ContextExpires
<1>15. ASSUME NEW j \in Jobs, NEW s \in Stages, StagePodMoves(j, s) PROVE TypeOK'
  <2>1. stagePod' \in [Jobs -> [Stages -> PodStates]]
    BY <1>15, StagePodTyped DEF StagePodMoves, PodStates
  <2>. QED
    BY <1>15, <2>1 DEF TypeOK, StagePodMoves
<1>16. ASSUME NEW p \in Pods, OriginalVanishes(p) PROVE TypeOK'
  BY <1>16 DEF TypeOK, OriginalVanishes
<1>17. CASE Restart
  BY <1>17 DEF TypeOK, Restart
<1>18. CASE UNCHANGED vars
  BY <1>18 DEF TypeOK, vars
<1>. QED
  BY <1>1, <1>2, <1>3, <1>4, <1>5, <1>6, <1>7, <1>8, <1>9, <1>10, <1>11, <1>12, <1>13,
     <1>14, <1>15, <1>16, <1>17, <1>18 DEF Next, Step

-----------------------------------------------------------------------------
(* The journey of a job.                                                   *)

\* What an action of job j leaves alone.
OthersStay(j) ==
  \A i \in Jobs \ {j} : pc'[i] = pc[i] /\ stage'[i] = stage[i] /\ stagePod'[i] = stagePod[i]

\* What the steps of a job that touch no stage pod do.
LEMMA QuietStep ==
  ASSUME TypeOK, StagesInOrder, NEW j \in Jobs, OthersStay(j), stagePod' = stagePod,
         pc[j] \in Before => pc'[j] \in Before \/ \A s \in Stages : ~ Exists(stagePod[j][s]),
         pc[j] \notin Before => pc'[j] \notin Before /\ stage'[j] = stage[j],
         pc'[j] = "drop" => stage'[j] # "output"
  PROVE  StagesInOrder'
BY DEF StagesInOrder, OthersStay, TypeOK

\* Every action preserves the order of the stages.
LEMMA OrderPreserved ==
  ASSUME MigrationInv, [Next]_vars
  PROVE  StagesInOrder'
<1>. USE DEF MigrationInv, memory, cluster
<1>1. ASSUME NEW j \in Jobs, Request(j) \/ Begin(j) \/ Capture(j) \/ CreateCheckpoint(j) \/ Plan(j)
      PROVE  StagesInOrder'
  <2>1. \A s \in Stages : ~ Exists(stagePod[j][s])
    BY <1>1 DEF StagesInOrder, Before, Request, Begin, Capture, CreateCheckpoint, Plan
  <2>2. OthersStay(j) /\ stagePod' = stagePod /\ pc[j] \in Before /\ pc'[j] # "drop"
    BY <1>1 DEF OthersStay, TypeOK, Before, Request, Begin, Capture, CreateCheckpoint, Plan,
       Continue, Fail, Goto
  <2>. QED
    BY <2>1, <2>2, QuietStep
<1>2. ASSUME NEW j \in Jobs, CreateStagePod(j) PROVE StagesInOrder'
  <2>1. \A s \in Stages : ~ Exists(stagePod[j][s])
    BY <1>2 DEF StagesInOrder, Before, CreateStagePod
  <2>2. /\ OthersStay(j) /\ stage' = stage /\ pc'[j] \in {"wait", "release"}
        /\ \A s \in Stages : s # stage[j] => stagePod'[j][s] = stagePod[j][s]
    BY <1>2 DEF OthersStay, TypeOK, CreateStagePod, Continue, Fail, Goto
  <2>. QED
    BY <2>1, <2>2 DEF StagesInOrder, OthersStay, TypeOK, Before
<1>3. ASSUME NEW j \in Jobs, DropStagePod(j) PROVE StagesInOrder'
  <2>1. \A s \in Stages : Exists(stagePod[j][s]) => s = stage[j]
    BY <1>3 DEF StagesInOrder
  <2>2. CASE pc'[j] = "create"
    <3>1. OthersStay(j) /\ \A s \in Stages : ~ Exists(stagePod'[j][s])
      BY <1>3, <2>1, <2>2 DEF OthersStay, TypeOK, DropStagePod, Goto, Fail, Exists, Before
    <3>. QED
      BY <2>2, <3>1 DEF StagesInOrder, OthersStay
  <2>3. CASE pc'[j] # "create"
    <3>1. /\ OthersStay(j) /\ stage' = stage /\ pc'[j] = "release"
          /\ \A s \in Stages : Exists(stagePod'[j][s]) => Exists(stagePod[j][s])
      BY <1>3, <2>3 DEF OthersStay, TypeOK, DropStagePod, Goto, Fail, Exists
    <3>. QED
      BY <2>1, <3>1 DEF StagesInOrder, OthersStay, Before
  <2>. QED
    BY <2>2, <2>3
<1>4. ASSUME NEW j \in Jobs, StageDone(j) \/ StageFails(j) \/ RemoveOriginal(j) \/ Cleanup(j)
                             \/ Complete(j) \/ Release(j) \/ ContextExpires(j)
      PROVE  StagesInOrder'
  <2>1. OthersStay(j) /\ stagePod' = stagePod /\ stage' = stage /\ (pc'[j] = "drop" => stage[j] # "output")
    BY <1>4 DEF OthersStay, TypeOK, StagesInOrder, StageDone, StageFails, RemoveOriginal, Cleanup,
       Complete, Release, ContextExpires, Continue, Fail, Goto
  <2>2. pc[j] \in Before => pc'[j] = pc[j]
    BY <1>4 DEF TypeOK, Before, StageDone, StageFails, RemoveOriginal, Cleanup,
       Complete, Release, ContextExpires
  <2>3. pc[j] \notin Before => pc'[j] \notin Before
    BY <1>4 DEF TypeOK, Before, StageDone, StageFails, RemoveOriginal, Cleanup,
       Complete, Release, ContextExpires, Continue, Fail, Goto
  <2>. QED
    BY <2>1, <2>2, <2>3, QuietStep
<1>5. ASSUME NEW j \in Jobs, NEW s \in Stages, StagePodMoves(j, s) PROVE StagesInOrder'
  <2>1. /\ OthersStay(j) /\ stage' = stage /\ pc' = pc
        /\ \A t \in Stages : Exists(stagePod'[j][t]) => Exists(stagePod[j][t])
    BY <1>5 DEF OthersStay, TypeOK, StagePodMoves, Exists
  <2>. QED
    BY <2>1 DEF StagesInOrder, OthersStay
<1>6. CASE Restart
  <2>1. /\ stage' = stage /\ stagePod' = stagePod
        /\ \A j \in Jobs : pc'[j] = IF pc[j] \in Working THEN "lost" ELSE pc[j]
    BY <1>6 DEF Restart
  <2>. QED
    BY <2>1 DEF StagesInOrder, Before
<1>7. ASSUME UNCHANGED <<pc, stage, stagePod>> PROVE StagesInOrder'
  BY <1>7 DEF StagesInOrder
<1>. QED
  BY <1>1, <1>2, <1>3, <1>4, <1>5, <1>6, <1>7 DEF Next, Step, vars, OriginalVanishes

\* Every action keeps what has arrived.
LEMMA TargetPreserved ==
  ASSUME MigrationInv, [Next]_vars
  PROVE  TargetKept'
<1>. USE DEF MigrationInv, memory, cluster
<1>1. ASSUME NEW j \in Jobs, Request(j) \/ Begin(j) \/ Capture(j) \/ CreateCheckpoint(j) \/ Plan(j)
                             \/ CreateStagePod(j) \/ StageFails(j) \/ DropStagePod(j)
      PROVE  TargetKept'
  <2>1. OthersStay(j) /\ arrived' = arrived /\ pc'[j] \notin After /\ j \notin arrived
    BY <1>1 DEF OthersStay, TypeOK, TargetKept, After, Request, Begin, Capture, CreateCheckpoint,
       Plan, CreateStagePod, StageFails, DropStagePod, Continue, Fail, Goto
  <2>. QED
    BY <2>1 DEF TargetKept, OthersStay
<1>2. ASSUME NEW j \in Jobs, StageDone(j) PROVE TargetKept'
  <2>1. OthersStay(j) /\ stagePod' = stagePod /\ arrived \subseteq arrived' /\ arrived' \subseteq arrived \cup {j}
    BY <1>2 DEF OthersStay, TypeOK, StageDone, Continue, Goto
  <2>2. CASE stage[j] = "output"
    BY <1>2, <2>1, <2>2 DEF TargetKept, OthersStay, TypeOK, After, StageDone, Continue, Goto
  <2>3. CASE stage[j] # "output"
    BY <1>2, <2>1, <2>3 DEF TargetKept, OthersStay, TypeOK, After, StageDone, Continue, Goto
  <2>. QED
    BY <2>2, <2>3
<1>3. ASSUME NEW j \in Jobs, RemoveOriginal(j) \/ Cleanup(j) \/ Complete(j) \/ Release(j)
                             \/ ContextExpires(j)
      PROVE  TargetKept'
  <2>1. OthersStay(j) /\ arrived' = arrived /\ stagePod' = stagePod
    BY <1>3 DEF OthersStay, TypeOK, RemoveOriginal, Cleanup, Complete, Release, ContextExpires,
       Continue, Goto
  <2>2. /\ pc'[j] \in After => pc[j] \in After
        /\ pc[j] \in After \cup {"release", "over", "lost"}
             => pc'[j] \in After \cup {"release", "over", "lost"}
    BY <1>3 DEF TypeOK, After, RemoveOriginal, Cleanup, Complete, Release, ContextExpires,
       Continue, Goto
  <2>. QED
    BY <2>1, <2>2 DEF TargetKept, OthersStay
<1>4. ASSUME NEW j \in Jobs, NEW s \in Stages, StagePodMoves(j, s) PROVE TargetKept'
  <2>1. OthersStay(j) /\ pc' = pc /\ arrived' = arrived
    BY <1>4 DEF OthersStay, TypeOK, StagePodMoves
  <2>2. stagePod[j]["output"] \in {"ready", "succeeded", "failed", "vanished"}
          => stagePod'[j]["output"] \in {"ready", "succeeded", "failed", "vanished"}
    BY <1>4 DEF TypeOK, StagePodMoves, Stages
  <2>. QED
    BY <2>1, <2>2 DEF TargetKept, OthersStay
<1>5. CASE Restart
  <2>1. /\ arrived' = arrived /\ stagePod' = stagePod
        /\ \A j \in Jobs : pc'[j] = IF pc[j] \in Working THEN "lost" ELSE pc[j]
    BY <1>5 DEF Restart
  <2>. QED
    BY <2>1 DEF TargetKept, After
<1>6. ASSUME UNCHANGED <<pc, arrived, stagePod>> PROVE TargetKept'
  BY <1>6 DEF TargetKept
<1>. QED
  BY <1>1, <1>2, <1>3, <1>4, <1>5, <1>6 DEF Next, Step, vars, OriginalVanishes

LEMMA InvPreserved == MigrationInv /\ [Next]_vars => MigrationInv'
BY SlotsPreserved, TypePreserved, OrderPreserved, TargetPreserved DEF MigrationInv

LEMMA InvAlways == Spec => []MigrationInv
BY InitInv, InvPreserved, PTL DEF Spec

-----------------------------------------------------------------------------
(* The theorems.                                                           *)

\* No path through executeMigration, no failure and no restart leaks a concurrency slot or
\* frees one twice, and the limit is kept.
THEOREM MigrationSlots == Spec => []SlotsAreJobs
BY InvAlways, PTL DEF MigrationInv

\* The variables keep their types; the slots never go below zero.
THEOREM MigrationTypeOK == Spec => []TypeOK
BY InvAlways, PTL DEF MigrationInv

\* A job's stage pods never exist side by side, even when a call of executeStagePipeline
\* fails after it took effect.
THEOREM MigrationOneStagePod == Spec => []OneStagePod
<1>1. StagesInOrder => OneStagePod
  BY DEF StagesInOrder, OneStagePod
<1>. QED
  BY <1>1, InvAlways, PTL DEF MigrationInv

-----------------------------------------------------------------------------
(* A migration is a handover.                                              *)

LEMMA InitPlaces == Init => H!Init
BY DEF Init, H!Init, Places, Replaced

\* What happens to the places when only one original pod is lost.
LEMMA RemoveIsLeave ==
  ASSUME MigrationInv, NEW j \in Jobs, RemoveOriginal(j)
  PROVE  H!Leave(PodOf[j]) \/ UNCHANGED Places
<1>. DEFINE p == PodOf[j]
<1>0. p \in Pods
  BY MigrationAssumption
<1>1. arrived' = arrived /\ stagePod' = stagePod
  BY <1>0 DEF RemoveOriginal
<1>2. Replaced(p)
  BY DEF RemoveOriginal, MigrationInv, TargetKept, After, Replaced
<1>3. \A q \in Pods : Replaced(q)' <=> Replaced(q)
  BY <1>1 DEF Replaced
<1>4. CASE orig' = orig
  BY <1>3, <1>4 DEF Places
<1>5. CASE orig' # orig
  <2>1. orig' = [orig EXCEPT ![p] = "deleted"]
    BY <1>5 DEF RemoveOriginal
  <2>2. Places' = [Places EXCEPT ![p] = @ \ {"source"}]
    <3>1. \A q \in Pods : Places'[q] = IF q = p THEN Places[q] \ {"source"} ELSE Places[q]
      BY <1>0, <1>2, <1>3, <2>1 DEF Places, MigrationInv, TypeOK
    <3>. QED
      BY ZenonT(60), <1>0, <3>1 DEF Places
  <2>3. "target" \in Places[p]
    BY <1>0, <1>2 DEF Places
  <2>. QED
    BY <2>2, <2>3 DEF H!Leave
<1>. QED
  BY <1>4, <1>5

\* The only step that gives a pod a place.
LEMMA DoneIsArrive ==
  ASSUME MigrationInv, NEW j \in Jobs, StageDone(j)
  PROVE  H!Arrive(PodOf[j]) \/ UNCHANGED Places
<1>. DEFINE p == PodOf[j]
<1>0. p \in Pods
  BY MigrationAssumption
<1>1. orig' = orig /\ stagePod' = stagePod
  BY DEF StageDone
<1>2. CASE stage[j] # "output"
  <2>1. arrived' = arrived
    BY <1>2 DEF StageDone
  <2>. QED
    BY <1>1, <2>1 DEF Places, Replaced
<1>3. CASE stage[j] = "output"
  <2>1. arrived' = arrived \cup {j} /\ stagePod[j]["output"] # "deleted"
    BY <1>3 DEF StageDone
  <2>2. \A q \in Pods : Replaced(q)' <=> (Replaced(q) \/ q = p)
    BY <1>1, <2>1 DEF Replaced
  <2>3. \A q \in Pods : Places'[q] = IF q = p THEN Places[q] \cup {"target"} ELSE Places[q]
    BY <1>0, <1>1, <2>2 DEF Places
  <2>4. Places' = [Places EXCEPT ![p] = @ \cup {"target"}]
    BY ZenonT(60), <1>0, <2>3 DEF Places
  <2>. QED
    BY <2>4 DEF H!Arrive
<1>. QED
  BY <1>2, <1>3

\* Every other change of a stage pod leaves the pods where they are.
LEMMA PodMoveIsStutter ==
  ASSUME MigrationInv, NEW j \in Jobs, NEW s \in Stages,
         CreateStagePod(j) \/ DropStagePod(j) \/ StagePodMoves(j, s)
  PROVE  UNCHANGED Places
<1>1. orig' = orig /\ arrived' = arrived
  BY DEF CreateStagePod, DropStagePod, StagePodMoves
<1>2. \A i \in arrived : stagePod'[i]["output"] = "deleted" <=> stagePod[i]["output"] = "deleted"
  <2>1. CASE CreateStagePod(j) \/ DropStagePod(j)
    <3>1. j \notin arrived
      BY <2>1 DEF CreateStagePod, DropStagePod, MigrationInv, TargetKept, After
    <3>. QED
      BY <2>1, <3>1 DEF CreateStagePod, DropStagePod, MigrationInv, TypeOK
  <2>2. CASE StagePodMoves(j, s)
    BY <2>2 DEF StagePodMoves, MigrationInv, TypeOK, Stages
  <2>. QED
    BY <2>1, <2>2
<1>3. \A q \in Pods : Replaced(q)' <=> Replaced(q)
  BY <1>1, <1>2 DEF Replaced, MigrationInv, TypeOK
<1>. QED
  BY <1>1, <1>3 DEF Places

LEMMA StepIsHandover == MigrationInv /\ [Next]_vars => [H!Next]_Places
<1>. SUFFICES ASSUME MigrationInv, [Next]_vars PROVE H!Next \/ UNCHANGED Places
  OBVIOUS
<1>. USE DEF memory, cluster
<1>1. ASSUME NEW j \in Jobs, RemoveOriginal(j) \/ StageDone(j) PROVE H!Next \/ UNCHANGED Places
  <2>1. PodOf[j] \in Pods
    BY MigrationAssumption
  <2>. QED
    BY <1>1, <2>1, RemoveIsLeave, DoneIsArrive DEF H!Next
<1>2. ASSUME NEW j \in Jobs, CreateStagePod(j) \/ DropStagePod(j) PROVE UNCHANGED Places
  BY <1>2, PodMoveIsStutter, "output" \in Stages DEF Stages
<1>3. ASSUME NEW j \in Jobs, NEW s \in Stages, StagePodMoves(j, s) PROVE UNCHANGED Places
  BY <1>3, PodMoveIsStutter
<1>4. ASSUME NEW q \in Pods, OriginalVanishes(q) PROVE UNCHANGED Places
  <2>1. \A p \in Pods : orig'[p] = "deleted" <=> orig[p] = "deleted"
    BY <1>4 DEF OriginalVanishes, MigrationInv, TypeOK
  <2>. QED
    BY <1>4, <2>1 DEF OriginalVanishes, Places, Replaced
<1>5. ASSUME UNCHANGED <<orig, stagePod, arrived>> PROVE UNCHANGED Places
  BY <1>5 DEF Places, Replaced
<1>. QED
  BY <1>1, <1>2, <1>3, <1>4, <1>5 DEF Next, Step, vars, Request, Begin, Capture,
     CreateCheckpoint, Plan, StageFails, Cleanup, Complete, Release, ContextExpires, Restart

\* Every migration is a handover: executeMigration deletes an original pod only when a
\* replacement has finished its output stage, and never deletes that replacement, whatever
\* fails, expires or crashes.
THEOREM MigrationIsHandover == Spec => Implements
<1>1. Spec => H!Init
  BY InitPlaces DEF Spec
<1>2. MigrationInv /\ [Next]_vars => [H!Next]_Places
  BY StepIsHandover
<1>. QED
  BY <1>1, <1>2, InvAlways, PTL DEF Spec, Implements, H!Spec

\* What follows of a handover: no pod is taken away by migrations without a replacement,
\* however many of them work on it at the same time.
THEOREM MigrationNeverHomeless == Spec => []H!NeverHomeless
<1>1. H!Init => H!NeverHomeless
  BY DEF H!Init, H!NeverHomeless, Places
<1>2. H!NeverHomeless /\ [H!Next]_Places => H!NeverHomeless'
  <2>. SUFFICES ASSUME H!NeverHomeless, [H!Next]_Places PROVE H!NeverHomeless'
    OBVIOUS
  <2>1. CASE UNCHANGED Places
    BY <2>1 DEF H!NeverHomeless
  <2>2. ASSUME NEW p \in Pods, H!Arrive(p) PROVE H!NeverHomeless'
    BY <2>2 DEF H!Arrive, H!NeverHomeless, Places
  <2>3. ASSUME NEW p \in Pods, H!Leave(p) PROVE H!NeverHomeless'
    BY <2>3 DEF H!Leave, H!NeverHomeless, Places
  <2>. QED
    BY <2>1, <2>2, <2>3 DEF H!Next
<1>. QED
  BY <1>1, <1>2, MigrationIsHandover, PTL DEF Implements, H!Spec
=============================================================================
