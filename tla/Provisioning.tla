---------------------------- MODULE Provisioning ----------------------------
(***************************************************************************)
(* The orchestrator's provisionings                                        *)
(* (ai-storage-orchestrator/pkg/controller/provisioning.go): a request     *)
(* becomes a record and a goroutine, executeProvisioning, that creates a   *)
(* PVC, starts a binder pod for it and waits until it is bound; a DELETE   *)
(* request cancels the goroutine, deletes the PVC and forgets the record.  *)
(*                                                                         *)
(* The name of the PVC ends in provisioningID[:8], which is "provisio" for *)
(* every id: all provisionings of a workload share one name.  A call to    *)
(* the API server succeeds, fails, or fails although it took effect; a     *)
(* creation already sent when its context is cancelled may land later.     *)
(* Sizes, classes, the averages of the metrics and the hints to Gluesys    *)
(* are left out.                                                           *)
(***************************************************************************)
EXTENDS Integers, FiniteSets

CONSTANTS
  Provisionings,  \* the ids of the requests
  Workloads,      \* namespace/name of the workloads
  WorkloadOf,     \* WorkloadOf[r]: the workload r asks storage for
  Deleters,       \* goroutines that serve DELETE requests
  MaxProvCrashes  \* bound: crashes of the orchestrator

ASSUME ProvisioningAssumption ==
  /\ IsFiniteSet(Provisionings)
  /\ WorkloadOf \in [Provisionings -> Workloads]
  /\ MaxProvCrashes \in Nat

VARIABLES
  provStatus,   \* provStatus[r]: job.Status; "unknown" if pc.provisionings has no r
  provPc,       \* provPc[r]: the next step of r's goroutine
  provStopped,  \* the requests whose context is cancelled
  provActive,   \* metrics.ActiveProvisionings
  provPlans,    \* the workloads with a plan of kind "provisioning" in the plan store
  deleter,      \* deleter[d]: the DELETE request d serves and its next step
  pvcOf,        \* pvcOf[w]: the request that created the PVC of w's name, or NoPVC
  lateCreate,   \* the requests whose creation is still on its way after their goroutine
                \* gave up on it
  binders,      \* the requests whose binder pod exists
  unbinding,    \* the requests whose goroutine has deferred the deletion of its binder pod
  provDeletes,  \* history: completed DELETE requests
  provExcused,  \* history: see LeavingsHaveCause
  provCrashes

provVars == <<provStatus, provPc, provStopped, provActive, provPlans, deleter, pvcOf,
              lateCreate, binders, unbinding, provDeletes, provExcused, provCrashes>>
provRecords == <<provActive, provPlans, deleter, provDeletes, provCrashes>>
provBinding == <<binders, unbinding>>

NoPVC     == "none"
Unsettled == {"begin", "send", "landing", "bind", "wait", "ready", "settle"}
IdleDeleter == [at |-> "idle"]

ProvTypeOK ==
  /\ provStatus \in [Provisionings ->
                       {"unknown", "Pending", "Creating", "Ready", "Failed", "Deleting"}]
  /\ provPc \in [Provisionings -> Unsettled \cup {"idle", "unbind", "over"}]
  /\ provStopped \subseteq Provisionings
  /\ provActive \in Int
  /\ provPlans \subseteq Workloads
  /\ deleter \in [Deleters -> {IdleDeleter} \cup [at : {"pvc", "forget"}, job : Provisionings]]
  /\ pvcOf \in [Workloads -> Provisionings \cup {NoPVC}]
  /\ lateCreate \subseteq Provisionings
  /\ binders \subseteq Provisionings
  /\ unbinding \subseteq Provisionings
  /\ provDeletes \in Nat
  /\ provExcused \subseteq Provisionings
  /\ provCrashes \in Nat

-----------------------------------------------------------------------------
ProvGoto(r, l) == provPc' = [provPc EXCEPT ![r] = l]

\* updateJobStatus: the goroutine keeps its job after the record is gone.
SetProvStatus(r, s) ==
  provStatus' = [provStatus EXCEPT ![r] = IF @ = "unknown" THEN @ ELSE s]

FailProvisioning(r) == SetProvStatus(r, "Failed") /\ ProvGoto(r, "settle")

ProvInit ==
  /\ provStatus = [r \in Provisionings |-> "unknown"]
  /\ provPc = [r \in Provisionings |-> "idle"]
  /\ provStopped = {}
  /\ provActive = 0
  /\ provPlans = {}
  /\ deleter = [d \in Deleters |-> IdleDeleter]
  /\ pvcOf = [w \in Workloads |-> NoPVC]
  /\ lateCreate = {}
  /\ binders = {}
  /\ unbinding = {}
  /\ provDeletes = 0
  /\ provExcused = {}
  /\ provCrashes = 0

CreateProvisioning(r) ==
  /\ provPc[r] = "idle"
  /\ provPlans' = provPlans \cup {WorkloadOf[r]}
  /\ provStatus' = [provStatus EXCEPT ![r] = "Pending"]
  /\ provActive' = provActive + 1
  /\ ProvGoto(r, "begin")
  /\ UNCHANGED <<provStopped, deleter, pvcOf, lateCreate, provBinding, provDeletes,
                 provExcused, provCrashes>>

BeginProvisioning(r) ==
  /\ provPc[r] = "begin"
  /\ SetProvStatus(r, "Creating")
  /\ ProvGoto(r, "send")
  /\ UNCHANGED <<provStopped, pvcOf, lateCreate, provBinding, provExcused, provRecords>>

\* Mutant: the PVC is created under a context of its own, which nothing cancels.
SendPVC_Background(r) ==
  /\ provPc[r] = "send"
  /\ ProvGoto(r, "landing")
  /\ UNCHANGED <<provStatus, provStopped, pvcOf, lateCreate, provBinding, provExcused, provRecords>>

\* CreatePVCWithAnnotations: a request is not sent once the context is cancelled.
SendPVC(r) ==
  /\ provPc[r] = "send"
  /\ IF r \in provStopped
     THEN FailProvisioning(r)
     ELSE ProvGoto(r, "landing") /\ UNCHANGED provStatus
  /\ UNCHANGED <<provStopped, pvcOf, lateCreate, provBinding, provExcused, provRecords>>

\* The answer.  A name that is taken is refused; so is the creation of a PVC whose name
\* an earlier provisioning of the workload has given to its own.
LandPVC(r) ==
  /\ provPc[r] = "landing"
  /\ \/ /\ pvcOf[WorkloadOf[r]] = NoPVC
        /\ pvcOf' = [pvcOf EXCEPT ![WorkloadOf[r]] = r]
        /\ \/ ProvGoto(r, "bind") /\ UNCHANGED provStatus
           \/ FailProvisioning(r)
        /\ UNCHANGED lateCreate
     \/ FailProvisioning(r) /\ UNCHANGED <<pvcOf, lateCreate>>
     \/ /\ r \in provStopped
        /\ FailProvisioning(r)
        /\ lateCreate' = lateCreate \cup {r}
        /\ UNCHANGED pvcOf
  /\ UNCHANGED <<provStopped, provBinding, provExcused, provRecords>>

LandLate(r) ==
  /\ r \in lateCreate
  /\ lateCreate' = lateCreate \ {r}
  /\ pvcOf' = [pvcOf EXCEPT ![WorkloadOf[r]] = IF @ = NoPVC THEN r ELSE @]
  /\ UNCHANGED <<provStatus, provPc, provStopped, provBinding, provExcused, provRecords>>

\* CreateBindingPodForPVC: its failure is only logged.  Without an answer nothing will
\* delete a pod that was created all the same.
BindPVC(r) ==
  /\ provPc[r] = "bind"
  /\ ProvGoto(r, "wait")
  /\ \/ /\ r \notin provStopped
        /\ binders' = binders \cup {r}
        /\ \/ unbinding' = unbinding \cup {r} /\ UNCHANGED provExcused
           \/ provExcused' = provExcused \cup {r} /\ UNCHANGED unbinding
     \/ UNCHANGED <<binders, unbinding, provExcused>>
  /\ UNCHANGED <<provStatus, provStopped, pvcOf, lateCreate, provRecords>>

\* Mutant: the wait polls for the PVC without a limit of time.
WaitPVC_NoTimeout(r) ==
  /\ provPc[r] = "wait"
  /\ pvcOf[WorkloadOf[r]] # NoPVC
  /\ ProvGoto(r, "ready")
  /\ UNCHANGED <<provStatus, provStopped, pvcOf, lateCreate, provBinding, provExcused, provRecords>>

\* WaitForPVCReady: bound, or gone, cancelled or out of time.
WaitPVC(r) ==
  /\ provPc[r] = "wait"
  /\ \/ /\ pvcOf[WorkloadOf[r]] # NoPVC
        /\ ProvGoto(r, "ready")
        /\ UNCHANGED provStatus
     \/ FailProvisioning(r)
  /\ UNCHANGED <<provStopped, pvcOf, lateCreate, provBinding, provExcused, provRecords>>

ReadyProvisioning(r) ==
  /\ provPc[r] = "ready"
  /\ SetProvStatus(r, "Ready")
  /\ ProvGoto(r, "settle")
  /\ UNCHANGED <<provStopped, pvcOf, lateCreate, provBinding, provExcused, provRecords>>

\* Mutant: the path of a failure forgets the counter.
SettleProvisioning_KeepsFailed(r) ==
  /\ provPc[r] = "settle"
  /\ provActive' = IF provStatus[r] = "Failed" THEN provActive ELSE provActive - 1
  /\ ProvGoto(r, "unbind")
  /\ UNCHANGED <<provStatus, provStopped, provPlans, deleter, pvcOf, lateCreate, provBinding,
                 provDeletes, provExcused, provCrashes>>

\* The counter is a critical section of its own, after the status.
SettleProvisioning(r) ==
  /\ provPc[r] = "settle"
  /\ provActive' = provActive - 1
  /\ ProvGoto(r, "unbind")
  /\ UNCHANGED <<provStatus, provStopped, provPlans, deleter, pvcOf, lateCreate, provBinding,
                 provDeletes, provExcused, provCrashes>>

\* The deferred deletion of the binder pod, registered where its creation was answered;
\* its error is dropped.
Unbind(r) ==
  /\ provPc[r] = "unbind"
  /\ ProvGoto(r, "over")
  /\ unbinding' = unbinding \ {r}
  /\ \/ binders' = binders \ (unbinding \cap {r}) /\ UNCHANGED provExcused
     \/ /\ r \in unbinding
        /\ provExcused' = provExcused \cup {r}
        /\ UNCHANGED binders
  /\ UNCHANGED <<provStatus, provStopped, pvcOf, lateCreate, provRecords>>

-----------------------------------------------------------------------------
\* DeleteProvisioning up to the unlock.  A creation that is on its way now may still land.
DeleteProvisioning(d, r) ==
  /\ deleter[d] = IdleDeleter
  /\ provStatus[r] # "unknown"
  /\ provStopped' = provStopped \cup {r}
  /\ provStatus' = [provStatus EXCEPT ![r] = "Deleting"]
  /\ deleter' = [deleter EXCEPT ![d] = [at |-> "pvc", job |-> r]]
  /\ provExcused' = IF provPc[r] = "landing" THEN provExcused \cup {r} ELSE provExcused
  /\ UNCHANGED <<provPc, provActive, provPlans, pvcOf, lateCreate, provBinding, provDeletes,
                 provCrashes>>

\* DeletePVC, by name; an error is logged and the record is removed all the same.
DeletePVC(d) ==
  /\ deleter[d].at = "pvc"
  /\ deleter' = [deleter EXCEPT ![d].at = "forget"]
  /\ LET r == deleter[d].job IN
     \/ pvcOf' = [pvcOf EXCEPT ![WorkloadOf[r]] = NoPVC] /\ UNCHANGED provExcused
     \/ provExcused' = provExcused \cup {r} /\ UNCHANGED pvcOf
  /\ UNCHANGED <<provStatus, provPc, provStopped, provActive, provPlans, lateCreate, provBinding,
                 provDeletes, provCrashes>>

ForgetProvisioning(d) ==
  /\ deleter[d].at = "forget"
  /\ provStatus' = [provStatus EXCEPT ![deleter[d].job] = "unknown"]
  /\ provActive' = provActive - 1
  /\ provDeletes' = provDeletes + 1
  /\ deleter' = [deleter EXCEPT ![d] = IdleDeleter]
  /\ UNCHANGED <<provPc, provStopped, provPlans, pvcOf, lateCreate, provBinding, provExcused,
                 provCrashes>>

\* The orchestrator restarts with empty maps; a creation already sent may still land.
CrashProvisioning ==
  /\ provCrashes < MaxProvCrashes
  /\ provCrashes' = provCrashes + 1
  /\ lateCreate' = lateCreate \cup {r \in Provisionings : provPc[r] = "landing"}
  /\ provExcused' = provExcused \cup {r \in Provisionings : provPc[r] # "idle"}
  /\ provStatus' = [r \in Provisionings |-> "unknown"]
  /\ provPc' = [r \in Provisionings |-> IF provPc[r] = "idle" THEN "idle" ELSE "over"]
  /\ provActive' = 0
  /\ provPlans' = {}
  /\ provDeletes' = 0
  /\ deleter' = [d \in Deleters |-> IdleDeleter]
  /\ unbinding' = {}
  /\ UNCHANGED <<provStopped, pvcOf, binders>>

ExecuteProvisioning(r) ==
  \/ BeginProvisioning(r)
  \/ SendPVC(r)
  \/ LandPVC(r)
  \/ BindPVC(r)
  \/ WaitPVC(r)
  \/ ReadyProvisioning(r)
  \/ SettleProvisioning(r)
  \/ Unbind(r)

ProvNext ==
  \/ \E r \in Provisionings :
       \/ CreateProvisioning(r)
       \/ ExecuteProvisioning(r)
       \/ LandLate(r)
       \/ \E d \in Deleters : DeleteProvisioning(d, r)
  \/ \E d \in Deleters : DeletePVC(d) \/ ForgetProvisioning(d)
  \/ CrashProvisioning

ProvSpec == ProvInit /\ [][ProvNext]_provVars

\* A goroutine runs on, and every call it makes returns.
ProvFairness == \A r \in Provisionings : WF_provVars(ExecuteProvisioning(r))

-----------------------------------------------------------------------------
(* Properties. *)

\* What is left behind in the cluster has a cause: a PVC whose provisioning is not recorded
\* any more, or a binder pod that no goroutine will delete, was left by a deletion that
\* failed, by a call without an answer, by a crash, or by a DELETE request that overtook
\* the creation (provisioning.go:356, 386, 613, 626).
LeavingsHaveCause ==
  /\ \A w \in Workloads : LET r == pvcOf[w] IN
       (r # NoPVC /\ provStatus[r] = "unknown") => r \in provExcused
  /\ \A r \in binders : provPc[r] = "over" => r \in provExcused

\* The gauge of active provisionings (provisioning.go:246, 370, 395, 412, 632) is the goroutines
\* that have not settled, less one for every DELETE request served: it never exceeds the
\* work in progress, and two DELETE requests for one record count twice.
ActiveIsUnsettledLessDeletes ==
  provActive = Cardinality({r \in Provisionings : provPc[r] \in Unsettled}) - provDeletes

\* executeProvisioning ends, and deletes or gives up its binder pod, whatever becomes of
\* the PVC it waits for: the wait is bounded (provisioning.go:391, client.go:268).
ProvisioningEnds == \A r \in Provisionings : (provPc[r] = "begin") ~> (provPc[r] = "over")
=============================================================================
