------------------------------ MODULE Webhook ------------------------------
(***************************************************************************)
(* The mutating webhook (ai-storage-webhook/pkg/webhook/mutate.go): it     *)
(* selects a storage tier for a PersistentVolumeClaim and writes it, as a  *)
(* storage class and as metadata, and gives a Pod a tier of its own, with  *)
(* the metadata its claim has and it lacks.                                *)
(*                                                                         *)
(* Both are called when the object is created and, since                   *)
(* reinvocationPolicy is IfNeeded, once more if another webhook has        *)
(* changed it; failurePolicy Ignore lets an object through that the        *)
(* webhook has not seen (deployments/webhook-config.yaml).                 *)
(*                                                                         *)
(* An object is a function of the fields the selection reads or writes,    *)
(* "none" where the key is absent or blank.  A value that no rule knows is *)
(* "other".  The stage stands for the keys it is read from, of which the   *)
(* webhook fills in the last.                                              *)
(***************************************************************************)
EXTENDS Integers, FiniteSets, Sequences, FiniteSetsExt

CONSTANTS
  UserClaims,   \* the claims that users create
  UserPods,     \* and their Pods; the claim is mounted in each
  OtherGives(_) \* the values of a field that another webhook adds

VARIABLES
  claim,    \* the claim: a value for each of ClaimFields
  claimPc,  \* "none", "new", "seen", "changed", "stored"
  pod,      \* the Pod: a value for each of PodFields
  podPc,
  preset    \* history: someone else has given the claim a selected tier or class

webhookVars == <<claim, claimPc, pod, podPc, preset>>

Tiers == {"L1", "L2", "L3", "S3"}
TierOrder == <<"L1", "L2", "L3", "S3">>
None == "none"

\* storageClassByTier, storageClassToTier and normalizeTier, on the names they know.
ClassOf == [L1 |-> "storage-l1", L2 |-> "storage-l2", L3 |-> "storage-l3", S3 |-> "storage-s3"]
LegacyClass == {"storage-burst", "storage-cache", "storage-performance", "storage-capacity",
                "storage-archive"}
FinalClass == {ClassOf[t] : t \in Tiers}
\* Mutant: without the case of L3.
TierOfClass_MissesL3(c) ==
  CASE c \in {"storage-l1", "storage-burst", "storage-cache"} -> "L1"
    [] c \in {"storage-l2", "storage-performance"} -> "L2"
    [] OTHER -> "S3"
TierOfClass(c) ==
  CASE c \in {"storage-l1", "storage-burst", "storage-cache"} -> "L1"
    [] c \in {"storage-l2", "storage-performance"} -> "L2"
    [] c \in {"storage-l3", "storage-capacity"} -> "L3"
    [] OTHER -> "S3"
NormalTier(raw) ==
  CASE raw \in {"L1", "burst", "cache"} -> "L1"
    [] raw \in {"L2", "performance"} -> "L2"
    [] raw \in {"L3", "capacity"} -> "L3"
    [] raw \in {"S3", "archive"} -> "S3"
    [] OTHER -> None
Replaceable == {"nfs-client"}

-----------------------------------------------------------------------------
(* The points of a tier, in the order of TierOrder, for the values of a signal. *)

Zero == <<0, 0, 0, 0>>
Table(points) == [v \in DOMAIN points \cup {"none", "other"} |->
                    IF v \in DOMAIN points THEN points[v] ELSE Zero]

\* scoreRuleSelect.
RulePoints ==
  [role     |-> Table([cache |-> <<50, 0, 0, 0>>, input |-> <<0, 50, 0, 0>>,
                       raw |-> <<0, 0, 50, 0>>, archive |-> <<0, 0, 0, 50>>]),
   workload |-> Table([training |-> <<0, 25, 0, 0>>, ingest |-> <<0, 0, 25, 0>>,
                       archive |-> <<0, 0, 0, 25>>]),
   access   |-> Table([repeated |-> <<30, 0, 0, 0>>, frequent |-> <<0, 20, 0, 0>>,
                       occasional |-> <<0, 0, 15, 0>>, rare |-> <<0, 0, 0, 20>>]),
   latency  |-> Table([ultralow |-> <<30, 0, 0, 0>>, low |-> <<0, 25, 0, 0>>,
                       normal |-> <<0, 0, 15, 0>>, highok |-> <<0, 0, 0, 20>>]),
   io       |-> Table([smallread |-> <<20, 0, 0, 0>>, largeread |-> <<0, 15, 10, 0>>,
                       largewrite |-> <<0, 0, 15, 10>>]),
   priority |-> Table([high |-> <<5, 10, 0, 0>>, medium |-> <<0, 5, 5, 0>>,
                       low |-> <<0, 0, 5, 10>>]),
   weight   |-> Table([heavy |-> <<5, 5, 0, 0>>, one |-> <<0, 5, 0, 0>>,
                       light |-> <<0, 0, 5, 0>>])]

\* selectStorageClass.
LegacyPoints ==
  [type      |-> Table([preprocess |-> <<2, 1, 1, 0>>, train |-> <<1, 2, 1, 0>>,
                        inference |-> <<0, 1, 2, 0>>]),
   gpu       |-> Table([some |-> <<0, 2, 1, 0>>, zero |-> <<1, 0, 1, 0>>]),
   kind      |-> Table([job |-> <<2, 2, 1, 0>>, cronjob |-> <<2, 0, 1, 0>>,
                        deployment |-> <<0, 1, 2, 0>>, statefulset |-> <<1, 1, 2, 0>>]),
   mount     |-> Table([cache |-> <<2, 0, 0, 0>>, inout |-> <<2, 0, 1, 0>>,
                        checkpoint |-> <<0, 2, 0, 0>>, model |-> <<0, 1, 2, 0>>,
                        data |-> <<1, 1, 1, 0>>]),
   framework |-> Table([learning |-> <<0, 2, 1, 0>>, pipeline |-> <<2, 0, 1, 0>>,
                        serving |-> <<0, 1, 2, 0>>]),
   readonly  |-> Table([yes |-> <<0, 0, 2, 1>>, no |-> <<2, 1, 0, 0>>]),
   pvcs      |-> Table([one |-> <<0, 0, 1, 0>>, many |-> <<2, 1, 0, 0>>]),
   replicas  |-> Table([one |-> <<0, 0, 1, 0>>, many |-> <<0, 0, 2, 0>>])]

RuleSignals == DOMAIN RulePoints
LabelSignals == DOMAIN LegacyPoints \cup {"stage", "storageTier"}
Selected == {"tier", "class", "label"}
ClaimFields == RuleSignals \cup LabelSignals \cup Selected \cup {"spec", "hint", "reason"}
BlankClaim == [f \in ClaimFields |-> None]

\* The labels of a Pod, its annotation selected-tier, its controller; labels and annots tell
\* whether it has the map at all.
Labels == LabelSignals \cup {"label"}
Annotations == RuleSignals \cup {"tier", "class", "hint", "reason"}
PodFields == Labels \cup {"tier", "owner", "labels", "annots", "sidecars", "scheduler"}
BlankPod == [f \in PodFields |-> None]

\* A signal has a value that its table knows, or another; the annotations selected-tier and
\* selection-reason are nobody else's, on a Pod and on a claim; and a Pod that a controller
\* owns has labels.
HasValues(c) == /\ DOMAIN c = ClaimFields
                /\ \A s \in RuleSignals : c[s] \in DOMAIN RulePoints[s]
                /\ \A s \in DOMAIN LegacyPoints : c[s] \in DOMAIN LegacyPoints[s]
ASSUME WebhookAssumption ==
  /\ \A c \in UserClaims : HasValues(c) /\ c.reason = None
  /\ \A f \in ClaimFields : \A v \in OtherGives(f) :
       /\ f # "reason"
       /\ f \in RuleSignals => v \in DOMAIN RulePoints[f]
       /\ f \in DOMAIN LegacyPoints => v \in DOMAIN LegacyPoints[f]
  /\ \A p \in UserPods :
       /\ DOMAIN p = PodFields /\ p.label = None /\ p.tier = None
       /\ p.labels = None => \A f \in Labels \cup {"owner"} : p[f] = None

-----------------------------------------------------------------------------
(* The claim. *)

Or(v, w) == IF v = None THEN w ELSE v

\* existingFinalTierFromPVC: the first of the four that names a tier or a class.
NamedTier(raw) ==
  IF NormalTier(raw) # None THEN NormalTier(raw)
  ELSE IF raw \in FinalClass \cup LegacyClass THEN TierOfClass(raw) ELSE None
ExistingTier(c) ==
  Or(NamedTier(c.tier), Or(NamedTier(c.class), Or(NamedTier(c.label), NamedTier(c.spec))))

HardRule(c) ==
  IF NormalTier(c.hint) # None THEN NormalTier(c.hint)
  ELSE IF c.role = "archive" THEN "S3"
  ELSE IF c.role = "cache" /\ (c.access = "repeated" \/ c.latency = "ultralow") THEN "L1"
  ELSE None

\* A latency or a weight that is not understood is no input.
HasRuleInput(c) ==
  \E s \in RuleSignals : c[s] # None /\ (s \in {"latency", "weight"} => c[s] # "other")

Points(table, c, i) == MapThenSumSet(LAMBDA s : table[s][c[s]][i], DOMAIN table)

Highest(score, S) == {i \in S : \A j \in S : score[j] <= score[i]}
FirstOf(order, S) == order[Min({k \in DOMAIN order : order[k] \in S})]

\* Mutant: the faster tier first.
PickTierByScore_L1First(score) == TierOrder[FirstOf(<<1, 2, 3, 4>>, Highest(score, 1..4))]

\* A tie goes to L2, then L3, L1, S3.
PickTierByScore(score) == TierOrder[FirstOf(<<2, 3, 1, 4>>, Highest(score, 1..4))]

ScoreRule(c) == PickTierByScore([i \in 1..4 |-> Points(RulePoints, c, i)])

HasScoreSignals(c) == \E s \in LabelSignals : c[s] # None

\* selectStorageClass: its workload type is the type's or else the stage's; a tie goes to
\* that type's tier, then to S3, then to the first.
Stages == {"preprocess", "train", "inference"}
WorkloadType(c) ==
  IF c.type \in Stages THEN c.type ELSE IF c.stage \in Stages THEN c.stage ELSE "other"
LegacySelect(c) ==
  LET typed == [c EXCEPT !.type = WorkloadType(c)]
      explicit == NormalTier(c.storageTier)
      score == [i \in 1..4 |-> Points(LegacyPoints, typed, i)]
      top == Highest(score, {i \in 1..4 : explicit \in {None, TierOrder[i]}})
      wanted == [preprocess |-> <<1>>, train |-> <<2>>, inference |-> <<3>>, other |-> <<>>]
  IN  TierOrder[FirstOf(wanted[typed.type] \o <<4, 1, 2, 3>>, top)]

\* createPVCPatch: how the tier is come by, and the tier.
Selection(c) ==
  IF ExistingTier(c) # None THEN <<"existing", ExistingTier(c)>>
  ELSE IF HardRule(c) # None THEN <<"hard", HardRule(c)>>
  ELSE IF HasRuleInput(c) THEN <<"score", ScoreRule(c)>>
  ELSE IF HasScoreSignals(c) THEN <<"legacy", LegacySelect(c)>>
  ELSE <<"default", "L2">>

DefaultStage == [L1 |-> "preprocess", L2 |-> "train", L3 |-> "inference", S3 |-> "other"]
StageOr(stage, tier) == IF stage \in Stages THEN stage ELSE DefaultStage[tier]

\* A tier, or a class, that stands there already is kept, under its final name.
KeepTier(raw, tier) == IF NormalTier(raw) = None THEN Or(raw, tier) ELSE NormalTier(raw)
KeepClass(raw, class) == IF raw \in LegacyClass THEN ClassOf[TierOfClass(raw)] ELSE Or(raw, class)

\* The claim patched: its class unless it is one of the user's own, and buildPVCKetiMetadataPatches.
PatchedClaim(c) ==
  LET class == ClassOf[Selection(c)[2]]
      tier == TierOfClass(class)
  IN  [c EXCEPT
        !.spec = IF @ \in {None} \cup LegacyClass \cup Replaceable THEN class ELSE @,
        !.tier = KeepTier(@, tier), !.label = KeepTier(@, tier), !.hint = KeepTier(@, tier),
        !.class = KeepClass(@, class),
        !.reason = Selection(c)[1],
        !.stage = Or(@, DefaultStage[tier]),
        !.type = Or(@, StageOr(c.stage, tier)),
        !.latency = Or(@, "other")]

-----------------------------------------------------------------------------
(* The Pod. *)

\* selectTierFromMetadataMaps.
TierFromMetadata(m) ==
  IF NormalTier(m.storageTier) # None THEN NormalTier(m.storageTier)
  ELSE IF m.framework = "learning" /\ (m.stage = "train" \/ m.gpu = "some") THEN "L2"
  ELSE IF m.framework = "serving" THEN "L3"
  ELSE IF m.framework = "pipeline" THEN "L1"
  ELSE IF m.stage = "train" /\ m.gpu = "some" THEN "L2"
  ELSE IF m.stage = "preprocess" THEN "L1"
  ELSE IF m.stage = "inference" THEN "L3"
  ELSE "S3"

\* podMetadataEffectiveForTier: what the Pod lacks is the claim's; its kind, its owner's.
Effective(p, c) ==
  [f \in Labels \cup Annotations |->
     LET own == IF f \in PodFields THEN p[f] ELSE None
     IN  IF f = "kind" THEN Or(Or(own, c[f]), p.owner) ELSE Or(own, c[f])]

\* Mutant: a selected tier that stands there is kept, in the label only.
ForcedLabel_Kept(p, tier) == Or(p.label, tier)
\* buildKetiMetadataPatches: the selected tier is the webhook's to say.
ForcedLabel(p, tier) == tier

\* createPatch: buildKetiMetadataPatches and then metadataFillPatches, which adds the whole
\* map again if the Pod has none.
PatchedPod(p, c) ==
  LET m == Effective(p, c)
      tier == TierFromMetadata(m)
      own(f) == CASE f = "label" -> ForcedLabel(p, tier)
                  [] f = "stage" -> Or(p.stage, StageOr(p.stage, tier))
                  [] f = "type"  -> Or(p.type, StageOr(p.stage, tier))
                  [] OTHER -> p[f]
      Fills(F) == \E f \in F : m[f] # None
  IN  [f \in PodFields |->
         CASE f \in Labels ->
                IF p.labels = None /\ Fills(Labels) THEN m[f]
                ELSE IF p[f] = None /\ m[f] # None THEN m[f] ELSE own(f)
           [] f = "tier" ->
                IF p.annots = None /\ Fills(Annotations) THEN m.tier
                ELSE IF p.tier = None /\ m.tier # None THEN m.tier ELSE tier
           [] f \in {"labels", "annots"} -> "map"
           [] f = "sidecars" -> "one"
           [] f = "scheduler" -> "ai-storage-scheduler"
           [] OTHER -> p[f]]

-----------------------------------------------------------------------------
WebhookInit ==
  /\ claim = BlankClaim /\ claimPc = "none"
  /\ pod = BlankPod /\ podPc = "none"
  /\ preset = FALSE

CreateClaim ==
  /\ claimPc = "none"
  /\ claim' \in UserClaims
  /\ claimPc' = "new"
  /\ preset' = (\E f \in Selected : claim'[f] # None)
  /\ UNCHANGED <<pod, podPc>>

\* An admission's next step: another webhook may follow the first call only.
Called(pc) == IF pc = "new" THEN "seen" ELSE "stored"

AdmitClaim ==
  /\ claimPc \in {"new", "changed"}
  /\ claim' = PatchedClaim(claim)
  /\ claimPc' = Called(claimPc)
  /\ UNCHANGED <<pod, podPc, preset>>

\* The webhook does not answer, or the namespace is not enabled.
IgnoreClaim ==
  /\ claimPc \in {"new", "changed"}
  /\ claimPc' = Called(claimPc)
  /\ UNCHANGED <<claim, pod, podPc, preset>>

OtherWebhook(f, v) ==
  /\ claimPc = "seen"
  /\ claim[f] = None
  /\ claim' = [claim EXCEPT ![f] = v]
  /\ claimPc' = "changed"
  /\ preset' = (preset \/ f \in Selected)
  /\ UNCHANGED <<pod, podPc>>

StoreClaim ==
  /\ claimPc = "seen"
  /\ claimPc' = "stored"
  /\ UNCHANGED <<claim, pod, podPc, preset>>

CreatePod ==
  /\ podPc = "none"
  /\ pod' \in UserPods
  /\ podPc' = "new"
  /\ UNCHANGED <<claim, claimPc, preset>>

\* The claim is read; one that is not there yet, or cannot be read, counts for nothing.
AdmitPod ==
  /\ podPc \in {"new", "changed"}
  /\ \/ claimPc = "stored" /\ pod' = PatchedPod(pod, claim)
     \/ pod' = PatchedPod(pod, BlankClaim)
  /\ podPc' = Called(podPc)
  /\ UNCHANGED <<claim, claimPc, preset>>

IgnorePod ==
  /\ podPc \in {"new", "changed"}
  /\ podPc' = Called(podPc)
  /\ UNCHANGED <<claim, claimPc, pod, preset>>

\* Another webhook changes what is of no interest here (injects a sidecar, say).
OtherPodWebhook ==
  /\ podPc = "seen"
  /\ podPc' = "changed"
  /\ UNCHANGED <<claim, claimPc, pod, preset>>

StorePod ==
  /\ podPc = "seen"
  /\ podPc' = "stored"
  /\ UNCHANGED <<claim, claimPc, pod, preset>>

WebhookNext ==
  \/ CreateClaim
  \/ AdmitClaim
  \/ IgnoreClaim
  \/ \E f \in ClaimFields : \E v \in OtherGives(f) : OtherWebhook(f, v)
  \/ StoreClaim
  \/ CreatePod
  \/ AdmitPod
  \/ IgnorePod
  \/ OtherPodWebhook
  \/ StorePod

WebhookSpec == WebhookInit /\ [][WebhookNext]_webhookVars

-----------------------------------------------------------------------------
(* Properties. *)

\* What the webhook has written about a claim says one thing: the selected tier, its label,
\* the selected class and the class asked for, unless the user asked for one of his own
\* (mutate.go:689-796, 1229-1435), whatever another webhook adds between two calls.
ClaimTierAgrees ==
  (claim.reason # None /\ ~preset)
    => /\ claim.label = claim.tier
       /\ claim.class = ClassOf[claim.tier]
       /\ claim.spec \in FinalClass \cup LegacyClass \cup Replaceable => claim.spec = claim.class

\* The points are so weighed that priority and weight never decide against the role of the
\* data, and do not raise a claim to L1 by themselves (mutate.go:2295-2302, 2518).
MinorSignalsYield ==
  LET minor == {"priority", "weight"}
      IsRoleOnly == \A s \in RuleSignals \ (minor \cup {"role"}) : RulePoints[s][claim[s]] = Zero
      RoleTier == [cache |-> "L1", input |-> "L2", raw |-> "L3", archive |-> "S3"]
  IN  /\ ScoreRule(claim) = "L1"
           => \E s \in RuleSignals \ minor : RulePoints[s][claim[s]][1] > 0
      /\ (IsRoleOnly /\ claim.role \in DOMAIN RoleTier)
           => ScoreRule(claim) = RoleTier[claim.role]

\* The label and the annotation of a Pod's selected tier agree, although they are written in
\* two passes, of which the second adds what the claim has, and both again when the webhook
\* is called again (mutate.go:1061, 628).
PodTierAgrees ==
  (pod.label # None /\ pod.tier # None /\ ~preset) => pod.label = pod.tier
=============================================================================
