--------------------------- MODULE ControlProofs ---------------------------
(* Invariants of the control database under any caller, proved for every    *)
(* number of services, cases, plans and actors.                             *)
EXTENDS Control, TLAPS

(* An approved plan was approved by somebody else than its proposer.        *)
ApprovedByAnother ==
    \A p \in Plans : plans[p].status = "APPROVED" => plans[p].approver # plans[p].proposer

ControlInv ==
    ControlTypeOK /\ VersionPinsTarget /\ ApprovedByAnother /\ HeldPlanIsCurrent
    /\ ResolvedIsCovered

(* The target of a plan is a registered service.                            *)
LEMMA TargetIsService ==
    ASSUME NEW p \in Plans
    PROVE  CaseOf[p] \in Cases /\ Target(p) \in Services
  BY IdentifiersAssumption DEF Target

(* The tables start well typed and without plans, claims or resolved cases. *)
LEMMA InitControlInv == ControlInit => ControlInv
  <1> SUFFICES ASSUME ControlInit PROVE ControlInv
    OBVIOUS
  <1>1. ControlTypeOK
    BY DEF ControlInit, ControlTypeOK, Positive, CapabilityRecords, NoPermit
  <1>2. VersionPinsTarget /\ ApprovedByAnother /\ HeldPlanIsCurrent /\ ResolvedIsCovered
    BY DEF ControlInit, VersionPinsTarget, ApprovedByAnother, HeldPlanIsCurrent,
           ResolvedIsCovered, Exists, NoPlan
  <1> QED
    BY <1>1, <1>2 DEF ControlInv

(* Status, approver and generation are all that ever changes in a plan.     *)
LEMMA StatusUpdateTyped ==
    ASSUME ControlTypeOK, NEW p \in Plans, Exists(p), NEW st \in PlanStatuses
    PROVE  [plans EXCEPT ![p].status = st] \in [Plans -> PlanRecords \cup {NoPlan}]
  <1>1. plans \in [Plans -> PlanRecords \cup {NoPlan}]
    BY DEF ControlTypeOK
  <1>2. plans[p] \in PlanRecords
    BY <1>1 DEF Exists, NoPlan
  <1>3. [plans[p] EXCEPT !.status = st] \in PlanRecords
    BY <1>2 DEF PlanRecords
  <1> QED
    BY <1>1, <1>3

(* Approval keeps what the plan froze.                                      *)
LEMMA ApprovalTyped ==
    ASSUME ControlTypeOK, NEW p \in Plans, Exists(p), NEW a \in Actors
    PROVE  [plans EXCEPT ![p].status = "APPROVED", ![p].approver = a,
                         ![p].generation = generation]
             \in [Plans -> PlanRecords \cup {NoPlan}]
  <1>1. plans \in [Plans -> PlanRecords \cup {NoPlan}] /\ generation \in Nat
    BY DEF ControlTypeOK, Positive
  <1>2. plans[p] \in PlanRecords
    BY <1>1 DEF Exists, NoPlan
  <1>3. [plans[p] EXCEPT !.status = "APPROVED", !.approver = a,
                         !.generation = generation] \in PlanRecords
    BY <1>1, <1>2 DEF PlanRecords, PlanStatuses
  <1>4. [plans EXCEPT ![p].status = "APPROVED", ![p].approver = a,
                      ![p].generation = generation]
          = [plans EXCEPT ![p] = [plans[p] EXCEPT !.status = "APPROVED", !.approver = a,
                                                  !.generation = generation]]
    BY <1>1
  <1> QED
    BY <1>1, <1>3, <1>4

(* Each transaction preserves the types of the tables.                      *)
LEMMA TypesPreserved == ControlInv /\ ControlNext => ControlTypeOK'
  <1> SUFFICES ASSUME ControlTypeOK, HeldPlanIsCurrent, ControlNext
               PROVE  ControlTypeOK'
    BY DEF ControlInv
  <1> USE ControlAssumption, IdentifiersAssumption
  <1> USE DEF ControlTypeOK, Positive
  <1>1. ASSUME NEW s \in Services, NEW v \in 1 .. MaxVersion, NEW e \in BOOLEAN,
               RegisterService(s, v, e)
        PROVE  ControlTypeOK'
    BY <1>1 DEF RegisterService, PutService
  <1>2. ASSUME NEW s \in Services, NEW v \in 1 .. MaxVersion, NEW k \in Kinds,
               RegisterCapability(s, v, k)
        PROVE  ControlTypeOK'
    BY <1>2 DEF RegisterCapability, PutCapability, CapabilityRecords
  <1>3. ASSUME NEW s \in Services, NEW k \in CheckConfigs, SetCheck(s, k)
        PROVE  ControlTypeOK'
    <2>1. services' \in [Services -> [version : Positive, enabled : BOOLEAN]]
      <3>1. CASE checks[s] = None
        BY <1>3, <3>1 DEF SetCheck
      <3>2. CASE checks[s] # None
        <4>1. services[s].version + 1 \in Positive
          OBVIOUS
        <4>2. services' = [services EXCEPT ![s].version = services[s].version + 1]
          BY <1>3, <3>2 DEF SetCheck
        <4> QED
          BY <4>1, <4>2, ZenonT(30)
      <3> QED
        BY <3>1, <3>2
    <2>2. checks' \in [Services -> CheckConfigs \cup {None}]
      BY <1>3 DEF SetCheck
    <2> QED
      BY <1>3, <2>1, <2>2 DEF SetCheck
  <1>4. ASSUME NEW c \in Cases, AddFinding(c)
        PROVE  ControlTypeOK'
    BY <1>4 DEF AddFinding, CaseStatuses
  <1>5. ASSUME NEW p \in Plans, NEW a \in Actors, CreatePlan(p, a)
        PROVE  ControlTypeOK'
    <2> DEFINE c == CaseOf[p]
    <2>1. c \in Cases /\ Target(p) \in Services
      BY TargetIsService
    <2>2. EvidenceIds(c) \subseteq Nat \ {0}
      BY <2>1 DEF EvidenceIds
    <2>3. plans' \in [Plans -> PlanRecords \cup {NoPlan}]
      BY <1>5, <2>1, <2>2 DEF CreatePlan, DraftPlan, PlanRecords, PlanStatuses,
         CapabilityRecords
    <2>4. cases' \in [Cases -> [status : CaseStatuses \cup {"NONE"}, received : Nat]]
      <3>1. cases' = [cases EXCEPT ![c].status = "AWAITING_APPROVAL"]
        BY <1>5 DEF CreatePlan, DraftPlan
      <3> QED
        BY <2>1, <3>1, ZenonT(30) DEF CaseStatuses
    <2> QED
      BY <1>5, <2>3, <2>4 DEF CreatePlan, DraftPlan
  <1>6. ASSUME NEW p \in Plans, NEW a \in Actors, Approve(p, a)
        PROVE  ControlTypeOK'
    <2>1. plans' \in [Plans -> PlanRecords \cup {NoPlan}]
      BY <1>6, ApprovalTyped DEF Approve
    <2> QED
      BY <1>6, <2>1 DEF Approve
  <1>7. ASSUME NEW p \in Plans, Reject(p)
        PROVE  ControlTypeOK'
    <2>1. plans' \in [Plans -> PlanRecords \cup {NoPlan}]
      BY <1>7, StatusUpdateTyped DEF Reject, PutRejected, PlanStatuses, Exists
    <2> QED
      BY <1>7, <2>1 DEF Reject, PutRejected
  <1>8. ASSUME AdvanceGeneration \/ AcknowledgeRestore
        PROVE  ControlTypeOK'
    <2>1. generation' \in Positive
      <3>1. generation' \in {generation, generation + 1}
        BY <1>8 DEF AdvanceGeneration, AcknowledgeRestore
      <3> QED
        BY <3>1
    <2>3. quarantine' \in BOOLEAN
      BY <1>8 DEF AdvanceGeneration, AcknowledgeRestore
    <2>2. UNCHANGED <<services, capabilities, checks, cases, plans, claims, permits,
                      expired>>
      BY <1>8 DEF AdvanceGeneration, AcknowledgeRestore
    <2> QED
      BY <2>1, <2>2, <2>3
  <1>9. ASSUME NEW p \in Plans, ExpirePlan(p) \/ ExpirePermit(p)
        PROVE  ControlTypeOK'
    <2>1. permits' \in [Plans -> [life : {"NONE", "LIVE", "EXPIRED"}, generation : Nat]]
      <3>1. permits[p] \in [life : {"NONE", "LIVE", "EXPIRED"}, generation : Nat]
        OBVIOUS
      <3>2. PICK l \in {"NONE", "EXPIRED"} : permits' = [permits EXCEPT ![p].life = l]
        BY <1>9, <3>1 DEF ExpirePlan, ExpirePermit
      <3> QED
        BY <3>2
    <2>2. expired' \subseteq Plans
      BY <1>9 DEF ExpirePlan, ExpirePermit
    <2>3. UNCHANGED <<services, capabilities, checks, cases, plans, claims, generation,
                      quarantine>>
      BY <1>9 DEF ExpirePlan, ExpirePermit
    <2> QED
      BY <2>1, <2>2, <2>3
  <1>10. ASSUME NEW p \in Plans, IssuePermit(p)
         PROVE  ControlTypeOK'
    BY <1>10, TargetIsService DEF IssuePermit
  <1>11. ASSUME NEW p \in Plans, NEW r \in {"SUCCEEDED", "FAILED", "UNKNOWN"},
                ExecutionFinished(p, r)
         PROVE  ControlTypeOK'
    <2>1. plans' \in [Plans -> PlanRecords \cup {NoPlan}]
      <3>1. plans' = plans \/ plans' = [plans EXCEPT ![p].status = "EXECUTED"]
        BY <1>11 DEF ExecutionFinished, FinishedOn
      <3>2. Exists(p)
        BY <1>11 DEF ExecutionFinished, FinishedOn
      <3>3. [plans EXCEPT ![p].status = "EXECUTED"] \in [Plans -> PlanRecords \cup {NoPlan}]
        BY <3>2, StatusUpdateTyped DEF PlanStatuses
      <3>4. plans \in [Plans -> PlanRecords \cup {NoPlan}]
        OBVIOUS
      <3> QED
        BY <3>1, <3>3, <3>4, Zenon
    <2>2. claims' \in [Services -> Plans \cup {None}]
      BY <1>11, TargetIsService DEF ExecutionFinished, FinishedOn
    <2> QED
      BY <1>11, <2>1, <2>2 DEF ExecutionFinished, FinishedOn
  <1>12. ASSUME NEW p \in Plans, NEW st \in {"VERIFYING", "OPEN", "EXECUTING"},
                CaseStatus(CaseOf[p], st)
         PROVE  ControlTypeOK'
    BY <1>12, TargetIsService, ZenonT(30) DEF CaseStatus, CaseStatuses
  <1>13. ASSUME NEW p \in Plans, ResolveVerifiedOperation(p)
         PROVE  ControlTypeOK'
    BY <1>13, TargetIsService, SMTT(30) DEF ResolveVerifiedOperation, CaseStatuses
  <1>14. ASSUME NEW p \in Plans, ReleaseUnsent(p)
         PROVE  ControlTypeOK'
    <2>1. Exists(p)
      BY <1>14, TargetIsService DEF ReleaseUnsent, HeldPlanIsCurrent, Exists
    <2>2. plans' \in [Plans -> PlanRecords \cup {NoPlan}]
      BY <1>14, <2>1, StatusUpdateTyped DEF ReleaseUnsent, PlanStatuses
    <2>3. claims' \in [Services -> Plans \cup {None}]
      BY <1>14, TargetIsService DEF ReleaseUnsent
    <2> QED
      BY <1>14, <2>2, <2>3 DEF ReleaseUnsent
  <1> QED
    BY <1>1, <1>2, <1>3, <1>4, <1>5, <1>6, <1>7, <1>8, <1>9, <1>10, <1>11, <1>12,
       <1>13, <1>14 DEF ControlNext, Request, Clock, RuntimeCall

(* What a transaction can do to the plans.                                  *)
LEMMA PlansStep ==
    ASSUME ControlInv, ControlNext
    PROVE  \/ plans' = plans
           \/ \E q \in Plans, a \in Actors : CreatePlan(q, a) \/ Approve(q, a)
           \/ \E q \in Plans, st \in {"REJECTED", "EXECUTED"} :
                Exists(q) /\ plans' = [plans EXCEPT ![q].status = st]
  <1>1. ASSUME NEW p \in Plans, ReleaseUnsent(p)
        PROVE  Exists(p) /\ plans' = [plans EXCEPT ![p].status = "REJECTED"]
    BY <1>1, TargetIsService, IdentifiersAssumption
       DEF ReleaseUnsent, ControlInv, HeldPlanIsCurrent, Exists
  <1>2. ASSUME NEW p \in Plans, Reject(p)
        PROVE  Exists(p) /\ plans' = [plans EXCEPT ![p].status = "REJECTED"]
    BY <1>2 DEF Reject, PutRejected, Exists
  <1>3. ASSUME NEW p \in Plans, NEW r, ExecutionFinished(p, r)
        PROVE  \/ plans' = plans
               \/ Exists(p) /\ plans' = [plans EXCEPT ![p].status = "EXECUTED"]
    BY <1>3 DEF ExecutionFinished, FinishedOn
  <1>5. ASSUME Request PROVE
           \/ plans' = plans
           \/ \E q \in Plans, a \in Actors : CreatePlan(q, a) \/ Approve(q, a)
           \/ \E q \in Plans : Reject(q)
    BY <1>5 DEF Request, RegisterService, PutService, RegisterCapability, PutCapability,
       SetCheck, AddFinding, AdvanceGeneration, AcknowledgeRestore
  <1>6. ASSUME Clock PROVE plans' = plans
    BY <1>6 DEF Clock, ExpirePlan, ExpirePermit
  <1>7. ASSUME RuntimeCall PROVE
           \/ plans' = plans
           \/ \E q \in Plans, r \in {"SUCCEEDED", "FAILED", "UNKNOWN"} :
                ExecutionFinished(q, r)
           \/ \E q \in Plans : ReleaseUnsent(q)
    BY <1>7 DEF RuntimeCall, IssuePermit, CaseStatus, ResolveVerifiedOperation
  <1> QED
    BY <1>1, <1>2, <1>3, <1>5, <1>6, <1>7 DEF ControlNext

(* What the approver reviews is frozen: no transaction changes the target,  *)
(* operation, check, evidence or proposer of a plan, or makes it disappear. *)
LEMMA PlanBodyIsFrozen ==
    ASSUME ControlInv, ControlNext, NEW p \in Plans, Exists(p)
    PROVE  /\ Exists(p)'
           /\ plans'[p].target_version = plans[p].target_version
           /\ plans'[p].capability_version = plans[p].capability_version
           /\ plans'[p].kind = plans[p].kind
           /\ plans'[p].check = plans[p].check
           /\ plans'[p].evidence = plans[p].evidence
           /\ plans'[p].proposer = plans[p].proposer
  <1> DEFINE Frozen ==
           /\ plans'[p].target_version = plans[p].target_version
           /\ plans'[p].capability_version = plans[p].capability_version
           /\ plans'[p].kind = plans[p].kind
           /\ plans'[p].check = plans[p].check
           /\ plans'[p].evidence = plans[p].evidence
           /\ plans'[p].proposer = plans[p].proposer
           /\ plans'[p].status # "NONE"
  <1>1. plans \in [Plans -> PlanRecords \cup {NoPlan}] /\ plans[p] \in PlanRecords
    BY DEF ControlInv, ControlTypeOK, Exists, NoPlan
  <1>2. CASE plans' = plans
    BY <1>2 DEF Exists
  <1>3. ASSUME NEW q \in Plans, NEW a \in Actors, CreatePlan(q, a) PROVE Frozen
    <2>1. q # p
      BY <1>3 DEF CreatePlan, DraftPlan, Exists
    <2>2. plans'[p] = plans[p]
      BY <1>1, <1>3, <2>1 DEF CreatePlan, DraftPlan
    <2> QED
      BY <2>2 DEF Exists
  <1>4. ASSUME NEW q \in Plans, NEW a \in Actors, Approve(q, a) PROVE Frozen
    <2>1. plans' = [plans EXCEPT ![q].status = "APPROVED", ![q].approver = a,
                                 ![q].generation = generation]
      BY <1>4 DEF Approve
    <2> QED
      BY <1>1, <2>1 DEF PlanRecords, Exists
  <1>5. ASSUME NEW q \in Plans, NEW st \in {"REJECTED", "EXECUTED"},
               plans' = [plans EXCEPT ![q].status = st]
        PROVE  Frozen
    BY <1>1, <1>5 DEF PlanRecords, PlanStatuses, Exists
  <1> QED
    BY <1>2, <1>3, <1>4, <1>5, PlansStep DEF Exists

(* Only create_plan makes a plan, in the version registered at that moment. *)
LEMMA PlanIsCreated ==
    ASSUME ControlInv, ControlNext, NEW p \in Plans, ~Exists(p), Exists(p)'
    PROVE  \E a \in Actors : CreatePlan(p, a)
  <1>1. plans \in [Plans -> PlanRecords \cup {NoPlan}]
    BY DEF ControlInv, ControlTypeOK
  <1>2. ASSUME NEW q \in Plans, NEW a \in Actors, CreatePlan(q, a) PROVE q = p
    BY <1>1, <1>2 DEF CreatePlan, DraftPlan, Exists
  <1>3. ASSUME NEW q \in Plans, NEW a \in Actors, Approve(q, a) PROVE FALSE
    BY <1>1, <1>3 DEF Approve, Exists
  <1>4. ASSUME NEW q \in Plans, NEW st \in {"REJECTED", "EXECUTED"}, Exists(q),
               plans' = [plans EXCEPT ![q].status = st]
        PROVE  FALSE
    BY <1>1, <1>4 DEF Exists
  <1> QED
    BY <1>2, <1>3, <1>4, PlansStep DEF Exists

(* Registered content changes only together with its version, except that a *)
(* first check may appear.                                                  *)
LEMMA RegistryStep ==
    ASSUME ControlInv, ControlNext, NEW s \in Services
    PROVE  /\ \/ services'[s] = services[s] /\ checks'[s] \in {checks[s]}
              \/ services'[s] = services[s] /\ checks[s] = None
              \/ services'[s].version > services[s].version
           /\ \/ capabilities'[s] = capabilities[s]
              \/ capabilities'[s].version > capabilities[s].version
  <1> DEFINE ServiceStep ==
              \/ services'[s] = services[s] /\ checks'[s] \in {checks[s]}
              \/ services'[s] = services[s] /\ checks[s] = None
              \/ services'[s].version > services[s].version
  <1> DEFINE CapabilityStep ==
              \/ capabilities'[s] = capabilities[s]
              \/ capabilities'[s].version > capabilities[s].version
  <1>1. /\ services \in [Services -> [version : Positive, enabled : BOOLEAN]]
        /\ capabilities \in [Services -> CapabilityRecords]
        /\ checks \in [Services -> CheckConfigs \cup {None}]
    BY DEF ControlInv, ControlTypeOK
  <1>2. ASSUME NEW q \in Services, NEW v \in 1 .. MaxVersion, NEW e \in BOOLEAN,
               RegisterService(q, v, e)
        PROVE  ServiceStep /\ CapabilityStep
    BY <1>1, <1>2 DEF RegisterService, PutService, Positive
  <1>3. ASSUME NEW q \in Services, NEW v \in 1 .. MaxVersion, NEW k \in Kinds,
               RegisterCapability(q, v, k)
        PROVE  ServiceStep /\ CapabilityStep
    BY <1>1, <1>3 DEF RegisterCapability, PutCapability, CapabilityRecords, Positive
  <1>4. ASSUME NEW q \in Services, NEW k \in CheckConfigs, SetCheck(q, k)
        PROVE  ServiceStep /\ CapabilityStep
    <2>1. CASE checks[q] = None
      <3>1. services' = services /\ capabilities' = capabilities
        BY <1>4, <2>1 DEF SetCheck
      <3>2. checks' = [checks EXCEPT ![q] = k]
        BY <1>4 DEF SetCheck
      <3> QED
        BY <1>1, <2>1, <3>1, <3>2
    <2>2. CASE checks[q] # None
      <3>1. capabilities' = capabilities /\ checks' = [checks EXCEPT ![q] = k]
        BY <1>4 DEF SetCheck
      <3>2. services' = [services EXCEPT ![q].version = services[q].version + 1]
        BY <1>4, <2>2 DEF SetCheck
      <3> QED
        BY <1>1, <3>1, <3>2 DEF Positive
    <2> QED
      BY <2>1, <2>2
  <1>5. CASE UNCHANGED <<services, checks, capabilities>>
    BY <1>5
  <1>6. ASSUME Request PROVE
           \/ UNCHANGED <<services, checks, capabilities>>
           \/ \E q \in Services, v \in 1 .. MaxVersion, e \in BOOLEAN : RegisterService(q, v, e)
           \/ \E q \in Services, v \in 1 .. MaxVersion, k \in Kinds : RegisterCapability(q, v, k)
           \/ \E q \in Services, k \in CheckConfigs : SetCheck(q, k)
    BY <1>6 DEF Request, AddFinding, CreatePlan, DraftPlan, Approve, Reject,
       PutRejected, AdvanceGeneration, AcknowledgeRestore
  <1>7. ASSUME Clock \/ RuntimeCall PROVE UNCHANGED <<services, checks, capabilities>>
    BY <1>7 DEF Clock, ExpirePlan, ExpirePermit, RuntimeCall, IssuePermit, CaseStatus,
       ResolveVerifiedOperation, ReleaseUnsent, ExecutionFinished, FinishedOn
  <1> QED
    BY <1>2, <1>3, <1>4, <1>5, <1>6, <1>7 DEF ControlNext

(* No registration reuses a version, so a version keeps naming one content. *)
LEMMA VersionPinsTargetPreserved ==
    ASSUME ControlInv, ControlNext
    PROVE  VersionPinsTarget'
  <1> SUFFICES ASSUME NEW p \in Plans, Exists(p)'
               PROVE  LET s == Target(p)
                      IN  /\ plans'[p].target_version <= services'[s].version
                          /\ plans'[p].target_version = services'[s].version =>
                               services'[s].enabled /\ checks'[s] = plans'[p].check
                          /\ plans'[p].capability_version <= capabilities'[s].version
                          /\ plans'[p].capability_version = capabilities'[s].version =>
                               capabilities'[s].kind = plans'[p].kind
    BY DEF VersionPinsTarget
  <1> DEFINE s == Target(p)
  <1>1. s \in Services
    BY TargetIsService
  <1>2. /\ services \in [Services -> [version : Positive, enabled : BOOLEAN]]
        /\ capabilities \in [Services -> CapabilityRecords]
        /\ plans \in [Plans -> PlanRecords \cup {NoPlan}]
        /\ ControlTypeOK'
    BY TypesPreserved DEF ControlInv, ControlTypeOK
  <1>3. /\ services[s].version \in Positive /\ services'[s].version \in Positive
        /\ capabilities[s].version \in Positive /\ capabilities'[s].version \in Positive
    BY <1>1, <1>2 DEF ControlTypeOK, CapabilityRecords
  <1>4. CASE Exists(p)
    <2>1. plans[p] \in PlanRecords
      BY <1>2, <1>4 DEF Exists, NoPlan
    <2>2. /\ plans[p].target_version \in Positive /\ plans[p].capability_version \in Positive
          /\ plans[p].check # None
      BY <2>1, ControlAssumption DEF PlanRecords
    <2>3. /\ plans[p].target_version <= services[s].version
          /\ plans[p].target_version = services[s].version =>
               services[s].enabled /\ checks[s] = plans[p].check
          /\ plans[p].capability_version <= capabilities[s].version
          /\ plans[p].capability_version = capabilities[s].version =>
               capabilities[s].kind = plans[p].kind
      BY <1>4 DEF ControlInv, VersionPinsTarget
    <2>4. /\ plans'[p].target_version = plans[p].target_version
          /\ plans'[p].capability_version = plans[p].capability_version
          /\ plans'[p].kind = plans[p].kind
          /\ plans'[p].check = plans[p].check
      BY <1>4, PlanBodyIsFrozen
    <2>5. /\ \/ services'[s] = services[s] /\ checks'[s] = checks[s]
             \/ services'[s] = services[s] /\ checks[s] = None
             \/ services'[s].version > services[s].version
          /\ \/ capabilities'[s] = capabilities[s]
             \/ capabilities'[s].version > capabilities[s].version
      BY <1>1, RegistryStep
    <2>6. /\ plans[p].target_version <= services'[s].version
          /\ plans[p].target_version = services'[s].version =>
               services'[s].enabled /\ checks'[s] = plans[p].check
      BY <1>3, <2>2, <2>3, <2>5 DEF Positive
    <2>7. /\ plans[p].capability_version <= capabilities'[s].version
          /\ plans[p].capability_version = capabilities'[s].version =>
               capabilities'[s].kind = plans[p].kind
      BY <1>3, <2>2, <2>3, <2>5 DEF Positive
    <2> QED
      BY <2>4, <2>6, <2>7
  <1>5. CASE ~Exists(p)
    <2>1. PICK a \in Actors : CreatePlan(p, a)
      BY <1>5, PlanIsCreated
    <2>2. services' = services /\ capabilities' = capabilities /\ checks' = checks
      BY <2>1 DEF CreatePlan, DraftPlan
    <2>3. /\ plans'[p].target_version = services[s].version
          /\ plans'[p].capability_version = capabilities[s].version
          /\ plans'[p].kind = capabilities[s].kind
          /\ plans'[p].check = checks[s]
          /\ services[s].enabled
      BY <1>2, <2>1 DEF CreatePlan, DraftPlan
    <2> QED
      BY <1>3, <2>2, <2>3 DEF Positive
  <1> QED
    BY <1>4, <1>5

(* Only issue_permit gives a free service to a plan.                        *)
LEMMA ClaimsStep ==
    ASSUME ControlInv, ControlNext, NEW s \in Services, claims'[s] # None
    PROVE  claims'[s] = claims[s] \/ \E p \in Plans : IssuePermit(p)
  <1>1. claims \in [Services -> Plans \cup {None}]
    BY DEF ControlInv, ControlTypeOK
  <1>2. ASSUME NEW p \in Plans, NEW r, ExecutionFinished(p, r)
        PROVE  claims'[s] = claims[s]
    <2>1. \/ claims' = claims
          \/ claims' = [claims EXCEPT ![Target(p)] = IF @ = p THEN None ELSE @]
      BY <1>2 DEF ExecutionFinished, FinishedOn
    <2> QED
      BY <1>1, <2>1
  <1>3. ASSUME NEW p \in Plans, ReleaseUnsent(p) PROVE claims'[s] = claims[s]
    <2>1. claims' = [claims EXCEPT ![Target(p)] = None]
      BY <1>3 DEF ReleaseUnsent
    <2> QED
      BY <1>1, <2>1
  <1>4. ASSUME Request \/ Clock PROVE claims' = claims
    BY <1>4 DEF Request, RegisterService, PutService, RegisterCapability, PutCapability,
       SetCheck, AddFinding, CreatePlan, DraftPlan, Approve, Reject,
       PutRejected, AdvanceGeneration, AcknowledgeRestore, Clock, ExpirePlan, ExpirePermit
  <1>5. ASSUME RuntimeCall PROVE
           \/ claims' = claims
           \/ \E p \in Plans : IssuePermit(p)
           \/ \E p \in Plans, r \in {"SUCCEEDED", "FAILED", "UNKNOWN"} :
                ExecutionFinished(p, r)
           \/ \E p \in Plans : ReleaseUnsent(p)
    BY <1>5 DEF RuntimeCall, CaseStatus, ResolveVerifiedOperation
  <1> QED
    BY <1>2, <1>3, <1>4, <1>5 DEF ControlNext

(* While a service stays claimed, neither its registration nor the plan     *)
(* that holds it changes: every writer of those rows looks at the claim.    *)
LEMMA HeldIsFrozen ==
    ASSUME ControlInv, ControlNext, NEW s \in Services,
           claims[s] # None, claims'[s] = claims[s]
    PROVE  /\ services'[s] = services[s]
           /\ capabilities'[s] = capabilities[s]
           /\ plans'[claims[s]] = plans[claims[s]]
  <1> DEFINE h == claims[s]
  <1> DEFINE Frozen == /\ services'[s] = services[s]
                       /\ capabilities'[s] = capabilities[s]
                       /\ plans'[h] = plans[h]
  <1>1. /\ services \in [Services -> [version : Positive, enabled : BOOLEAN]]
        /\ capabilities \in [Services -> CapabilityRecords]
        /\ plans \in [Plans -> PlanRecords \cup {NoPlan}]
        /\ claims \in [Services -> Plans \cup {None}]
    BY DEF ControlInv, ControlTypeOK
  <1>2. h \in Plans /\ Target(h) = s /\ plans[h].status = "APPROVED"
    BY <1>1 DEF ControlInv, HeldPlanIsCurrent
  <1>3. ASSUME NEW q \in Services, NEW v \in 1 .. MaxVersion, NEW e \in BOOLEAN,
               RegisterService(q, v, e)
        PROVE  Frozen
    BY <1>1, <1>3 DEF RegisterService, PutService
  <1>4. ASSUME NEW q \in Services, NEW v \in 1 .. MaxVersion, NEW k \in Kinds,
               RegisterCapability(q, v, k)
        PROVE  Frozen
    BY <1>1, <1>4 DEF RegisterCapability, PutCapability
  <1>5. ASSUME NEW q \in Services, NEW k \in CheckConfigs, SetCheck(q, k)
        PROVE  Frozen
    <2>1. q # s /\ capabilities' = capabilities /\ plans' = plans
      BY <1>5 DEF SetCheck
    <2>2. services' = services \/ services' = [services EXCEPT ![q].version = @ + 1]
      BY <1>5 DEF SetCheck
    <2> QED
      BY <1>1, <2>1, <2>2
  <1>6. ASSUME NEW p \in Plans, NEW a \in Actors, CreatePlan(p, a) \/ Approve(p, a)
        PROVE  Frozen
    <2>1. p # h
      BY <1>2, <1>6 DEF CreatePlan, DraftPlan, Approve
    <2>2. services' = services /\ capabilities' = capabilities
      BY <1>6 DEF CreatePlan, DraftPlan, Approve
    <2>3. CASE CreatePlan(p, a)
      <3>1. plans'[h] = plans[h]
        BY <1>1, <1>2, <2>1, <2>3 DEF CreatePlan, DraftPlan
      <3> QED
        BY <2>2, <3>1
    <2>4. CASE Approve(p, a)
      <3>1. plans'[h] = plans[h]
        BY <1>1, <1>2, <2>1, <2>4 DEF Approve
      <3> QED
        BY <2>2, <3>1
    <2> QED
      BY <1>6, <2>3, <2>4
  <1>7. ASSUME NEW p \in Plans, Reject(p) PROVE Frozen
    BY <1>1, <1>2, <1>7 DEF Reject, PutRejected
  <1>8. ASSUME NEW p \in Plans, NEW r, ExecutionFinished(p, r) PROVE Frozen
    <2>1. services' = services /\ capabilities' = capabilities
      BY <1>8 DEF ExecutionFinished, FinishedOn
    <2>2. CASE plans' = plans
      BY <2>1, <2>2
    <2>3. CASE /\ claims' = [claims EXCEPT ![Target(p)] = IF @ = p THEN None ELSE @]
               /\ plans' = [plans EXCEPT ![p].status = "EXECUTED"]
      <3>1. p # h
        BY <1>1, <1>2, <2>3
      <3> QED
        BY <1>1, <1>2, <2>1, <2>3, <3>1
    <2> QED
      BY <1>8, <2>2, <2>3 DEF ExecutionFinished, FinishedOn
  <1>9. ASSUME NEW p \in Plans, ReleaseUnsent(p) PROVE Frozen
    <2>1. p # h
      BY <1>1, <1>2, <1>9 DEF ReleaseUnsent
    <2> QED
      BY <1>1, <1>2, <1>9, <2>1 DEF ReleaseUnsent
  <1>10. CASE UNCHANGED <<services, capabilities, plans>>
    BY <1>10
  <1>11. ASSUME Request PROVE
           \/ UNCHANGED <<services, capabilities, plans>>
           \/ \E q \in Services, v \in 1 .. MaxVersion, e \in BOOLEAN : RegisterService(q, v, e)
           \/ \E q \in Services, v \in 1 .. MaxVersion, k \in Kinds : RegisterCapability(q, v, k)
           \/ \E q \in Services, k \in CheckConfigs : SetCheck(q, k)
           \/ \E q \in Plans, a \in Actors : CreatePlan(q, a) \/ Approve(q, a)
           \/ \E q \in Plans : Reject(q)
    BY <1>11 DEF Request, AddFinding, AdvanceGeneration, AcknowledgeRestore
  <1>12. ASSUME RuntimeCall PROVE
           \/ UNCHANGED <<services, capabilities, plans>>
           \/ \E q \in Plans, r \in {"SUCCEEDED", "FAILED", "UNKNOWN"} :
                ExecutionFinished(q, r)
           \/ \E q \in Plans : ReleaseUnsent(q)
    BY <1>12 DEF RuntimeCall, IssuePermit, CaseStatus, ResolveVerifiedOperation
  <1>13. ASSUME Clock PROVE UNCHANGED <<services, capabilities, plans>>
    BY <1>13 DEF Clock, ExpirePlan, ExpirePermit
  <1> QED
    BY <1>3, <1>4, <1>5, <1>6, <1>7, <1>8, <1>9, <1>10, <1>11, <1>12, <1>13
       DEF ControlNext

(* Approval is by a second person, and no later transaction changes who     *)
(* proposed or who approved.                                                *)
LEMMA ApprovedByAnotherPreserved ==
    ASSUME ControlInv, ControlNext
    PROVE  ApprovedByAnother'
  <1> SUFFICES ASSUME NEW p \in Plans, plans'[p].status = "APPROVED"
               PROVE  plans'[p].approver # plans'[p].proposer
    BY DEF ApprovedByAnother
  <1>1. plans \in [Plans -> PlanRecords \cup {NoPlan}]
    BY DEF ControlInv, ControlTypeOK
  <1>2. plans[p].status = "APPROVED" => plans[p].approver # plans[p].proposer
    BY DEF ControlInv, ApprovedByAnother
  <1>3. ASSUME NEW q \in Plans, NEW a \in Actors, CreatePlan(q, a)
        PROVE  plans'[p] = plans[p]
    BY <1>1, <1>3 DEF CreatePlan, DraftPlan
  <1>4. ASSUME NEW q \in Plans, NEW a \in Actors, Approve(q, a)
        PROVE  plans'[p].approver # plans'[p].proposer
    <2>1. /\ plans' = [plans EXCEPT ![q].status = "APPROVED", ![q].approver = a,
                                   ![q].generation = generation]
          /\ plans[q].proposer # a /\ Exists(q)
      BY <1>4 DEF Approve
    <2>2. plans[q] \in PlanRecords
      BY <1>1, <2>1 DEF Exists, NoPlan
    <2>3. CASE q = p
      BY <1>1, <2>1, <2>2, <2>3 DEF PlanRecords
    <2>4. CASE q # p
      BY <1>1, <1>2, <2>1, <2>4
    <2> QED
      BY <2>3, <2>4
  <1>5. ASSUME NEW q \in Plans, Exists(q), NEW st \in {"REJECTED", "EXECUTED"},
               plans' = [plans EXCEPT ![q].status = st]
        PROVE  plans'[p] = plans[p]
    <2>1. plans[q] \in PlanRecords
      BY <1>1, <1>5 DEF Exists, NoPlan
    <2> QED
      BY <1>1, <1>5, <2>1 DEF PlanRecords
  <1> QED
    BY <1>2, <1>3, <1>4, <1>5, PlansStep

(* A case becomes resolved only by resolve_verified_operation, which leaves *)
(* its evidence alone; new evidence never leaves it resolved.               *)
LEMMA CasesStep ==
    ASSUME ControlInv, ControlNext, NEW c \in Cases, cases'[c].status = "RESOLVED"
    PROVE  /\ cases'[c].received = cases[c].received
           /\ \/ cases[c].status = "RESOLVED"
              \/ \E p \in Plans : CaseOf[p] = c /\ Exists(p) /\ Covers(p)
  <1> DEFINE Step ==
           /\ cases'[c].received = cases[c].received
           /\ \/ cases[c].status = "RESOLVED"
              \/ \E p \in Plans : CaseOf[p] = c /\ Exists(p) /\ Covers(p)
  <1>1. cases \in [Cases -> [status : CaseStatuses \cup {"NONE"}, received : Nat]]
    BY DEF ControlInv, ControlTypeOK
  <1>2. CASE cases' = cases
    BY <1>2
  <1>3. ASSUME NEW q \in Cases, AddFinding(q) PROVE Step
    <2>1. cases' = [cases EXCEPT ![q] =
                     [status |-> IF @.status \in {"NONE", "RESOLVED"} THEN "OPEN"
                                 ELSE @.status,
                      received |-> @.received + 1]]
      BY <1>3 DEF AddFinding
    <2>2. c # q
      BY <1>1, <2>1
    <2> QED
      BY <1>1, <2>1, <2>2
  <1>4. ASSUME NEW p \in Plans, NEW a \in Actors, CreatePlan(p, a) PROVE Step
    <2>1. cases' = [cases EXCEPT ![CaseOf[p]].status = "AWAITING_APPROVAL"]
      BY <1>4 DEF CreatePlan, DraftPlan
    <2> QED
      BY <1>1, <2>1
  <1>5. ASSUME NEW p \in Plans, NEW st \in {"VERIFYING", "OPEN", "EXECUTING"},
               CaseStatus(CaseOf[p], st)
        PROVE  Step
    <2>1. cases' = [cases EXCEPT ![CaseOf[p]].status = st]
      BY <1>5 DEF CaseStatus
    <2> QED
      BY <1>1, <2>1
  <1>6. ASSUME NEW p \in Plans, ResolveVerifiedOperation(p) PROVE Step
    <2>1. CASE cases' = cases
      BY <2>1
    <2>2. CASE Covers(p) /\ cases' = [cases EXCEPT ![CaseOf[p]].status = "RESOLVED"]
      BY <1>1, <1>6, <2>2 DEF ResolveVerifiedOperation
    <2> QED
      BY <1>6, <2>1, <2>2 DEF ResolveVerifiedOperation
  <1>7. ASSUME Request PROVE
           \/ cases' = cases
           \/ \E q \in Cases : AddFinding(q)
           \/ \E p \in Plans, a \in Actors : CreatePlan(p, a)
    BY <1>7 DEF Request, RegisterService, PutService, RegisterCapability, PutCapability,
       SetCheck, Approve, Reject, PutRejected, AdvanceGeneration, AcknowledgeRestore
  <1>8. ASSUME RuntimeCall PROVE
           \/ cases' = cases
           \/ \E p \in Plans, st \in {"VERIFYING", "OPEN", "EXECUTING"} :
                CaseStatus(CaseOf[p], st)
           \/ \E p \in Plans : ResolveVerifiedOperation(p)
    BY <1>8 DEF RuntimeCall, IssuePermit, ReleaseUnsent, ExecutionFinished, FinishedOn
  <1>9. ASSUME Clock PROVE cases' = cases
    BY <1>9 DEF Clock, ExpirePlan, ExpirePermit
  <1> QED
    BY <1>2, <1>3, <1>4, <1>5, <1>6, <1>7, <1>8, <1>9 DEF ControlNext

(* The plan that closed a case keeps covering its evidence.                 *)
LEMMA ResolvedIsCoveredPreserved ==
    ASSUME ControlInv, ControlNext
    PROVE  ResolvedIsCovered'
  <1> SUFFICES ASSUME NEW c \in Cases, cases'[c].status = "RESOLVED"
               PROVE  \E p \in Plans : CaseOf[p] = c /\ Exists(p)' /\ Covers(p)'
    BY DEF ResolvedIsCovered
  <1>1. PICK p \in Plans : CaseOf[p] = c /\ Exists(p) /\ Covers(p)
    BY CasesStep DEF ControlInv, ResolvedIsCovered
  <1>2. cases'[c].received = cases[c].received
    BY CasesStep
  <1>3. Exists(p)' /\ plans'[p].evidence = plans[p].evidence
    BY <1>1, PlanBodyIsFrozen
  <1>4. Covers(p)'
    BY <1>1, <1>2, <1>3 DEF Covers, EvidenceIds
  <1> QED
    BY <1>1, <1>3, <1>4

(* A claim is taken by an approved plan for the registered target, and then *)
(* HeldIsFrozen keeps it so.                                                *)
LEMMA HeldPlanIsCurrentPreserved ==
    ASSUME ControlInv, ControlNext
    PROVE  HeldPlanIsCurrent'
  <1> SUFFICES ASSUME NEW s \in Services, claims'[s] # None
               PROVE  /\ Target(claims'[s]) = s
                      /\ plans'[claims'[s]].status = "APPROVED"
                      /\ plans'[claims'[s]].approver # plans'[claims'[s]].proposer
                      /\ SameTarget(claims[s])'
    BY DEF HeldPlanIsCurrent
  <1>1. claims \in [Services -> Plans \cup {None}]
    BY DEF ControlInv, ControlTypeOK
  <1>2. CASE claims'[s] = claims[s]
    <2>1. /\ services'[s] = services[s]
          /\ capabilities'[s] = capabilities[s]
          /\ plans'[claims[s]] = plans[claims[s]]
      BY <1>2, HeldIsFrozen
    <2>2. /\ Target(claims[s]) = s
          /\ plans[claims[s]].status = "APPROVED"
          /\ plans[claims[s]].approver # plans[claims[s]].proposer
          /\ SameTarget(claims[s])
      BY <1>2 DEF ControlInv, HeldPlanIsCurrent
    <2>3. SameTarget(claims[s])'
      BY <1>2, <2>1, <2>2 DEF SameTarget
    <2> QED
      BY <1>2, <2>1, <2>2, <2>3
  <1>3. ASSUME claims'[s] # claims[s], NEW p \in Plans, IssuePermit(p)
        PROVE  /\ claims'[s] = p /\ Target(p) = s
               /\ plans'[p].status = "APPROVED"
               /\ plans'[p].approver # plans'[p].proposer
               /\ SameTarget(claims[s])'
    <2>1. claims' = [claims EXCEPT ![Target(p)] = p]
      BY <1>3 DEF IssuePermit
    <2>2. Target(p) = s /\ claims'[s] = p
      BY <1>1, <1>3, <2>1
    <2>3. services' = services /\ capabilities' = capabilities /\ plans' = plans
      BY <1>3 DEF IssuePermit
    <2>4. plans[p].status = "APPROVED" /\ SameTarget(p)
      BY <1>3 DEF IssuePermit, Permitted, Authorized, Current
    <2>5. plans[p].approver # plans[p].proposer
      BY <2>4 DEF ControlInv, ApprovedByAnother
    <2>6. SameTarget(claims[s])'
      BY <2>2, <2>3, <2>4 DEF SameTarget
    <2> QED
      BY <2>2, <2>3, <2>4, <2>5, <2>6
  <1> QED
    BY <1>2, <1>3, ClaimsStep

(* Each transaction preserves the invariant.                                *)
LEMMA ControlInvPreserved == ControlInv /\ [ControlNext]_controlVars => ControlInv'
  <1> SUFFICES ASSUME ControlInv, [ControlNext]_controlVars PROVE ControlInv'
    OBVIOUS
  <1>1. CASE ControlNext
    BY <1>1, TypesPreserved, VersionPinsTargetPreserved, ApprovedByAnotherPreserved,
       HeldPlanIsCurrentPreserved, ResolvedIsCoveredPreserved DEF ControlInv
  <1>2. CASE UNCHANGED controlVars
    <2>1. ControlTypeOK'
      BY <1>2 DEF ControlInv, ControlTypeOK, controlVars
    <2>2. VersionPinsTarget'
      BY <1>2 DEF ControlInv, VersionPinsTarget, Exists, controlVars
    <2>3. ApprovedByAnother'
      BY <1>2 DEF ControlInv, ApprovedByAnother, controlVars
    <2>4. HeldPlanIsCurrent'
      BY <1>2 DEF ControlInv, HeldPlanIsCurrent, SameTarget, controlVars
    <2>5. ResolvedIsCovered'
      BY <1>2 DEF ControlInv, ResolvedIsCovered, Exists, Covers, EvidenceIds, controlVars
    <2> QED
      BY <2>1, <2>2, <2>3, <2>4, <2>5 DEF ControlInv
  <1> QED
    BY <1>1, <1>2
-----------------------------------------------------------------------------
(* The invariant holds of the control database in any order of its          *)
(* transactions.                                                            *)
THEOREM ControlInvariant == ControlSpec => []ControlInv
  <1>1. ControlInit => ControlInv
    BY InitControlInv
  <1>2. ControlInv /\ [ControlNext]_controlVars => ControlInv'
    BY ControlInvPreserved
  <1> QED
    BY <1>1, <1>2, PTL DEF ControlSpec

(* The tables stay well typed: in particular no plan is ever written        *)
(* without a registered check (create_plan refuses it).                     *)
THEOREM ControlTypes == ControlSpec => []ControlTypeOK
  <1>1. ControlInv => ControlTypeOK
    BY DEF ControlInv
  <1> QED
    BY <1>1, ControlInvariant, PTL

(* A version number names one content of a service, its check and its       *)
(* operation for as long as any plan refers to it.                          *)
THEOREM VersionsPinTargets == ControlSpec => []VersionPinsTarget
  <1>1. ControlInv => VersionPinsTarget
    BY DEF ControlInv
  <1> QED
    BY <1>1, ControlInvariant, PTL

(* A service is reserved only for an approved plan whose target is still    *)
(* the one that was approved, however registrations, approvals, rejections, *)
(* revocations and expiries interleave with permits and releases.           *)
THEOREM HeldPlansAreCurrent == ControlSpec => []HeldPlanIsCurrent
  <1>1. ControlInv => HeldPlanIsCurrent
    BY DEF ControlInv
  <1> QED
    BY <1>1, ControlInvariant, PTL

(* No case is resolved while it lists evidence that the plan which closed   *)
(* it did not contain.                                                      *)
THEOREM ResolvedCasesAreCovered == ControlSpec => []ResolvedIsCovered
  <1>1. ControlInv => ResolvedIsCovered
    BY DEF ControlInv
  <1> QED
    BY <1>1, ControlInvariant, PTL
=============================================================================
