------------------------------ MODULE Control ------------------------------
(***************************************************************************)
(* The control database (src/opsyne/control/repository.py): services,      *)
(* capabilities, checks, cases, operation plans, approvals, permits and    *)
(* the claims that reserve a service for one plan.  Every method runs in   *)
(* one BEGIN IMMEDIATE transaction, so every method is one action.         *)
(*                                                                         *)
(* A table row that does not exist yet has status "NONE".  A plan body is  *)
(* immutable apart from its status, approver and generation, so its digest *)
(* stands for the other fields and always matches.                         *)
(***************************************************************************)
EXTENDS Integers, Identifiers

CONSTANTS
    CheckConfigs,       \* contents of an independent check
    OperationFailures,  \* the cases of kind operation_failure
    EvidenceLimit,      \* evidence rows a case body lists (100 in the code)
    MaxVersion, MaxGeneration, MaxEvidence      \* bounds of the counters

VARIABLES
    services,       \* service id -> [version, enabled]
    capabilities,   \* service id -> its registered operation [version, kind]
    checks,         \* service id -> check content, None before registration
    cases,          \* case id -> [status, received]
    plans,          \* plan id -> stored plan body
    claims,         \* service id -> plan that holds it, or None
    permits,        \* plan id -> [life, generation] of its execution permit
    expired,        \* plans past expires_at
    generation,     \* metadata row "generation"
    quarantine      \* metadata row "restore_quarantine"

controlVars == <<services, capabilities, checks, cases, plans, claims, permits,
                 expired, generation, quarantine>>

CaseStatuses == {"OPEN", "AWAITING_APPROVAL", "EXECUTING", "VERIFYING", "RESOLVED"}
PlanStatuses == {"DRAFT", "APPROVED", "REJECTED", "EXECUTED"}

ASSUME ControlAssumption ==
    /\ OperationFailures \subseteq Cases
    /\ EvidenceLimit \in Nat \ {0}
    /\ MaxVersion \in Nat /\ MaxGeneration \in Nat /\ MaxEvidence \in Nat
    /\ None \notin CheckConfigs

Positive == Nat \ {0}

\* The newest evidence of a case: arrivals are numbered, the body keeps the last few.
EvidenceIds(c) ==
    {i \in 1 .. cases[c].received : i > cases[c].received - EvidenceLimit}

CapabilityRecords == [version : Positive, kind : Kinds]
NoPlan == [status |-> "NONE"]
NoPermit == [life |-> "NONE", generation |-> 0]
PlanRecords ==
    [status : PlanStatuses, target_version : Positive, capability_version : Positive,
     kind : Kinds, check : CheckConfigs, evidence : SUBSET Positive,
     proposer : Actors, approver : Actors \cup {None}, generation : Nat]

Exists(p) == plans[p].status # "NONE"

ControlInit ==
    /\ services = [s \in Services |-> [version |-> 1, enabled |-> TRUE]]
    /\ capabilities \in [Services -> [version : {1}, kind : Kinds]]
    /\ checks = [s \in Services |-> None]
    /\ cases = [c \in Cases |-> [status |-> "NONE", received |-> 0]]
    /\ plans = [p \in Plans |-> NoPlan]
    /\ claims = [s \in Services |-> None]
    /\ permits = [p \in Plans |-> NoPermit]
    /\ expired = {}
    /\ generation = 1
    /\ quarantine \in BOOLEAN
-----------------------------------------------------------------------------
(* Registrations: refused while an operation on the service is unresolved. *)

\* Without the claim check this is also the faulty variant of a mutation run.
PutService(s, v, e) ==
    /\ v > services[s].version /\ v <= MaxVersion
    /\ services' = [services EXCEPT ![s] = [version |-> v, enabled |-> e]]
    /\ UNCHANGED <<capabilities, checks, cases, plans, claims, permits, expired,
                   generation, quarantine>>

RegisterService(s, v, e) == claims[s] = None /\ PutService(s, v, e)

PutCapability(s, v, k) ==
    /\ v > capabilities[s].version /\ v <= MaxVersion
    /\ capabilities' = [capabilities EXCEPT ![s] = [version |-> v, kind |-> k]]
    /\ UNCHANGED <<services, checks, cases, plans, claims, permits, expired,
                   generation, quarantine>>

RegisterCapability(s, v, k) == claims[s] = None /\ PutCapability(s, v, k)

SetCheckSameVersion(s, k) ==    \* faulty: replaces a check under the old version
    /\ claims[s] = None
    /\ checks[s] # k
    /\ checks' = [checks EXCEPT ![s] = k]
    /\ UNCHANGED <<services, capabilities, cases, plans, claims, permits, expired,
                   generation, quarantine>>

\* Replacing a check that differs also raises the version of the service.
SetCheck(s, k) ==
    /\ claims[s] = None
    /\ checks[s] # k
    /\ checks[s] # None => services[s].version < MaxVersion
    /\ services' = IF checks[s] = None THEN services
                   ELSE [services EXCEPT ![s].version = @ + 1]
    /\ checks' = [checks EXCEPT ![s] = k]
    /\ UNCHANGED <<capabilities, cases, plans, claims, permits, expired,
                   generation, quarantine>>
-----------------------------------------------------------------------------
(* Cases. *)

\* A finding with evidence the case did not have; a repeated one changes nothing.
AddFinding(c) ==
    /\ cases[c].received < MaxEvidence
    /\ cases' = [cases EXCEPT ![c] =
                   [status |-> IF @.status \in {"NONE", "RESOLVED"} THEN "OPEN" ELSE @.status,
                    received |-> @.received + 1]]
    /\ UNCHANGED <<services, capabilities, checks, plans, claims, permits, expired,
                   generation, quarantine>>

CaseStatus(c, status) ==
    /\ cases[c].status # "NONE"
    /\ cases' = [cases EXCEPT ![c].status = status]
    /\ UNCHANGED <<services, capabilities, checks, plans, claims, permits, expired,
                   generation, quarantine>>

Covers(p) ==
    /\ CaseOf[p] \in OperationFailures
    /\ EvidenceIds(CaseOf[p]) \subseteq plans[p].evidence

ResolveVerifiedOperation(p) ==
    /\ Exists(p)
    /\ cases' = IF Covers(p) THEN [cases EXCEPT ![CaseOf[p]].status = "RESOLVED"]
                ELSE cases
    /\ UNCHANGED <<services, capabilities, checks, plans, claims, permits, expired,
                   generation, quarantine>>
-----------------------------------------------------------------------------
(* Plans, approvals, permits and claims. *)

\* A plan freezes what is registered and observed when it is written.
DraftPlan(p, a) ==
    LET c == CaseOf[p]
        s == Target(p)
    IN  /\ plans[p].status = "NONE"
        /\ Role[a] \in {"admin", "operator"}
        /\ services[s].enabled
        /\ EvidenceIds(c) # {}
        /\ cases[c].status \notin {"NONE", "RESOLVED"}
        /\ plans' = [plans EXCEPT ![p] =
             [status |-> "DRAFT", target_version |-> services[s].version,
              capability_version |-> capabilities[s].version,
              kind |-> capabilities[s].kind, check |-> checks[s],
              evidence |-> EvidenceIds(c), proposer |-> a, approver |-> None,
              generation |-> 0]]
        /\ cases' = [cases EXCEPT ![c].status = "AWAITING_APPROVAL"]
        /\ UNCHANGED <<services, capabilities, checks, claims, permits, expired,
                       generation, quarantine>>

CreatePlan(p, a) == checks[Target(p)] # None /\ DraftPlan(p, a)

\* The target registered now is the one the plan was written for.
SameTarget(p) ==
    LET s == Target(p)
    IN  /\ services[s].enabled
        /\ services[s].version = plans[p].target_version
        /\ capabilities[s].version = plans[p].capability_version

Current(p) ==
    /\ cases[CaseOf[p]].status # "RESOLVED"
    /\ SameTarget(p)
    /\ p \notin expired

Approve(p, a) ==
    /\ Role[a] \in {"admin", "approver"}
    /\ Exists(p)
    /\ Current(p)
    /\ plans[p].proposer # a
    /\ plans[p].status = "DRAFT"
    /\ plans' = [plans EXCEPT ![p].status = "APPROVED", ![p].approver = a,
                              ![p].generation = generation]
    /\ UNCHANGED <<services, capabilities, checks, cases, claims, permits, expired,
                   generation, quarantine>>

PutRejected(p) ==
    /\ plans[p].status \in {"DRAFT", "APPROVED"}
    /\ plans' = [plans EXCEPT ![p].status = "REJECTED"]
    /\ UNCHANGED <<services, capabilities, checks, cases, claims, permits, expired,
                   generation, quarantine>>

Reject(p) == claims[Target(p)] # p /\ PutRejected(p)

Authorized(p) == plans[p].status = "APPROVED" /\ plans[p].generation = generation

Permitted(p) == ~quarantine /\ Exists(p) /\ Current(p) /\ Authorized(p)

\* The claim row is keyed by service: the insert fails while another plan holds it.
IssuePermit(p) ==
    /\ Permitted(p)
    /\ claims[Target(p)] = None
    /\ claims' = [claims EXCEPT ![Target(p)] = p]
    /\ permits' = [permits EXCEPT ![p] = [life |-> "LIVE", generation |-> generation]]
    /\ UNCHANGED <<services, capabilities, checks, cases, plans, expired,
                   generation, quarantine>>

\* verify_permit accepts.
PermitHolds(p) ==
    /\ Exists(p)
    /\ Current(p)
    /\ permits[p] = [life |-> "LIVE", generation |-> generation]
    /\ plans[p].status = "APPROVED"
    /\ claims[Target(p)] = p

FinishedOn(p, status, definite) ==
    /\ Exists(p)
    /\ IF status \in definite
       THEN /\ claims' = [claims EXCEPT ![Target(p)] = IF @ = p THEN None ELSE @]
            /\ plans' = [plans EXCEPT ![p].status = "EXECUTED"]
       ELSE UNCHANGED <<claims, plans>>
    /\ UNCHANGED <<services, capabilities, checks, cases, permits, expired,
                   generation, quarantine>>

FinishedAnyway(p, status) ==    \* faulty: gives the service back on UNKNOWN too
    FinishedOn(p, status, {"SUCCEEDED", "FAILED", "UNKNOWN"})

\* Only a definite outcome ends the reservation.
ExecutionFinished(p, status) == FinishedOn(p, status, {"SUCCEEDED", "FAILED"})

ReleaseUnsent(p) ==
    /\ claims[Target(p)] = p
    /\ plans' = [plans EXCEPT ![p].status = "REJECTED"]
    /\ claims' = [claims EXCEPT ![Target(p)] = None]
    /\ UNCHANGED <<services, capabilities, checks, cases, permits, expired,
                   generation, quarantine>>
-----------------------------------------------------------------------------
(* Global switches and the clock. *)

AdvanceGeneration ==
    /\ generation < MaxGeneration
    /\ generation' = generation + 1
    /\ UNCHANGED <<services, capabilities, checks, cases, plans, claims, permits,
                   expired, quarantine>>

AcknowledgeRestore ==
    /\ quarantine
    /\ quarantine' = FALSE
    /\ UNCHANGED <<services, capabilities, checks, cases, plans, claims, permits,
                   expired, generation>>

\* now reaches expires_at; a permit never outlives its plan.
ExpirePlan(p) ==
    /\ Exists(p) /\ p \notin expired
    /\ expired' = expired \cup {p}
    /\ permits' = [permits EXCEPT ![p].life = IF @ = "LIVE" THEN "EXPIRED" ELSE @]
    /\ UNCHANGED <<services, capabilities, checks, cases, plans, claims,
                   generation, quarantine>>

ExpirePermit(p) ==
    /\ permits[p].life = "LIVE"
    /\ permits' = [permits EXCEPT ![p].life = "EXPIRED"]
    /\ UNCHANGED <<services, capabilities, checks, cases, plans, claims, expired,
                   generation, quarantine>>
-----------------------------------------------------------------------------
\* Requests of the dashboard and of the collector: one transaction each.
Request ==
    \/ \E s \in Services, v \in 1 .. MaxVersion, e \in BOOLEAN : RegisterService(s, v, e)
    \/ \E s \in Services, v \in 1 .. MaxVersion, k \in Kinds : RegisterCapability(s, v, k)
    \/ \E s \in Services, k \in CheckConfigs : SetCheck(s, k)
    \/ \E c \in Cases : AddFinding(c)
    \/ \E p \in Plans, a \in Actors : CreatePlan(p, a) \/ Approve(p, a)
    \/ \E p \in Plans : Reject(p)
    \/ AdvanceGeneration
    \/ AcknowledgeRestore

Clock == \E p \in Plans : ExpirePlan(p) \/ ExpirePermit(p)

\* Calls made by the runtime on behalf of an execution, here in any order.
RuntimeCall ==
    \E p \in Plans :
        \/ IssuePermit(p)
        \/ \E r \in {"SUCCEEDED", "FAILED", "UNKNOWN"} : ExecutionFinished(p, r)
        \/ \E st \in {"VERIFYING", "OPEN", "EXECUTING"} : CaseStatus(CaseOf[p], st)
        \/ ResolveVerifiedOperation(p)
        \/ ReleaseUnsent(p)

ControlNext == Request \/ Clock \/ RuntimeCall

ControlSpec == ControlInit /\ [][ControlNext]_controlVars
-----------------------------------------------------------------------------
(* Types of the tables; every plan that exists has a registered check. *)
ControlTypeOK ==
    /\ services \in [Services -> [version : Positive, enabled : BOOLEAN]]
    /\ capabilities \in [Services -> CapabilityRecords]
    /\ checks \in [Services -> CheckConfigs \cup {None}]
    /\ cases \in [Cases -> [status : CaseStatuses \cup {"NONE"}, received : Nat]]
    /\ plans \in [Plans -> PlanRecords \cup {NoPlan}]
    /\ claims \in [Services -> Plans \cup {None}]
    /\ permits \in [Plans -> [life : {"NONE", "LIVE", "EXPIRED"}, generation : Nat]]
    /\ expired \subseteq Plans
    /\ generation \in Positive
    /\ quarantine \in BOOLEAN

(* A version number stands for content: a plan whose version is the         *)
(* registered one names the check that is registered now and a service that *)
(* is enabled, and likewise for its operation.  set_check must bump the     *)
(* version and no registration may reuse one.                               *)
VersionPinsTarget ==
    \A p \in Plans : Exists(p) =>
        LET s == Target(p)
        IN  /\ plans[p].target_version <= services[s].version
            /\ plans[p].target_version = services[s].version =>
                 services[s].enabled /\ checks[s] = plans[p].check
            /\ plans[p].capability_version <= capabilities[s].version
            /\ plans[p].capability_version = capabilities[s].version =>
                 capabilities[s].kind = plans[p].kind

(* From permit to outcome the reserved service stays what the approver      *)
(* reviewed: the claim belongs to an approved plan of that service whose    *)
(* target and operation are the registered ones (claims block every change) *)
HeldPlanIsCurrent ==
    \A s \in Services : claims[s] # None =>
        /\ Target(claims[s]) = s
        /\ plans[claims[s]].status = "APPROVED"
        /\ plans[claims[s]].approver # plans[claims[s]].proposer
        /\ SameTarget(claims[s])

(* A case is closed only by a plan that was written with all the evidence   *)
(* the case lists now: evidence that arrives later reopens it, and cases of *)
(* another kind are never closed by an operation.                           *)
ResolvedIsCovered ==
    \A c \in Cases : cases[c].status = "RESOLVED" =>
        \E p \in Plans : CaseOf[p] = c /\ Exists(p) /\ Covers(p)
=============================================================================
