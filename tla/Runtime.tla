------------------------------ MODULE Runtime ------------------------------
(***************************************************************************)
(* src/opsyne/runtime.py: executing, reconciling, verifying and releasing  *)
(* operation plans.  Request threads run these under the execution lock,   *)
(* one database transaction or external call per step; requests that take  *)
(* no lock interleave between the steps.  The process can crash between    *)
(* any two steps and keeps only what the databases hold.                   *)
(***************************************************************************)
EXTENDS Control, Runner, OperatedTarget

CONSTANTS
    Threads,        \* request threads of the API server
    MaxFaults       \* bound on crashes and failed database accesses

VARIABLES
    up,             \* the process runs
    lock,           \* holder of _execution_lock, or None
    call,           \* what each thread is doing, with its local variables
    verification,   \* plan id -> last stored independent check of its execution, with
                    \* the outcome the ledger had then (history, no guard reads it)
    faults          \* faults so far

localVars == <<up, lock, call, verification, faults>>
vars == <<controlVars, ledger, targetVars, localVars>>

ASSUME RuntimeAssumption == MaxFaults \in Nat /\ None \notin Threads

CheckResults == {"PASS", "FAIL", "UNKNOWN"}

\* Program points of execute, reconcile, verify and release_unsent.
Points == {"prepare", "issue", "record", "dispatch", "authorize", "recheck",
           "reauthorize", "send", "store", "deny", "handle", "finish", "status",
           "settle", "lookup", "reconciled", "observe", "resolve", "release"}

NoCheck == [result |-> "NONE", outcome |-> "NONE"]
Checks == [result : CheckResults, outcome : LedgerStatuses]

NoCapability == [version |-> 0, kind |-> "NONE"]
Idle == [at |-> "idle", plan |-> None, capability |-> NoCapability, result |-> "NONE"]
Calls == [at : Points, plan : Plans, capability : CapabilityRecords \cup {NoCapability},
          result : Results \cup {"NONE"}]

RuntimeInit ==
    /\ ControlInit /\ RunnerInit /\ TargetInit
    /\ up = TRUE
    /\ lock = None
    /\ call = [t \in Threads |-> Idle]
    /\ verification = [p \in Plans |-> NoCheck]
    /\ faults = 0

EnterUnlocked(t, p, point) ==   \* faulty: does not wait for the lock
    /\ up
    /\ lock' = t
    /\ call' = [call EXCEPT ![t] = [Idle EXCEPT !.at = point, !.plan = p]]
    /\ UNCHANGED <<up, verification, faults>>

Enter(t, p, point) ==
    /\ up
    /\ lock = None
    /\ lock' = t
    /\ call' = [call EXCEPT ![t] = [Idle EXCEPT !.at = point, !.plan = p]]
    /\ UNCHANGED <<up, verification, faults>>

At(t, point) == call[t].at = point

Goto(t, point) ==
    /\ call' = [call EXCEPT ![t].at = point]
    /\ UNCHANGED <<up, lock, verification, faults>>

\* Return a value or raise: either way the lock is released.
Return(t) ==
    /\ lock' = None
    /\ call' = [call EXCEPT ![t] = Idle]
    /\ UNCHANGED <<up, verification, faults>>

OnlyLocal == UNCHANGED <<controlVars, ledger, targetVars>>
-----------------------------------------------------------------------------
(* execute *)

ExecuteOnlyFresh(t, p) ==   \* faulty: a recorded plan is returned unsettled
    /\ Exists(p) /\ ~Recorded(p)
    /\ Enter(t, p, "prepare")
    /\ OnlyLocal

\* A plan that already has a ledger row is settled again, never executed again.
Execute(t, p) ==
    /\ Exists(p)
    /\ Enter(t, p, IF Recorded(p) THEN "settle" ELSE "prepare")
    /\ OnlyLocal

Settle(t) ==
    LET p == call[t].plan
    IN  /\ At(t, "settle")
        /\ ExecutionFinished(p, ledger[p])
        /\ Return(t)
        /\ UNCHANGED <<ledger, targetVars>>

\* Read plan and capability; go on only if the independent check says FAIL.
Prepare(t) ==
    /\ At(t, "prepare")
    /\ \/ /\ call' = [call EXCEPT ![t].at = "issue",
               ![t].capability = capabilities[Target(call[t].plan)]]
          /\ UNCHANGED <<up, lock, verification, faults>>
       \/ Return(t)
    /\ OnlyLocal

Issue(t) ==
    /\ At(t, "issue")
    /\ \/ IssuePermit(call[t].plan) /\ Goto(t, "record")
       \/ /\ ~ (Permitted(call[t].plan) /\ claims[Target(call[t].plan)] = None)
          /\ Return(t) /\ UNCHANGED controlVars
    /\ UNCHANGED <<ledger, targetVars>>

\* Runner._validate: the copies of plan, permit and capability the thread holds.
Valid(t) ==
    LET p == call[t].plan
    IN  /\ permits[p].life = "LIVE"
        /\ call[t].capability.version = plans[p].capability_version

RecordStep(t) ==
    /\ At(t, "record")
    /\ \/ Valid(t) /\ RecordIntent(call[t].plan) /\ Goto(t, "dispatch")
       \/ ~Valid(t) /\ Goto(t, "handle") /\ UNCHANGED ledger
    /\ UNCHANGED <<controlVars, targetVars>>

Dispatch(t) ==
    /\ At(t, "dispatch")
    /\ Store(call[t].plan, "IN_FLIGHT")
    /\ Goto(t, "authorize")
    /\ UNCHANGED <<controlVars, targetVars>>

\* verify_permit before and after the last look at the target.
Authorize(t) ==
    /\ At(t, "authorize")
    /\ Goto(t, IF Valid(t) /\ PermitHolds(call[t].plan) THEN "recheck" ELSE "deny")
    /\ OnlyLocal

Recheck(t) ==
    /\ At(t, "recheck")
    /\ \E r \in CheckResults : Goto(t, IF r = "FAIL" THEN "reauthorize" ELSE "deny")
    /\ OnlyLocal

ReauthorizeBlindly(t) ==    \* faulty: no second look at the permit
    /\ At(t, "reauthorize")
    /\ Goto(t, "send")
    /\ OnlyLocal

Reauthorize(t) ==
    /\ At(t, "reauthorize")
    /\ Goto(t, IF PermitHolds(call[t].plan) THEN "send" ELSE "deny")
    /\ OnlyLocal

Deny(t) ==
    /\ At(t, "deny")
    /\ Store(call[t].plan, "FAILED")
    /\ Goto(t, "handle")
    /\ UNCHANGED <<controlVars, targetVars>>

\* The connector is chosen by the capability read in Prepare.
Send(t) ==
    LET p == call[t].plan
    IN  /\ At(t, "send")
        /\ \E r \in Results :
             /\ IF call[t].capability.kind = "demo.restore" THEN DemoExecute(p, r)
                ELSE HttpExecute(p, r)
             /\ call' = [call EXCEPT ![t].at = "store", ![t].result = r]
        /\ UNCHANGED <<controlVars, ledger, up, lock, verification, faults>>

StoreOrResend(t) ==     \* faulty: sends again while the outcome is unknown
    /\ At(t, "store")
    /\ Store(call[t].plan, call[t].result)
    /\ Goto(t, IF call[t].result = "UNKNOWN" THEN "send" ELSE "finish")
    /\ UNCHANGED <<controlVars, targetVars>>

StoreResult(t) ==
    /\ At(t, "store")
    /\ Store(call[t].plan, call[t].result)
    /\ Goto(t, "finish")
    /\ UNCHANGED <<controlVars, targetVars>>

FinishEarly(t) ==        \* faulty: gives the lock back before the case is updated
    /\ At(t, "finish")
    /\ ExecutionFinished(call[t].plan, call[t].result)
    /\ call' = [call EXCEPT ![t].at = "status"]
    /\ lock' = None
    /\ UNCHANGED <<ledger, targetVars, up, verification, faults>>

Finish(t) ==
    /\ At(t, "finish")
    /\ ExecutionFinished(call[t].plan, call[t].result)
    /\ Goto(t, "status")
    /\ UNCHANGED <<ledger, targetVars>>

StatusAfter(result) ==
    CASE result = "SUCCEEDED" -> "VERIFYING"
      [] result = "FAILED" -> "OPEN"
      [] OTHER -> "EXECUTING"

Status(t) ==
    /\ At(t, "status")
    /\ CaseStatus(CaseOf[call[t].plan], StatusAfter(call[t].result))
    /\ Return(t)
    /\ UNCHANGED <<ledger, targetVars>>

\* The except clause: settle what was recorded, then raise.
Handle(t) ==
    LET p == call[t].plan
    IN  /\ At(t, "handle")
        /\ IF Recorded(p) THEN ExecutionFinished(p, ledger[p])
           ELSE UNCHANGED controlVars
        /\ Return(t)
        /\ UNCHANGED <<ledger, targetVars>>
-----------------------------------------------------------------------------
(* reconcile, verify and release_unsent *)

Reconcile(t, p) ==
    /\ Recorded(p)
    /\ Enter(t, p, IF ledger[p] = "UNKNOWN" THEN "lookup" ELSE "settle")
    /\ OnlyLocal

LookupUntilKnown(t) ==      \* faulty: polls the history until it has an answer
    LET p == call[t].plan
    IN  /\ At(t, "lookup")
        /\ Lookup(capabilities[Target(p)].kind, p) # "UNKNOWN"
        /\ call' = [call EXCEPT ![t].at = "reconciled", ![t].result = "SUCCEEDED"]
        /\ OnlyLocal /\ UNCHANGED <<up, lock, verification, faults>>

LookupStep(t) ==
    LET p == call[t].plan
    IN  /\ At(t, "lookup")
        /\ call' = [call EXCEPT ![t].at = "reconciled",
                ![t].result = Lookup(capabilities[Target(p)].kind, p)]
        /\ OnlyLocal /\ UNCHANGED <<up, lock, verification, faults>>

StoreReconciled(t) ==
    /\ At(t, "reconciled")
    /\ Store(call[t].plan, call[t].result)
    /\ Goto(t, "settle")
    /\ UNCHANGED <<controlVars, targetVars>>

\* The target must be the plan's; the version is compared before the check runs.
Verify(t, p) ==
    /\ Recorded(p)
    /\ services[Target(p)].version = plans[p].target_version
    /\ Enter(t, p, "observe")
    /\ OnlyLocal

\* Run the check and store it; only PASS goes on to the case.
ObserveThen(t, passing, closing) ==
    LET p == call[t].plan
    IN  /\ At(t, "observe")
        /\ \E r \in CheckResults :
             /\ verification' = [verification EXCEPT ![p] =
                    [result |-> r, outcome |-> ledger[p]]]
             /\ IF r \in passing /\ ledger[p] \in closing
                THEN call' = [call EXCEPT ![t].at = "resolve"] /\ UNCHANGED lock
                ELSE call' = [call EXCEPT ![t] = Idle] /\ lock' = None
        /\ OnlyLocal /\ UNCHANGED <<up, faults>>

ObserveUnexecuted(t) ==     \* faulty: a check alone closes
    ObserveThen(t, {"PASS"}, LedgerStatuses)

ObserveUnlessFailed(t) ==   \* faulty: a check that could not tell closes
    ObserveThen(t, {"PASS", "UNKNOWN"}, {"SUCCEEDED"})

Observe(t) == ObserveThen(t, {"PASS"}, {"SUCCEEDED"})

Resolve(t) ==
    /\ At(t, "resolve")
    /\ ResolveVerifiedOperation(call[t].plan)
    /\ Return(t)
    /\ UNCHANGED <<ledger, targetVars>>

\* The endpoint itself refuses a plan with a ledger row.
EnterRelease(t, p) == Enter(t, p, "release") /\ OnlyLocal

Release(t, p) == ~Recorded(p) /\ EnterRelease(t, p)

ReleaseStep(t) ==
    /\ At(t, "release")
    /\ \/ ReleaseUnsent(call[t].plan)
       \/ claims[Target(call[t].plan)] # call[t].plan /\ UNCHANGED controlVars
    /\ Return(t)
    /\ UNCHANGED <<ledger, targetVars>>
-----------------------------------------------------------------------------
(* Failures *)

\* A database access raises instead of committing; the except clauses differ.
AccessFails(t) ==
    /\ faults < MaxFaults
    /\ faults' = faults + 1
    /\ \/ /\ call[t].at \in {"record", "dispatch", "store", "deny"}
          /\ call' = [call EXCEPT ![t].at = "handle"] /\ UNCHANGED lock
       \/ /\ call[t].at \in {"authorize", "recheck", "reauthorize"}
          /\ call' = [call EXCEPT ![t].at = "deny"] /\ UNCHANGED lock
       \/ /\ call[t].at = "lookup"
          /\ call' = [call EXCEPT ![t].at = "reconciled", ![t].result = "UNKNOWN"]
          /\ UNCHANGED lock
       \/ /\ call[t].at \in {"issue", "handle", "finish", "status", "settle",
                             "reconciled", "observe", "resolve", "release"}
          /\ call' = [call EXCEPT ![t] = Idle] /\ lock' = None
    /\ OnlyLocal /\ UNCHANGED <<up, verification>>

Crash ==
    /\ up /\ faults < MaxFaults
    /\ up' = FALSE
    /\ faults' = faults + 1
    /\ lock' = None
    /\ call' = [t \in Threads |-> Idle]
    /\ OnlyLocal /\ UNCHANGED verification

\* start(): recovery finishes before the first request is served.
Start ==
    /\ ~up
    /\ up' = TRUE
    /\ RecoverInFlight
    /\ UNCHANGED <<controlVars, targetVars, lock, call, verification, faults>>
-----------------------------------------------------------------------------
Step(t) ==
    \/ Settle(t) \/ Prepare(t) \/ Issue(t) \/ RecordStep(t) \/ Dispatch(t)
    \/ Authorize(t) \/ Recheck(t) \/ Reauthorize(t) \/ Deny(t) \/ Send(t)
    \/ StoreResult(t) \/ Finish(t) \/ Status(t) \/ Handle(t) \/ LookupStep(t)
    \/ StoreReconciled(t) \/ Observe(t) \/ Resolve(t) \/ ReleaseStep(t)

Begin(t, p) == Execute(t, p) \/ Reconcile(t, p) \/ Verify(t, p) \/ Release(t, p)

Next ==
    \/ up /\ Request /\ UNCHANGED <<ledger, targetVars, localVars>>
    \/ Clock /\ UNCHANGED <<ledger, targetVars, localVars>>
    \/ \E t \in Threads : Step(t) \/ AccessFails(t)
    \/ \E t \in Threads, p \in Plans : Begin(t, p)
    \/ \E p \in Plans : (Arrive(p) \/ Vanish(p)) /\ UNCHANGED <<controlVars, ledger, localVars>>
    \/ Crash
    \/ Start

Spec == RuntimeInit /\ [][Next]_vars
-----------------------------------------------------------------------------
Claimed(p) == claims[Target(p)] = p

\* A thread is past the last look at the permit and about to send.
AboutToSend(p) == \E t \in Threads : At(t, "send") /\ call[t].plan = p

(* Types, and the execution lock: a thread inside a call holds it.          *)
RuntimeTypeOK ==
    /\ ControlTypeOK /\ LedgerTypeOK /\ TargetTypeOK
    /\ up \in BOOLEAN
    /\ lock \in Threads \cup {None}
    /\ call \in [Threads -> Calls \cup {Idle}]
    /\ verification \in [Plans -> Checks \cup {NoCheck}]
    /\ faults \in Nat
    /\ \A t \in Threads : call[t] # Idle => lock = t

(* An operation is handed to its target at most once, and carried out at    *)
(* most once, whatever is retried, reconciled, restarted or fails to be     *)
(* written (docs/architecture-boundaries.md:30).                            *)
AtMostOnce == \A p \in Plans : requests[p] <= 1 /\ applied[p] <= 1

(* As long as the outcome is open, or a request whose answer was lost may   *)
(* yet reach the target, the service stays reserved for the plan: no second *)
(* operation can start on it and its registration stays frozen.  A crash    *)
(* between the ledger and the claim tables must not break the pair.         *)
UnresolvedIsClaimed ==
    \A p \in Plans : ledger[p] \in Unresolved \/ p \in inTransit => Claimed(p)

(* The ledger tells the truth about the target: success only after the      *)
(* effect, failure only if it never took and never will take effect, and no *)
(* request at all before the durable intent.                                *)
LedgerIsHonest ==
    \A p \in Plans :
        /\ ledger[p] = "SUCCEEDED" => applied[p] = 1
        /\ ledger[p] = "FAILED" => applied[p] = 0 /\ p \notin inTransit
        /\ ledger[p] \in {"NONE", "PENDING"} => requests[p] = 0

(* A rejected plan, and one released as unsent, was not sent and has no     *)
(* ledger row.                                                              *)
RejectedWasNeverSent ==
    \A p \in Plans : plans[p].status = "REJECTED" => requests[p] = 0 /\ ~Recorded(p)

(* A case is closed only by a plan of that case that covers its evidence,   *)
(* whose operation succeeded and whose target passed the independent check  *)
(* after that success was known: not by an API success alone, nor by an     *)
(* earlier check (docs/architecture-boundaries.md:30).  And it does not     *)
(* stay closed when more evidence arrives.                                  *)
ClosedAfter(p) ==
    /\ Exists(p) /\ Covers(p)
    /\ ledger[p] = "SUCCEEDED"
    /\ verification[p] = [result |-> "PASS", outcome |-> "SUCCEEDED"]

ResolvedWasVerified ==
    [][\A c \in Cases : cases'[c].status = "RESOLVED" =>
        IF cases[c].status = "RESOLVED" THEN cases'[c].received = cases[c].received
        ELSE \E p \in Plans : CaseOf[p] = c /\ ClosedAfter(p)']_vars

(* A closed case stays closed until evidence comes that it did not have:    *)
(* case_status (src/opsyne/control/repository.py:371) overwrites any status *)
(* it finds, and no retry, late result or restart may undo a verified       *)
(* closure with it.                                                         *)
ReopenedByEvidence ==
    [][\A c \in Cases :
        cases[c].status = "RESOLVED" /\ cases'[c].status # "RESOLVED" =>
            cases'[c].received > cases[c].received]_vars

(* When an operation leaves, its intent is durable, its service is reserved *)
(* for it, another person approved it, and service, operation and check are *)
(* the ones that person saw.                                                *)
SentAsReviewed ==
    [][\A p \in Plans : requests'[p] # requests[p] =>
        /\ ledger[p] = "IN_FLIGHT"
        /\ Claimed(p)
        /\ plans[p].status = "APPROVED" /\ plans[p].approver # plans[p].proposer
        /\ SameTarget(p)
        /\ checks[Target(p)] = plans[p].check
        /\ capabilities[Target(p)].kind = plans[p].kind]_vars

(* Revoke-all and expiry stop every plan that is not already past its last  *)
(* authorization: from then on it is never sent, by no retry or restart.    *)
RevokedIsNotSent ==
    [][\A p \in Plans :
        (~Authorized(p) \/ p \in expired) /\ ~AboutToSend(p) =>
            ~AboutToSend(p)' /\ requests'[p] = requests[p]]_vars

(* A case is closed on the check its plan names as its success condition    *)
(* (src/opsyne/control/repository.py:406).  verify compares versions before *)
(* it reads the check and holds no claim then, so the check can be replaced *)
(* in between.                                                              *)
VerifiedByPlannedCheck ==
    [][\A t \in Threads : At(t, "observe") /\ At(t, "resolve")' =>
        checks[Target(call[t].plan)] = plans[call[t].plan].check]_vars

(* A definite outcome in the ledger is final.                               *)
OutcomeIsFinal ==
    [][\A p \in Plans : ledger[p] \in Terminal => ledger'[p] = ledger[p]]_vars

(* The state of Operations.tla, read off the databases and the target.      *)
StageOf(p) ==
    CASE plans[p].status = "REJECTED" -> "void"
      [] ledger[p] = "SUCCEEDED" -> "succeeded"
      [] ledger[p] = "FAILED" -> "failed"
      [] ledger[p] \notin Terminal /\ requests[p] > 0 -> "sent"
      [] OTHER -> IF Claimed(p) THEN "held" ELSE "open"

Stages == [p \in Plans |-> StageOf(p)]
Effect == {p \in Plans : applied[p] > 0}

Promise == INSTANCE Operations WITH stage <- Stages, holder <- claims, effect <- Effect

(* Every step of the runtime is a step of the promise or changes nothing    *)
(* the promise speaks of.                                                   *)
KeepsPromise == Promise!OpSpec
-----------------------------------------------------------------------------
(* Request threads and restarts are scheduled; a person retries what stayed *)
(* reserved: executes a plan again, reconciles it, or releases it unsent.   *)
Retry(t, p) ==
    /\ Claimed(p)
    /\ \/ Execute(t, p) /\ Recorded(p)
       \/ Release(t, p)

Fairness ==
    /\ \A t \in Threads : WF_vars(Step(t))
    /\ WF_vars(Start)

OperatorFairness ==
    \A p \in Plans : /\ SF_vars(\E t \in Threads : Retry(t, p))
                     /\ SF_vars(\E t \in Threads : Reconcile(t, p) /\ ledger[p] = "UNKNOWN")

FairSpec == Spec /\ Fairness /\ OperatorFairness

(* No call keeps the execution lock: each one returns, raises, or dies with *)
(* the process.                                                             *)
CallsReturn == \A t \in Threads : call[t] # Idle ~> call[t] = Idle

(* A reservation does not outlive its operation: it is given back unless    *)
(* the outcome is open.                                                     *)
ClaimsAreReleased ==
    \A p \in Plans : Claimed(p) ~> ~Claimed(p) \/ ledger[p] \in Unresolved

(* An operation in the demo target's history does not stay unknown.         *)
AppliedIsReconciled ==
    \A p \in Plans :
        (ledger[p] = "UNKNOWN" /\ applied[p] > 0 /\ plans[p].kind = "demo.restore")
            ~> ~Claimed(p)
=============================================================================
