--------------------------- MODULE RuntimeProofs ---------------------------
(* Safety of executing, reconciling, verifying and releasing plans, proved  *)
(* for every number of services, plans, threads, crashes and failed writes, *)
(* and, in the second part, that the runtime implements Operations.         *)
EXTENDS Runtime, ControlProofs

(* A result the ledger may record: it is true of the target.                *)
Reported(p, r) ==
    /\ r \in Results
    /\ r = "SUCCEEDED" => applied[p] = 1
    /\ r = "FAILED" => applied[p] = 0 /\ p \notin inTransit

(* Ledger, claim and target agree about one plan.                           *)
PlanInv(p) ==
    /\ Recorded(p) => Exists(p)
    /\ ledger[p] \in Unresolved => Claimed(p)
    /\ Recorded(p) => Claimed(p) \/ plans[p].status = "EXECUTED"
    /\ ledger[p] \in {"NONE", "PENDING"} => requests[p] = 0
    /\ requests[p] <= 1
    /\ requests[p] = 0 => applied[p] = 0 /\ p \notin inTransit /\ history[p] = "NONE"
    /\ applied[p] <= 1
    /\ p \in inTransit => applied[p] = 0 /\ ledger[p] \in {"IN_FLIGHT", "UNKNOWN"}
    /\ ledger[p] \in Terminal => Reported(p, ledger[p])
    /\ history[p] # "NONE" => Reported(p, history[p]) /\ p \notin inTransit

(* What a call has established when it reaches a program point.             *)
CallInv(t) ==
    LET p == call[t].plan
    IN  /\ call[t].at \notin {"idle", "release"} => Exists(p)
        /\ call[t].at \in {"prepare", "issue", "record", "release"} => ~Recorded(p)
        /\ At(t, "record") => Claimed(p)
        /\ At(t, "dispatch") => ledger[p] = "PENDING"
        /\ call[t].at \in {"authorize", "recheck", "reauthorize", "send", "deny"} =>
             ledger[p] = "IN_FLIGHT" /\ requests[p] = 0
        /\ At(t, "store") => ledger[p] = "IN_FLIGHT" /\ Reported(p, call[t].result)
        /\ call[t].at \in {"finish", "status"} => ledger[p] = call[t].result
        /\ call[t].at \in {"settle", "observe"} => Recorded(p)
        /\ At(t, "lookup") => ledger[p] = "UNKNOWN"
        /\ At(t, "reconciled") => ledger[p] = "UNKNOWN" /\ Reported(p, call[t].result)
        /\ At(t, "resolve") => ledger[p] = "SUCCEEDED"

RuntimeInv ==
    /\ ControlInv
    /\ RuntimeTypeOK
    /\ \A p \in Plans : PlanInv(p)
    /\ \A t \in Threads : CallInv(t)
    /\ ~up => \A t \in Threads : call[t] = Idle
-----------------------------------------------------------------------------
(* Only the holder of the execution lock is inside a call.                  *)
LEMMA OthersAreIdle ==
    ASSUME RuntimeInv, NEW t \in Threads, call[t].at # "idle",
           NEW u \in Threads, u # t
    PROVE  call[u] = Idle
  BY DEF RuntimeInv, RuntimeTypeOK, Idle

(* A thread inside a call works on a plan, with a capability record it read *)
(* earlier.                                                                 *)
LEMMA CallIsTyped ==
    ASSUME RuntimeInv, NEW t \in Threads, call[t].at # "idle"
    PROVE  /\ call[t] \in Calls
           /\ call[t].plan \in Plans
           /\ call[t].result \in Results \cup {"NONE"}
  <1>1. call \in [Threads -> Calls \cup {Idle}]
    BY DEF RuntimeInv, RuntimeTypeOK
  <1>2. call[t] \in Calls
    BY <1>1 DEF Idle
  <1> QED
    BY <1>2 DEF Calls

(* Requests that take no lock, and the clock, leave every claim alone and   *)
(* never undo a plan or an execution.                                       *)
LEMMA OutsideLeavesClaims ==
    ASSUME RuntimeInv, Request \/ Clock
    PROVE  /\ claims' = claims
           /\ \A p \in Plans : Exists(p) => Exists(p)'
           /\ \A p \in Plans : plans[p].status = "EXECUTED" => plans'[p].status = "EXECUTED"
  <1>1. plans \in [Plans -> PlanRecords \cup {NoPlan}]
    BY DEF RuntimeInv, ControlInv, ControlTypeOK
  <1>2. claims' = claims
    BY DEF Request, RegisterService, PutService, RegisterCapability, PutCapability,
       SetCheck, AddFinding, CreatePlan, DraftPlan, Approve, Reject,
       PutRejected, AdvanceGeneration, AcknowledgeRestore, Clock, ExpirePlan, ExpirePermit
  <1>3. ASSUME NEW p \in Plans, Exists(p) PROVE Exists(p)'
    BY <1>3, PlanBodyIsFrozen DEF RuntimeInv, ControlNext
  <1>4. ASSUME NEW p \in Plans, plans[p].status = "EXECUTED"
        PROVE  plans'[p].status = "EXECUTED"
    <2>1. \/ plans' = plans
          \/ \E q \in Plans, a \in Actors : CreatePlan(q, a) \/ Approve(q, a)
          \/ \E q \in Plans : Reject(q)
      BY DEF Request, RegisterService, PutService, RegisterCapability, PutCapability,
         SetCheck, AddFinding, AdvanceGeneration, AcknowledgeRestore,
         Clock, ExpirePlan, ExpirePermit
    <2>2. ASSUME NEW q \in Plans, NEW a \in Actors, CreatePlan(q, a)
          PROVE  plans'[p] = plans[p]
      BY <1>1, <1>4, <2>2 DEF CreatePlan, DraftPlan
    <2>3. ASSUME NEW q \in Plans, NEW a \in Actors, Approve(q, a)
          PROVE  plans'[p] = plans[p]
      BY <1>1, <1>4, <2>3 DEF Approve
    <2>4. ASSUME NEW q \in Plans, Reject(q) PROVE plans'[p] = plans[p]
      BY <1>1, <1>4, <2>4 DEF Reject, PutRejected
    <2> QED
      BY <1>4, <2>1, <2>2, <2>3, <2>4
  <1> QED
    BY <1>2, <1>3, <1>4

(* An outcome given to the control database either leaves it alone or ends  *)
(* the reservation of that plan.                                            *)
LEMMA FinishedStep ==
    ASSUME RuntimeInv, NEW p \in Plans, NEW r, ExecutionFinished(p, r)
    PROVE  [ControlNext]_controlVars
  <1>1. CASE r \in Terminal
    BY <1>1 DEF ControlNext, RuntimeCall, Terminal
  <1>2. CASE r \notin Terminal
    BY <1>2 DEF ExecutionFinished, FinishedOn, Terminal, controlVars
  <1> QED
    BY <1>1, <1>2

(* To the control database every step is one of its transactions or none.   *)
LEMMA StepIsTransaction ==
    ASSUME RuntimeInv, [Next]_vars
    PROVE  [ControlNext]_controlVars
  <1>1. CASE UNCHANGED vars
    BY <1>1 DEF vars
  <1>2. ASSUME NEW t \in Threads, Step(t) PROVE [ControlNext]_controlVars
    <2> DEFINE p == call[t].plan
    <2>1. CASE UNCHANGED controlVars
      BY <2>1
    <2>2. CASE Settle(t) \/ Finish(t) \/ Handle(t)
      <3>1. p \in Plans
        BY <2>2, CallIsTyped DEF Settle, Finish, Handle, At
      <3> QED
        BY <2>1, <2>2, <3>1, FinishedStep DEF Settle, Finish, Handle
    <2>3. CASE Issue(t)
      <3>1. p \in Plans
        BY <2>3, CallIsTyped DEF Issue, At
      <3> QED
        BY <2>1, <2>3, <3>1 DEF Issue, ControlNext, RuntimeCall
    <2>4. CASE Status(t)
      <3>1. p \in Plans
        BY <2>4, CallIsTyped DEF Status, At
      <3>2. StatusAfter(call[t].result) \in {"VERIFYING", "OPEN", "EXECUTING"}
        BY DEF StatusAfter
      <3> QED
        BY <2>4, <3>1, <3>2 DEF Status, ControlNext, RuntimeCall
    <2>5. CASE Resolve(t)
      <3>1. p \in Plans
        BY <2>5, CallIsTyped DEF Resolve, At
      <3> QED
        BY <2>5, <3>1 DEF Resolve, ControlNext, RuntimeCall
    <2>6. CASE ReleaseStep(t)
      <3>1. p \in Plans
        BY <2>6, CallIsTyped DEF ReleaseStep, At
      <3> QED
        BY <2>1, <2>6, <3>1 DEF ReleaseStep, ControlNext, RuntimeCall
    <2>7. CASE Prepare(t) \/ RecordStep(t) \/ Dispatch(t) \/ Authorize(t) \/ Recheck(t)
               \/ Reauthorize(t) \/ Deny(t) \/ Send(t) \/ StoreResult(t)
      BY <2>7 DEF Prepare, RecordStep, Dispatch, Authorize, Recheck, Reauthorize, Deny,
         Send, StoreResult, OnlyLocal
    <2>8. CASE LookupStep(t) \/ StoreReconciled(t) \/ Observe(t)
      BY <2>8 DEF LookupStep, StoreReconciled, Observe, ObserveThen, OnlyLocal
    <2> QED
      BY <1>2, <2>2, <2>3, <2>4, <2>5, <2>6, <2>7, <2>8 DEF Step
  <1>3. ASSUME NEW t \in Threads, NEW p \in Plans, Begin(t, p) PROVE UNCHANGED controlVars
    BY <1>3 DEF Begin, Execute, Reconcile, Verify, Release, EnterRelease, OnlyLocal
  <1>4. ASSUME NEW t \in Threads, AccessFails(t) PROVE UNCHANGED controlVars
    BY <1>4 DEF AccessFails, OnlyLocal
  <1>5. CASE Crash \/ Start
    BY <1>5 DEF Crash, Start, OnlyLocal
  <1>6. CASE Request \/ Clock
    BY <1>6 DEF ControlNext
  <1> QED
    BY <1>1, <1>2, <1>3, <1>4, <1>5, <1>6 DEF Next

(* So the invariant of the control database carries over.                   *)
LEMMA ControlPartPreserved == RuntimeInv /\ [Next]_vars => ControlInv'
  BY StepIsTransaction, ControlInvPreserved DEF RuntimeInv
-----------------------------------------------------------------------------
(* Moving to another point, returning and entering keep the types of the    *)
(* local state and the lock.                                                *)
LocalTypeOK ==
    /\ up \in BOOLEAN
    /\ lock \in Threads \cup {None}
    /\ call \in [Threads -> Calls \cup {Idle}]
    /\ verification \in [Plans -> Checks \cup {NoCheck}]
    /\ faults \in Nat
    /\ \A t \in Threads : call[t] # Idle => lock = t
    /\ ~up => \A t \in Threads : call[t] = Idle

(* What a step of thread t may do to the calls: replace its own record, or  *)
(* give the lock back.                                                      *)
Moves(t) ==
    \/ \E c \in Calls : call' = [call EXCEPT ![t] = c] /\ lock' = lock
    \/ call' = [call EXCEPT ![t] = Idle] /\ lock' = None

(* Such a move keeps the local state typed and the lock exclusive.          *)
LEMMA MovesTyped ==
    ASSUME RuntimeInv, NEW t \in Threads, call[t].at # "idle", Moves(t),
           up' = up, faults' \in Nat,
           verification' \in [Plans -> Checks \cup {NoCheck}]
    PROVE  LocalTypeOK'
  <1>1. /\ up \in BOOLEAN /\ lock \in Threads \cup {None}
        /\ call \in [Threads -> Calls \cup {Idle}]
        /\ call[t] # Idle /\ lock = t /\ up
    BY DEF RuntimeInv, RuntimeTypeOK, Idle
  <1>2. \A u \in Threads : u # t => call[u] = Idle
    BY OthersAreIdle
  <1>3. CASE call' = [call EXCEPT ![t] = Idle] /\ lock' = None
    <2>1. \A u \in Threads : call'[u] = Idle
      BY <1>1, <1>2, <1>3
    <2>2. call' \in [Threads -> Calls \cup {Idle}]
      BY <1>1, <1>3
    <2> QED
      BY <1>1, <1>3, <2>1, <2>2 DEF LocalTypeOK
  <1>4. ASSUME NEW c \in Calls, call' = [call EXCEPT ![t] = c], lock' = lock
        PROVE  LocalTypeOK'
    <2>1. \A u \in Threads : u # t => call'[u] = Idle
      BY <1>1, <1>2, <1>4
    <2>2. call' \in [Threads -> Calls \cup {Idle}]
      BY <1>1, <1>4
    <2> QED
      BY <1>1, <1>4, <2>1, <2>2 DEF LocalTypeOK
  <1> QED
    BY <1>3, <1>4 DEF Moves

(* Going on to another point of the same call.                              *)
LEMMA GotoMoves ==
    ASSUME RuntimeInv, NEW t \in Threads, call[t].at # "idle",
           NEW point \in Points, NEW k \in CapabilityRecords \cup {NoCapability},
           NEW r \in Results \cup {"NONE"}
    PROVE  /\ [call EXCEPT ![t].at = point] = [call EXCEPT ![t] = [call[t] EXCEPT !.at = point]]
           /\ [call[t] EXCEPT !.at = point] \in Calls
           /\ [call[t] EXCEPT !.at = point, !.capability = k] \in Calls
           /\ [call[t] EXCEPT !.at = point, !.result = r] \in Calls
  <1>1. call \in [Threads -> Calls \cup {Idle}] /\ call[t] \in Calls
    BY CallIsTyped DEF RuntimeInv, RuntimeTypeOK
  <1>2. /\ [call[t] EXCEPT !.at = point] \in Calls
        /\ [call[t] EXCEPT !.at = point, !.capability = k] \in Calls
        /\ [call[t] EXCEPT !.at = point, !.result = r] \in Calls
    BY <1>1 DEF Calls
  <1>3. [call EXCEPT ![t].at = point] = [call EXCEPT ![t] = [call[t] EXCEPT !.at = point]]
    BY <1>1
  <1> QED
    BY <1>2, <1>3

(* Every step of a call, and every failed access, is such a move.           *)
LEMMA StepMoves ==
    ASSUME RuntimeInv, NEW t \in Threads, Step(t) \/ AccessFails(t)
    PROVE  /\ call[t].at # "idle" /\ Moves(t) /\ up' = up /\ faults' \in Nat
           /\ verification' \in [Plans -> Checks \cup {NoCheck}]
  <1> DEFINE Typed == /\ call[t].at # "idle" /\ Moves(t) /\ up' = up /\ faults' \in Nat
                      /\ verification' \in [Plans -> Checks \cup {NoCheck}]
  <1> DEFINE p == call[t].plan
  <1>1. /\ verification \in [Plans -> Checks \cup {NoCheck}] /\ faults \in Nat
        /\ capabilities \in [Services -> CapabilityRecords]
        /\ ledger \in [Plans -> LedgerStatuses]
        /\ history \in [Plans -> {"NONE", "SUCCEEDED", "FAILED"}]
        /\ call \in [Threads -> Calls \cup {Idle}]
    BY DEF RuntimeInv, RuntimeTypeOK, ControlTypeOK, LedgerTypeOK, TargetTypeOK
  <1>2. ASSUME NEW point \in Points, call[t].at # "idle", Goto(t, point) PROVE Typed
    <2>1. /\ call' = [call EXCEPT ![t].at = point] /\ lock' = lock
          /\ up' = up /\ verification' = verification /\ faults' = faults
      BY <1>2 DEF Goto
    <2>2. Moves(t)
      BY <1>2, <2>1, GotoMoves, CallIsTyped DEF Moves, Calls
    <2> QED
      BY <1>1, <1>2, <2>1, <2>2
  <1>3. ASSUME call[t].at # "idle", Return(t) PROVE Typed
    BY <1>1, <1>3 DEF Return, Moves
  <1>4. {"prepare", "issue", "record", "dispatch", "authorize", "recheck", "reauthorize",
         "send", "store", "deny", "handle", "finish", "status", "settle", "lookup",
         "reconciled", "observe", "resolve", "release"} \subseteq Points
    BY DEF Points
  <1>14. ASSUME call[t].at # "idle", NEW point \in Points,
                call' = [call EXCEPT ![t].at = point], lock' = lock
         PROVE  Moves(t)
    <2>1. [call EXCEPT ![t].at = point] = [call EXCEPT ![t] = [call[t] EXCEPT !.at = point]]
      BY <1>1
    <2>2. [call[t] EXCEPT !.at = point] \in Calls
      BY <1>14, CallIsTyped DEF Calls
    <2> QED
      BY <1>14, <2>1, <2>2, Zenon DEF Moves
  <1>15. ASSUME call' = [call EXCEPT ![t] = Idle], lock' = None
         PROVE  Moves(t)
    BY <1>15, Zenon DEF Moves
  <1>5. CASE Settle(t) \/ Status(t) \/ Handle(t) \/ Resolve(t) \/ ReleaseStep(t)
    <2>1. call[t].at # "idle" /\ Return(t)
      BY <1>5 DEF Settle, Status, Handle, Resolve, ReleaseStep, At
    <2> QED
      BY <1>3, <2>1
  <1>6. CASE \/ Dispatch(t) \/ Authorize(t) \/ Recheck(t) \/ Reauthorize(t) \/ Deny(t)
             \/ StoreResult(t) \/ Finish(t) \/ StoreReconciled(t) \/ RecordStep(t)
    <2>1. call[t].at # "idle"
      BY <1>6 DEF Dispatch, Authorize, Recheck, Reauthorize, Deny, StoreResult, Finish,
         StoreReconciled, RecordStep, At
    <2>2. \E point \in {"authorize", "recheck", "deny", "reauthorize", "send", "handle",
                        "finish", "status", "settle", "dispatch"} : Goto(t, point)
      BY <1>6 DEF Dispatch, Authorize, Recheck, Reauthorize, Deny, StoreResult, Finish,
         StoreReconciled, RecordStep
    <2> QED
      BY <1>2, <1>4, <2>1, <2>2
  <1>7. CASE Issue(t)
    <2>1. call[t].at # "idle" /\ (Goto(t, "record") \/ Return(t))
      BY <1>7 DEF Issue, At
    <2> QED
      BY <1>2, <1>3, <1>4, <2>1
  <1>8. CASE Prepare(t)
    <2>1. call[t].at # "idle"
      BY <1>8 DEF Prepare, At
    <2>2. CASE Return(t)
      BY <1>3, <2>1, <2>2
    <2>3. CASE /\ call' = [call EXCEPT ![t].at = "issue", ![t].capability = capabilities[Target(p)]]
               /\ UNCHANGED <<up, lock, verification, faults>>
      <3>1. capabilities[Target(p)] \in CapabilityRecords
        BY <1>1, <2>1, CallIsTyped, TargetIsService
      <3>2. [call[t] EXCEPT !.at = "issue", !.capability = capabilities[Target(p)]] \in Calls
        BY <1>4, <2>1, <3>1, GotoMoves
      <3>3. call' = [call EXCEPT ![t] =
                       [call[t] EXCEPT !.at = "issue", !.capability = capabilities[Target(p)]]]
        BY <1>1, <2>3
      <3> QED
        BY <1>1, <2>1, <2>3, <3>2, <3>3 DEF Moves
    <2> QED
      BY <1>8, <2>2, <2>3 DEF Prepare
  <1>9. ASSUME call[t].at # "idle", NEW point \in Points, NEW r \in Results,
               call' = [call EXCEPT ![t].at = point, ![t].result = r], lock' = lock
        PROVE  Moves(t)
    <2>1. [call[t] EXCEPT !.at = point, !.result = r] \in Calls
      BY <1>9, GotoMoves
    <2>2. call' = [call EXCEPT ![t] = [call[t] EXCEPT !.at = point, !.result = r]]
      BY <1>1, <1>9
    <2> QED
      BY <1>9, <2>1, <2>2 DEF Moves
  <1>10. CASE Send(t)
    <2>1. PICK r \in Results : call' = [call EXCEPT ![t].at = "store", ![t].result = r]
      BY <1>10 DEF Send
    <2>2. /\ call[t].at # "idle" /\ lock' = lock /\ up' = up
          /\ verification' = verification /\ faults' = faults
      BY <1>10 DEF Send, At
    <2>3. Moves(t)
      BY <1>4, <1>9, <2>1, <2>2
    <2> QED
      BY <1>1, <2>2, <2>3
  <1>11. CASE LookupStep(t)
    <2>1. /\ call[t].at # "idle" /\ lock' = lock /\ up' = up
          /\ verification' = verification /\ faults' = faults
      BY <1>11 DEF LookupStep, At
    <2>2. Lookup(capabilities[Target(p)].kind, p) \in Results
      BY <1>1, <2>1, CallIsTyped DEF Lookup, DemoLookup, HttpLookup, Results
    <2>3. call' = [call EXCEPT ![t].at = "reconciled",
                               ![t].result = Lookup(capabilities[Target(p)].kind, p)]
      BY <1>11 DEF LookupStep
    <2>4. Moves(t)
      BY <1>4, <1>9, <2>1, <2>2, <2>3
    <2> QED
      BY <1>1, <2>1, <2>4
  <1>12. CASE Observe(t)
    <2>1. call[t].at # "idle" /\ up' = up /\ faults' = faults
      BY <1>12 DEF Observe, ObserveThen, At
    <2>2. verification' \in [Plans -> Checks \cup {NoCheck}]
      <3>1. PICK r \in CheckResults :
              verification' = [verification EXCEPT ![p] = [result |-> r, outcome |-> ledger[p]]]
        BY <1>12 DEF Observe, ObserveThen
      <3>2. p \in Plans
        BY <2>1, CallIsTyped
      <3>3. [result |-> r, outcome |-> ledger[p]] \in Checks
        BY <1>1, <3>2 DEF Checks
      <3> QED
        BY <1>1, <3>1, <3>3
    <2>3. \/ call' = [call EXCEPT ![t].at = "resolve"] /\ lock' = lock
          \/ call' = [call EXCEPT ![t] = Idle] /\ lock' = None
      BY <1>12 DEF Observe, ObserveThen
    <2>4. Moves(t)
      BY <1>4, <1>14, <1>15, <2>1, <2>3
    <2> QED
      BY <1>1, <2>1, <2>2, <2>4
  <1>13. CASE AccessFails(t)
    <2>1. /\ call[t].at # "idle" /\ up' = up /\ verification' = verification
          /\ faults' = faults + 1
      BY <1>13 DEF AccessFails
    <2>2. \/ call' = [call EXCEPT ![t].at = "handle"] /\ lock' = lock
          \/ call' = [call EXCEPT ![t].at = "deny"] /\ lock' = lock
          \/ /\ call' = [call EXCEPT ![t].at = "reconciled", ![t].result = "UNKNOWN"]
             /\ lock' = lock
          \/ call' = [call EXCEPT ![t] = Idle] /\ lock' = None
      BY <1>13 DEF AccessFails
    <2>3. ASSUME NEW point \in {"handle", "deny"},
                 call' = [call EXCEPT ![t].at = point], lock' = lock
          PROVE  Moves(t)
      BY <1>4, <1>14, <2>1, <2>3
    <2>4. ASSUME call' = [call EXCEPT ![t].at = "reconciled", ![t].result = "UNKNOWN"],
                 lock' = lock
          PROVE  Moves(t)
      <3>1. "UNKNOWN" \in Results /\ "reconciled" \in Points
        BY DEF Results, Points
      <3> QED
        BY <1>9, <2>1, <2>4, <3>1
    <2>6. Moves(t)
      BY <1>15, <2>2, <2>3, <2>4
    <2> QED
      BY <1>1, <2>1, <2>6
  <1> QED
    BY <1>5, <1>6, <1>7, <1>8, <1>10, <1>11, <1>12, <1>13 DEF Step

(* Types of the local state are preserved, and the lock stays exclusive.    *)
LEMMA LocalPreserved == RuntimeInv /\ [Next]_vars => LocalTypeOK'
  <1> SUFFICES ASSUME RuntimeInv, [Next]_vars PROVE LocalTypeOK'
    OBVIOUS
  <1>1. LocalTypeOK
    BY DEF RuntimeInv, RuntimeTypeOK, LocalTypeOK
  <1>2. CASE UNCHANGED localVars
    BY <1>1, <1>2 DEF localVars, LocalTypeOK
  <1>3. ASSUME NEW t \in Threads, Step(t) \/ AccessFails(t) PROVE LocalTypeOK'
    BY <1>3, StepMoves, MovesTyped
  <1>4. ASSUME NEW t \in Threads, NEW p \in Plans, Begin(t, p) PROVE LocalTypeOK'
    <2>1. PICK point \in {"settle", "prepare", "lookup", "observe", "release"} :
             Enter(t, p, point)
      BY <1>4 DEF Begin, Execute, Reconcile, Verify, Release, EnterRelease
    <2>2. [Idle EXCEPT !.at = point, !.plan = p] \in Calls
      BY DEF Idle, Calls, Points
    <2>3. /\ up /\ lock = None /\ lock' = t
          /\ call' = [call EXCEPT ![t] = [Idle EXCEPT !.at = point, !.plan = p]]
          /\ up' = up /\ verification' = verification /\ faults' = faults
      BY <2>1 DEF Enter
    <2>4. \A u \in Threads : call[u] = Idle
      BY <1>1, <2>3, RuntimeAssumption DEF LocalTypeOK
    <2>5. call' \in [Threads -> Calls \cup {Idle}]
      BY <1>1, <2>2, <2>3 DEF LocalTypeOK
    <2>6. \A u \in Threads : u # t => call'[u] = Idle
      BY <1>1, <2>3, <2>4 DEF LocalTypeOK
    <2> QED
      BY <1>1, <2>3, <2>5, <2>6 DEF LocalTypeOK
  <1>5. CASE Crash
    <2>1. /\ up' = FALSE /\ faults' = faults + 1 /\ lock' = None
          /\ call' = [t \in Threads |-> Idle] /\ verification' = verification
          /\ up' \in BOOLEAN
      BY <1>5 DEF Crash
    <2>2. call' \in [Threads -> Calls \cup {Idle}] /\ \A t \in Threads : call'[t] = Idle
      BY <2>1
    <2> QED
      BY <1>1, <2>1, <2>2 DEF LocalTypeOK
  <1>6. CASE Start
    BY <1>1, <1>6 DEF Start, LocalTypeOK
  <1> QED
    BY <1>2, <1>3, <1>4, <1>5, <1>6 DEF Next, vars
-----------------------------------------------------------------------------
(* The types the arithmetic below needs.                                    *)
LEMMA DataIsTyped ==
    ASSUME RuntimeInv
    PROVE  /\ ledger \in [Plans -> LedgerStatuses]
           /\ requests \in [Plans -> Nat] /\ applied \in [Plans -> Nat]
           /\ inTransit \subseteq Plans
           /\ history \in [Plans -> {"NONE", "SUCCEEDED", "FAILED"}]
           /\ claims \in [Services -> Plans \cup {None}]
           /\ plans \in [Plans -> PlanRecords \cup {NoPlan}]
           /\ call \in [Threads -> Calls \cup {Idle}]
  BY DEF RuntimeInv, RuntimeTypeOK, ControlTypeOK, LedgerTypeOK, TargetTypeOK

(* No transaction makes a plan disappear.                                   *)
LEMMA PlansStay ==
    ASSUME RuntimeInv, [Next]_vars, NEW q \in Plans, Exists(q)
    PROVE  Exists(q)'
  <1>1. CASE ControlNext
    BY <1>1, PlanBodyIsFrozen DEF RuntimeInv
  <1>2. CASE UNCHANGED controlVars
    BY <1>2 DEF controlVars, Exists
  <1> QED
    BY <1>1, <1>2, StepIsTransaction

(* A plan keeps its invariant while only others are worked on.              *)
LEMMA PlanUntouched ==
    ASSUME RuntimeInv, [Next]_vars, NEW q \in Plans,
           Claimed(q) => Claimed(q)',
           plans[q].status = "EXECUTED" => plans'[q].status = "EXECUTED",
           ledger'[q] = ledger[q], requests'[q] = requests[q], applied'[q] = applied[q],
           history'[q] = history[q], q \in inTransit' <=> q \in inTransit
    PROVE  PlanInv(q)'
  <1>1. PlanInv(q) /\ (Exists(q) => Exists(q)')
    BY PlansStay DEF RuntimeInv
  <1>2. Recorded(q)' <=> Recorded(q)
    BY DEF Recorded
  <1>3. \A r : Reported(q, r) => Reported(q, r)'
    BY DEF Reported
  <1> QED
    BY <1>1, <1>2, <1>3 DEF PlanInv

(* The calls of the other threads are idle before and after a step.         *)
LEMMA OneCallIsEnough ==
    ASSUME RuntimeInv, NEW t \in Threads, Step(t) \/ AccessFails(t), CallInv(t)'
    PROVE  \A u \in Threads : CallInv(u)'
  <1> SUFFICES ASSUME NEW u \in Threads, u # t PROVE CallInv(u)'
    OBVIOUS
  <1>1. call[u] = Idle /\ Moves(t)
    BY StepMoves, OthersAreIdle
  <1>2. call'[u] = Idle
    BY <1>1, DataIsTyped DEF Moves
  <1> QED
    BY <1>2 DEF CallInv, At, Idle

(* A call that has ended claims nothing.                                    *)
LEMMA ReturnedCall ==
    ASSUME RuntimeInv, NEW t \in Threads, call' = [call EXCEPT ![t] = Idle]
    PROVE  CallInv(t)'
  <1>1. call'[t] = Idle
    BY DataIsTyped
  <1> QED
    BY <1>1 DEF CallInv, At, Idle

(* Going on to the next point keeps the local variables of the call.        *)
LEMMA NextPoint ==
    ASSUME RuntimeInv, NEW t \in Threads, call[t].at # "idle", NEW point,
           call' = [call EXCEPT ![t].at = point]
    PROVE  /\ call'[t].at = point
           /\ call'[t].plan = call[t].plan /\ call'[t].result = call[t].result
  <1>1. call \in [Threads -> Calls \cup {Idle}] /\ call[t] \in Calls
    BY DataIsTyped, CallIsTyped
  <1> QED
    BY <1>1 DEF Calls

(* Steps that only read, run a check or fail.                               *)
LEMMA LocalStepPreserves ==
    ASSUME RuntimeInv, NEW t \in Threads,
           \/ Prepare(t) \/ Authorize(t) \/ Recheck(t) \/ Reauthorize(t)
           \/ LookupStep(t) \/ Observe(t) \/ AccessFails(t)
    PROVE  (\A q \in Plans : PlanInv(q)') /\ (\A u \in Threads : CallInv(u)')
  <1>0. OnlyLocal /\ (Step(t) \/ AccessFails(t)) /\ [Next]_vars
    BY DEF Prepare, Authorize, Recheck, Reauthorize, LookupStep, Observe, ObserveThen,
       AccessFails, Step, Next
  <1>1. \A q \in Plans : PlanInv(q)'
    BY <1>0, PlanUntouched DEF OnlyLocal, controlVars, targetVars, Claimed
  <1>2. PICK p \in Plans :
           call[t].plan = p /\ call[t].at # "idle" /\ CallInv(t) /\ PlanInv(p)
    BY <1>0, StepMoves, CallIsTyped DEF RuntimeInv
  <1>3. /\ Exists(p)' <=> Exists(p)
        /\ Recorded(p)' <=> Recorded(p)
        /\ Claimed(p)' <=> Claimed(p)
        /\ ledger' = ledger /\ requests' = requests /\ applied' = applied
        /\ inTransit' = inTransit
    BY <1>0 DEF OnlyLocal, controlVars, targetVars, Exists, Recorded, Claimed
  <1>4. \A r : Reported(p, r)' <=> Reported(p, r)
    BY <1>3 DEF Reported
  <1>5. ASSUME call' = [call EXCEPT ![t] = Idle] PROVE CallInv(t)'
    BY <1>5, ReturnedCall
  <1>6. ASSUME NEW point, call'[t].at = point, call'[t].plan = p,
               \/ At(t, "prepare") /\ point = "issue"
               \/ At(t, "authorize") /\ point \in {"recheck", "deny"}
               \/ At(t, "recheck") /\ point \in {"reauthorize", "deny"}
               \/ At(t, "reauthorize") /\ point \in {"send", "deny"}
               \/ At(t, "observe") /\ point = "resolve" /\ ledger[p] = "SUCCEEDED"
               \/ call[t].at \in {"record", "dispatch", "store", "deny"} /\ point = "handle"
               \/ /\ At(t, "lookup") /\ point = "reconciled"
                  /\ Reported(p, call'[t].result)
        PROVE  CallInv(t)'
    BY <1>2, <1>3, <1>4, <1>6 DEF CallInv, At
  <1>7. CASE Prepare(t)
    <2>1. CASE Return(t)
      BY <1>1, <1>5, <2>1, <1>0, OneCallIsEnough DEF Return
    <2>2. CASE call' = [call EXCEPT ![t].at = "issue",
                                    ![t].capability = capabilities[Target(p)]]
      <3>1. call'[t].at = "issue" /\ call'[t].plan = p
        BY <1>2, <2>2, DataIsTyped, CallIsTyped DEF Calls
      <3> QED
        BY <1>1, <1>6, <1>7, <3>1, <1>0, OneCallIsEnough DEF Prepare
    <2> QED
      BY <1>2, <1>7, <2>1, <2>2 DEF Prepare
  <1>8. CASE Authorize(t) \/ Recheck(t) \/ Reauthorize(t)
    <2>1. PICK point : /\ call' = [call EXCEPT ![t].at = point]
                       /\ \/ At(t, "authorize") /\ point \in {"recheck", "deny"}
                          \/ At(t, "recheck") /\ point \in {"reauthorize", "deny"}
                          \/ At(t, "reauthorize") /\ point \in {"send", "deny"}
      BY <1>8 DEF Authorize, Recheck, Reauthorize, Goto
    <2>2. call'[t].at = point /\ call'[t].plan = p
      BY <1>2, <2>1, NextPoint
    <2>3. CallInv(t)'
      BY <1>6, <2>1, <2>2
    <2> QED
      BY <1>1, <2>3, <1>0, OneCallIsEnough
  <1>9. CASE LookupStep(t)
    <2> DEFINE r == Lookup(capabilities[Target(p)].kind, p)
    <2>1. At(t, "lookup") /\ call' = [call EXCEPT ![t].at = "reconciled", ![t].result = r]
      BY <1>2, <1>9 DEF LookupStep
    <2>2. call'[t].at = "reconciled" /\ call'[t].plan = p /\ call'[t].result = r
      BY <1>2, <2>1, DataIsTyped, CallIsTyped DEF Calls
    <2>3. Reported(p, r)
      BY <1>2 DEF Lookup, HttpLookup, DemoLookup, PlanInv, Reported, Results
    <2>4. CallInv(t)'
      BY <1>6, <2>1, <2>2, <2>3
    <2> QED
      BY <1>1, <2>4, <1>0, OneCallIsEnough
  <1>10. CASE Observe(t)
    <2>1. \/ /\ At(t, "observe") /\ ledger[p] = "SUCCEEDED"
             /\ call' = [call EXCEPT ![t].at = "resolve"]
          \/ call' = [call EXCEPT ![t] = Idle]
      BY <1>2, <1>10 DEF Observe, ObserveThen
    <2>2. ASSUME At(t, "observe"), ledger[p] = "SUCCEEDED",
                 call' = [call EXCEPT ![t].at = "resolve"]
          PROVE  CallInv(t)'
      <3>1. call'[t].at = "resolve" /\ call'[t].plan = p
        BY <1>2, <2>2, NextPoint
      <3> QED
        BY <1>6, <2>2, <3>1
    <2> QED
      BY <1>1, <1>5, <2>1, <2>2, <1>0, OneCallIsEnough
  <1>11. CASE AccessFails(t)
    <2>1. \/ /\ call[t].at \in {"record", "dispatch", "store", "deny"}
             /\ call' = [call EXCEPT ![t].at = "handle"]
          \/ /\ call[t].at \in {"authorize", "recheck", "reauthorize"}
             /\ call' = [call EXCEPT ![t].at = "deny"]
          \/ /\ call[t].at = "lookup"
             /\ call' = [call EXCEPT ![t].at = "reconciled", ![t].result = "UNKNOWN"]
          \/ call' = [call EXCEPT ![t] = Idle]
      BY <1>11 DEF AccessFails
    <2>2. ASSUME call[t].at \in {"record", "dispatch", "store", "deny"},
                 call' = [call EXCEPT ![t].at = "handle"]
          PROVE  CallInv(t)'
      <3>1. call'[t].at = "handle" /\ call'[t].plan = p
        BY <1>2, <2>2, NextPoint
      <3> QED
        BY <1>6, <2>2, <3>1
    <2>3. ASSUME call[t].at \in {"authorize", "recheck", "reauthorize"},
                 call' = [call EXCEPT ![t].at = "deny"]
          PROVE  CallInv(t)'
      <3>1. call'[t].at = "deny" /\ call'[t].plan = p
        BY <1>2, <2>3, NextPoint
      <3> QED
        BY <1>6, <2>3, <3>1 DEF At
    <2>4. ASSUME call[t].at = "lookup",
                 call' = [call EXCEPT ![t].at = "reconciled", ![t].result = "UNKNOWN"]
          PROVE  CallInv(t)'
      <3>1. call'[t].at = "reconciled" /\ call'[t].plan = p /\ call'[t].result = "UNKNOWN"
        BY <1>2, <2>4, DataIsTyped, CallIsTyped DEF Calls
      <3>2. Reported(p, "UNKNOWN")
        BY DEF Reported, Results
      <3> QED
        BY <1>6, <2>4, <3>1, <3>2 DEF At
    <2> QED
      BY <1>1, <1>5, <2>1, <2>2, <2>3, <2>4, <1>0, OneCallIsEnough
  <1> QED
    BY <1>7, <1>8, <1>9, <1>10, <1>11

(* A new status of plan p that is true of the target, and keeps the claim.  *)
LEMMA StorePreserves ==
    ASSUME RuntimeInv, [Next]_vars, NEW p \in Plans, NEW st \in LedgerStatuses \ {"NONE"},
           ledger' = [ledger EXCEPT ![p] = st], UNCHANGED <<controlVars, targetVars>>,
           Exists(p), Claimed(p),
           st = "PENDING" => requests[p] = 0,
           p \in inTransit => st \in {"IN_FLIGHT", "UNKNOWN"},
           st \in Terminal => Reported(p, st)
    PROVE  \A q \in Plans : PlanInv(q)'
  <1>1. /\ claims' = claims /\ plans' = plans /\ requests' = requests
        /\ applied' = applied /\ inTransit' = inTransit /\ history' = history
    BY DEF controlVars, targetVars
  <1>2. ledger'[p] = st /\ \A q \in Plans : q # p => ledger'[q] = ledger[q]
    BY DataIsTyped
  <1>3. ASSUME NEW q \in Plans, q # p PROVE PlanInv(q)'
    BY <1>1, <1>2, <1>3, PlanUntouched DEF Claimed
  <1>4. PlanInv(p)'
    <2>1. PlanInv(p)
      BY DEF RuntimeInv
    <2>2. Exists(p)' /\ Claimed(p)'
      BY <1>1 DEF Exists, Claimed
    <2>3. \A r : Reported(p, r)' <=> Reported(p, r)
      BY <1>1 DEF Reported
    <2> QED
      BY <1>1, <1>2, <2>1, <2>2, <2>3 DEF PlanInv
  <1> QED
    BY <1>3, <1>4

(* Steps that write the ledger.                                             *)
LEMMA LedgerStepPreserves ==
    ASSUME RuntimeInv, NEW t \in Threads,
           RecordStep(t) \/ Dispatch(t) \/ Deny(t) \/ StoreResult(t) \/ StoreReconciled(t)
    PROVE  (\A q \in Plans : PlanInv(q)') /\ (\A u \in Threads : CallInv(u)')
  <1>1. /\ Step(t) /\ [Next]_vars
        /\ UNCHANGED <<controlVars, targetVars>>
    BY DEF RecordStep, Dispatch, Deny, StoreResult, StoreReconciled, Step, Next
  <1>2. PICK p \in Plans :
           call[t].plan = p /\ call[t].at # "idle" /\ CallInv(t) /\ PlanInv(p)
    BY <1>1, StepMoves, CallIsTyped DEF RuntimeInv
  <1>3. /\ Exists(p)' <=> Exists(p)
        /\ Claimed(p)' <=> Claimed(p)
        /\ \A r : Reported(p, r)' <=> Reported(p, r)
        /\ requests' = requests
    BY <1>1 DEF controlVars, targetVars, Exists, Claimed, Reported
  <1>4. ledger \in [Plans -> LedgerStatuses]
    BY DataIsTyped
  <1>5. ASSUME At(t, "record"), ledger' = ledger, Goto(t, "handle")
        PROVE  (\A q \in Plans : PlanInv(q)') /\ CallInv(t)'
    <2>1. \A q \in Plans : PlanInv(q)'
      BY <1>1, <1>5, PlanUntouched DEF controlVars, targetVars, Claimed
    <2>2. call'[t].at = "handle" /\ call'[t].plan = p
      BY <1>2, <1>5, NextPoint DEF Goto
    <2>3. CallInv(t)'
      BY <1>2, <1>3, <1>5, <2>2 DEF CallInv, At
    <2> QED
      BY <2>1, <2>3
  <1>6. ASSUME NEW st \in LedgerStatuses \ {"NONE"}, NEW point,
               ledger' = [ledger EXCEPT ![p] = st], Goto(t, point),
               \/ At(t, "record") /\ st = "PENDING" /\ point = "dispatch"
               \/ At(t, "dispatch") /\ st = "IN_FLIGHT" /\ point = "authorize"
               \/ At(t, "deny") /\ st = "FAILED" /\ point = "handle"
               \/ At(t, "store") /\ st = call[t].result /\ point = "finish"
               \/ At(t, "reconciled") /\ st = call[t].result /\ point = "settle"
        PROVE  (\A q \in Plans : PlanInv(q)') /\ CallInv(t)'
    <2>1. /\ Exists(p) /\ Claimed(p)
          /\ st = "PENDING" => requests[p] = 0
          /\ st \in Terminal => Reported(p, st)
          /\ p \in inTransit => st \in {"IN_FLIGHT", "UNKNOWN"}
          /\ At(t, "dispatch") => requests[p] = 0
      BY <1>2, <1>6 DEF CallInv, At, PlanInv, Unresolved, Terminal, Recorded, Reported,
         Results
    <2>2. \A q \in Plans : PlanInv(q)'
      BY <1>1, <1>6, <2>1, StorePreserves
    <2>3. call'[t].at = point /\ call'[t].plan = p /\ call'[t].result = call[t].result
      BY <1>2, <1>6, NextPoint DEF Goto
    <2>4. ledger'[p] = st
      BY <1>4, <1>6
    <2>5. CallInv(t)'
      BY <1>3, <1>6, <2>1, <2>3, <2>4 DEF CallInv, At, Recorded
    <2> QED
      BY <2>2, <2>5
  <1>7. CASE RecordStep(t)
    <2>1. \/ At(t, "record") /\ ledger' = ledger /\ Goto(t, "handle")
          \/ /\ At(t, "record") /\ ledger' = [ledger EXCEPT ![p] = "PENDING"]
             /\ Goto(t, "dispatch")
      BY <1>2, <1>7 DEF RecordStep, RecordIntent
    <2>2. "PENDING" \in LedgerStatuses \ {"NONE"}
      BY DEF LedgerStatuses, Unresolved
    <2> QED
      BY <1>1, <1>5, <1>6, <2>1, <2>2, OneCallIsEnough
  <1>8. CASE Dispatch(t) \/ Deny(t)
    <2>1. \/ /\ At(t, "dispatch") /\ ledger' = [ledger EXCEPT ![p] = "IN_FLIGHT"]
             /\ Goto(t, "authorize")
          \/ /\ At(t, "deny") /\ ledger' = [ledger EXCEPT ![p] = "FAILED"]
             /\ Goto(t, "handle")
      BY <1>2, <1>8 DEF Dispatch, Deny, Store
    <2>2. {"IN_FLIGHT", "FAILED"} \subseteq LedgerStatuses \ {"NONE"}
      BY DEF LedgerStatuses, Unresolved, Terminal
    <2> QED
      BY <1>1, <1>6, <2>1, <2>2, OneCallIsEnough
  <1>9. CASE StoreResult(t) \/ StoreReconciled(t)
    <2>1. \/ /\ At(t, "store") /\ ledger' = [ledger EXCEPT ![p] = call[t].result]
             /\ Goto(t, "finish")
          \/ /\ At(t, "reconciled") /\ ledger' = [ledger EXCEPT ![p] = call[t].result]
             /\ Goto(t, "settle")
      BY <1>2, <1>9 DEF StoreResult, StoreReconciled, Store
    <2>2. call[t].result \in LedgerStatuses \ {"NONE"}
      BY <1>2, <2>1 DEF CallInv, Reported, Results, LedgerStatuses, Unresolved, Terminal
    <2> QED
      BY <1>1, <1>6, <2>1, <2>2, OneCallIsEnough
  <1> QED
    BY <1>7, <1>8, <1>9

(* Handing the operation to a connector, which happens with no request yet. *)
LEMMA SendPreserves ==
    ASSUME RuntimeInv, NEW t \in Threads, Send(t)
    PROVE  (\A q \in Plans : PlanInv(q)') /\ (\A u \in Threads : CallInv(u)')
  <1>1. Step(t) /\ [Next]_vars
    BY DEF Step, Next
  <1>2. PICK p \in Plans :
           call[t].plan = p /\ call[t].at # "idle" /\ CallInv(t) /\ PlanInv(p)
    BY <1>1, StepMoves, CallIsTyped DEF RuntimeInv
  <1>3. /\ ledger[p] = "IN_FLIGHT" /\ requests[p] = 0 /\ applied[p] = 0
        /\ p \notin inTransit /\ history[p] = "NONE" /\ Exists(p) /\ Claimed(p)
    BY <1>2 DEF Send, At, CallInv, PlanInv, Unresolved
  <1>4. PICK r \in Results :
           /\ DemoExecute(p, r) \/ HttpExecute(p, r)
           /\ call' = [call EXCEPT ![t].at = "store", ![t].result = r]
    BY <1>2 DEF Send
  <1>5. ledger' = ledger /\ claims' = claims /\ plans' = plans
    BY DEF Send, controlVars
  <1>6. /\ requests'[p] = 1
        /\ \A q \in Plans : q # p =>
             /\ requests'[q] = requests[q] /\ applied'[q] = applied[q]
             /\ history'[q] = history[q] /\ (q \in inTransit' <=> q \in inTransit)
    BY <1>3, <1>4, DataIsTyped DEF DemoExecute, HttpExecute
  <1>7. /\ applied'[p] \in {0, 1}
        /\ r = "SUCCEEDED" => applied'[p] = 1
        /\ r = "FAILED" => applied'[p] = 0 /\ p \notin inTransit'
        /\ p \in inTransit' => applied'[p] = 0 /\ history'[p] = "NONE"
        /\ history'[p] = "SUCCEEDED" => applied'[p] = 1
        /\ history'[p] = "FAILED" => applied'[p] = 0
        /\ history'[p] \in {"NONE", "SUCCEEDED", "FAILED"}
    <2>1. CASE HttpExecute(p, r)
      BY <1>3, <2>1, DataIsTyped DEF HttpExecute
    <2>2. CASE DemoExecute(p, r)
      <3>1. \/ \E outcome \in {"SUCCEEDED", "FAILED"} :
                 /\ r \in {outcome, "UNKNOWN"}
                 /\ history' = [history EXCEPT ![p] = outcome]
                 /\ applied' = [applied EXCEPT ![p] = IF outcome = "SUCCEEDED" THEN 1 ELSE @]
            \/ r = "UNKNOWN" /\ applied' = applied /\ history' = history
        BY <1>3, <2>2 DEF DemoExecute
      <3>2. inTransit' = inTransit
        BY <2>2 DEF DemoExecute
      <3> QED
        BY <1>3, <3>1, <3>2, DataIsTyped
    <2> QED
      BY <1>4, <2>1, <2>2
  <1>8. ASSUME NEW q \in Plans, q # p PROVE PlanInv(q)'
    BY <1>1, <1>5, <1>6, <1>8, PlanUntouched DEF Claimed
  <1>9. PlanInv(p)'
    BY <1>2, <1>3, <1>5, <1>6, <1>7 DEF PlanInv, Recorded, Exists, Claimed, Reported,
       Results, Unresolved, Terminal
  <1>10. CallInv(t)'
    <2>1. call'[t].at = "store" /\ call'[t].plan = p /\ call'[t].result = r
      BY <1>2, <1>4, DataIsTyped, CallIsTyped DEF Calls
    <2>2. Reported(p, r)'
      BY <1>7 DEF Reported
    <2> QED
      BY <1>3, <1>5, <2>1, <2>2 DEF CallInv, At, Exists
  <1> QED
    BY <1>1, <1>8, <1>9, <1>10, OneCallIsEnough

(* A transaction for plan p that leaves the claims and plans of others, and *)
(* keeps its own claim or ends an execution that is not open.               *)
LEMMA TransactionPreserves ==
    ASSUME RuntimeInv, [Next]_vars, NEW p \in Plans, UNCHANGED <<ledger, targetVars>>,
           \A q \in Plans : q # p => plans'[q] = plans[q] /\ (Claimed(q) => Claimed(q)'),
           \/ (Claimed(p) => Claimed(p)') /\ plans'[p] = plans[p]
           \/ ledger[p] \in Terminal /\ plans'[p].status = "EXECUTED"
           \/ ~Recorded(p)
    PROVE  \A q \in Plans : PlanInv(q)'
  <1>1. /\ ledger' = ledger /\ requests' = requests /\ applied' = applied
        /\ inTransit' = inTransit /\ history' = history
    BY DEF targetVars
  <1>2. ASSUME NEW q \in Plans, q # p PROVE PlanInv(q)'
    BY <1>1, <1>2, PlanUntouched
  <1>3. PlanInv(p)'
    <2>1. PlanInv(p) /\ (Exists(p) => Exists(p)')
      BY PlansStay DEF RuntimeInv
    <2>2. \A r : Reported(p, r)' <=> Reported(p, r)
      BY <1>1 DEF Reported
    <2>3. CASE (Claimed(p) => Claimed(p)') /\ plans'[p] = plans[p]
      BY <1>1, <2>3, PlanUntouched
    <2>4. CASE ledger[p] \in Terminal /\ plans'[p].status = "EXECUTED"
      BY <1>1, <2>1, <2>2, <2>4 DEF PlanInv, Recorded, Terminal, Unresolved
    <2>5. CASE ~Recorded(p)
      BY <1>1, <2>1, <2>2, <2>5 DEF PlanInv, Recorded, Unresolved, Terminal
    <2> QED
      BY <2>3, <2>4, <2>5
  <1> QED
    BY <1>2, <1>3

(* execution_finished with the status the ledger holds.                     *)
LEMMA FinishedPreserves ==
    ASSUME RuntimeInv, [Next]_vars, NEW p \in Plans, ExecutionFinished(p, ledger[p]),
           UNCHANGED <<ledger, targetVars>>
    PROVE  \A q \in Plans : PlanInv(q)'
  <1>1. CASE claims' = claims /\ plans' = plans
    BY <1>1, TransactionPreserves DEF Claimed
  <1>2. CASE /\ ledger[p] \in Terminal
             /\ claims' = [claims EXCEPT ![Target(p)] = IF @ = p THEN None ELSE @]
             /\ plans' = [plans EXCEPT ![p].status = "EXECUTED"]
    <2>1. Exists(p)
      BY DEF ExecutionFinished, FinishedOn
    <2>2. plans[p] \in PlanRecords
      BY <2>1, DataIsTyped DEF Exists, NoPlan
    <2>3. plans'[p].status = "EXECUTED"
      BY <1>2, <2>2, DataIsTyped DEF PlanRecords
    <2>4. ASSUME NEW q \in Plans, q # p
          PROVE  plans'[q] = plans[q] /\ (Claimed(q) => Claimed(q)')
      BY <1>2, <2>4, DataIsTyped, TargetIsService DEF Claimed
    <2> QED
      BY <1>2, <2>3, <2>4, TransactionPreserves
  <1> QED
    BY <1>1, <1>2 DEF ExecutionFinished, FinishedOn, Terminal

(* Steps that run one transaction of the control database.                  *)
LEMMA TransactionStepPreserves ==
    ASSUME RuntimeInv, NEW t \in Threads,
           \/ Settle(t) \/ Finish(t) \/ Handle(t) \/ Issue(t)
           \/ Status(t) \/ Resolve(t) \/ ReleaseStep(t)
    PROVE  (\A q \in Plans : PlanInv(q)') /\ (\A u \in Threads : CallInv(u)')
  <1>1. Step(t) /\ [Next]_vars /\ UNCHANGED <<ledger, targetVars>>
    BY DEF Settle, Finish, Handle, Issue, Status, Resolve, ReleaseStep, Step, Next
  <1>2. PICK p \in Plans :
           call[t].plan = p /\ call[t].at # "idle" /\ CallInv(t) /\ PlanInv(p)
    BY <1>1, StepMoves, CallIsTyped DEF RuntimeInv
  <1>3. ASSUME Return(t) PROVE CallInv(t)'
    BY <1>3, ReturnedCall DEF Return
  <1>4. CASE UNCHANGED controlVars
    <2>1. \A q \in Plans : PlanInv(q)'
      BY <1>1, <1>2, <1>4, TransactionPreserves DEF controlVars, Claimed
    <2>2. CASE Return(t)
      BY <1>1, <1>3, <2>1, <2>2, OneCallIsEnough
    <2>3. CASE Finish(t)
      <3>1. call'[t].at = "status" /\ call'[t].plan = p /\ call'[t].result = call[t].result
        BY <1>2, <2>3, NextPoint DEF Finish, Goto
      <3>2. CallInv(t)'
        BY <1>1, <1>2, <1>4, <2>3, <3>1 DEF CallInv, At, Finish, Exists, controlVars
      <3> QED
        BY <1>1, <2>1, <3>2, OneCallIsEnough
    <2>4. CASE Issue(t) /\ Goto(t, "record")
      <3>1. IssuePermit(p)
        BY <1>2, <2>4, RuntimeAssumption DEF Issue, Goto, Return, RuntimeInv,
           RuntimeTypeOK, Idle
      <3>2. claims[Target(p)] = None /\ claims' = [claims EXCEPT ![Target(p)] = p]
        BY <3>1 DEF IssuePermit
      <3>3. FALSE
        BY <1>4, <3>2, DataIsTyped, TargetIsService, IdentifiersAssumption DEF controlVars
      <3> QED
        BY <3>3
    <2> QED
      BY <2>2, <2>3, <2>4 DEF Settle, Finish, Handle, Issue, Status, Resolve, ReleaseStep
  <1>5. CASE Settle(t) \/ Handle(t)
    <2>1. Return(t) /\ (ExecutionFinished(p, ledger[p]) \/ UNCHANGED controlVars)
      BY <1>2, <1>5 DEF Settle, Handle
    <2> QED
      BY <1>1, <1>3, <1>4, <2>1, FinishedPreserves, OneCallIsEnough
  <1>6. CASE Finish(t)
    <2>1. ledger[p] = call[t].result /\ ExecutionFinished(p, ledger[p]) /\ Exists(p)
      BY <1>2, <1>6 DEF Finish, CallInv, At
    <2>2. \A q \in Plans : PlanInv(q)'
      BY <1>1, <2>1, FinishedPreserves
    <2>3. call'[t].at = "status" /\ call'[t].plan = p /\ call'[t].result = call[t].result
      BY <1>2, <1>6, NextPoint DEF Finish, Goto
    <2>4. CallInv(t)'
      BY <1>1, <2>1, <2>3, PlansStay DEF CallInv, At
    <2> QED
      BY <1>1, <2>2, <2>4, OneCallIsEnough
  <1>7. CASE Status(t) \/ Resolve(t)
    <2>1. Return(t) /\ claims' = claims /\ plans' = plans
      BY <1>7 DEF Status, CaseStatus, Resolve, ResolveVerifiedOperation
    <2>2. \A q \in Plans : PlanInv(q)'
      BY <1>1, <1>2, <2>1, TransactionPreserves DEF Claimed
    <2> QED
      BY <1>1, <1>3, <2>1, <2>2, OneCallIsEnough
  <1>8. CASE ReleaseStep(t) /\ ReleaseUnsent(p)
    <2>1. ~Recorded(p)
      BY <1>2, <1>8 DEF ReleaseStep, CallInv, At
    <2>2. /\ claims' = [claims EXCEPT ![Target(p)] = None] /\ Claimed(p)
          /\ plans' = [plans EXCEPT ![p].status = "REJECTED"]
      BY <1>8 DEF ReleaseUnsent, Claimed
    <2>3. ASSUME NEW q \in Plans, q # p
          PROVE  plans'[q] = plans[q] /\ (Claimed(q) => Claimed(q)')
      BY <2>2, <2>3, DataIsTyped, TargetIsService DEF Claimed
    <2>4. \A q \in Plans : PlanInv(q)'
      BY <1>1, <2>1, <2>3, TransactionPreserves
    <2> QED
      BY <1>1, <1>3, <1>8, <2>4, OneCallIsEnough DEF ReleaseStep
  <1>9. CASE Issue(t) /\ IssuePermit(p) /\ Goto(t, "record")
    <2>1. ~Recorded(p) /\ Exists(p)
      BY <1>2, <1>9 DEF Issue, CallInv, At
    <2>2. /\ claims[Target(p)] = None /\ claims' = [claims EXCEPT ![Target(p)] = p]
          /\ plans' = plans
      BY <1>9 DEF IssuePermit
    <2>3. ASSUME NEW q \in Plans, q # p
          PROVE  plans'[q] = plans[q] /\ (Claimed(q) => Claimed(q)')
      BY <2>2, <2>3, DataIsTyped, TargetIsService, IdentifiersAssumption DEF Claimed
    <2>4. \A q \in Plans : PlanInv(q)'
      BY <1>1, <2>1, <2>3, TransactionPreserves
    <2>5. Claimed(p)'
      BY <2>2, DataIsTyped, TargetIsService DEF Claimed
    <2>6. call'[t].at = "record" /\ call'[t].plan = p
      BY <1>2, <1>9, NextPoint DEF Goto
    <2>7. CallInv(t)'
      BY <1>1, <2>1, <2>2, <2>5, <2>6 DEF CallInv, At, Exists, Recorded
    <2> QED
      BY <1>1, <2>4, <2>7, OneCallIsEnough
  <1> QED
    BY <1>2, <1>4, <1>5, <1>6, <1>7, <1>8, <1>9 DEF Issue, ReleaseStep

(* Entering a call reads the ledger under the lock.                         *)
LEMMA BeginPreserves ==
    ASSUME RuntimeInv, NEW t \in Threads, NEW p \in Plans, Begin(t, p)
    PROVE  (\A q \in Plans : PlanInv(q)') /\ (\A u \in Threads : CallInv(u)')
  <1>1. [Next]_vars /\ OnlyLocal
    BY DEF Next, Begin, Execute, Reconcile, Verify, Release, EnterRelease
  <1>2. \A q \in Plans : PlanInv(q)'
    BY <1>1, PlanUntouched DEF OnlyLocal, controlVars, targetVars, Claimed
  <1>3. PICK point :
           /\ Enter(t, p, point)
           /\ \/ point = "prepare" /\ Exists(p) /\ ~Recorded(p)
              \/ point \in {"settle", "observe"} /\ Recorded(p)
              \/ point = "lookup" /\ ledger[p] = "UNKNOWN"
              \/ point = "release" /\ ~Recorded(p)
    BY DEF Begin, Execute, Reconcile, Verify, Release, EnterRelease
  <1>4. PlanInv(p) /\ Exists(p)' = Exists(p) /\ Recorded(p)' = Recorded(p) /\ ledger' = ledger
    BY <1>1 DEF RuntimeInv, OnlyLocal, controlVars, Exists, Recorded
  <1>5. /\ lock = None
        /\ call' = [call EXCEPT ![t] = [Idle EXCEPT !.at = point, !.plan = p]]
    BY <1>3 DEF Enter
  <1>6. call'[t].at = point /\ call'[t].plan = p
    BY <1>5, DataIsTyped DEF Idle
  <1>7. CallInv(t)'
    BY <1>3, <1>4, <1>6 DEF CallInv, At, PlanInv, Recorded
  <1>8. ASSUME NEW u \in Threads, u # t PROVE CallInv(u)'
    <2>1. call[u] = Idle
      BY <1>5, RuntimeAssumption DEF RuntimeInv, RuntimeTypeOK
    <2>2. call'[u] = Idle
      BY <1>5, <1>8, <2>1, DataIsTyped
    <2> QED
      BY <2>2 DEF CallInv, At, Idle
  <1> QED
    BY <1>2, <1>7, <1>8

(* Requests that take no lock, the clock, and the network: they interleave  *)
(* with a call at any point and cannot break what it has established.       *)
LEMMA OutsidePreserves ==
    ASSUME RuntimeInv, [Next]_vars, UNCHANGED <<ledger, localVars>>,
           \/ (Request \/ Clock) /\ UNCHANGED targetVars
           \/ \E p \in Plans : (Arrive(p) \/ Vanish(p)) /\ UNCHANGED controlVars
    PROVE  (\A q \in Plans : PlanInv(q)') /\ (\A u \in Threads : CallInv(u)')
  <1>1. /\ claims' = claims
        /\ \A q \in Plans : plans[q].status = "EXECUTED" => plans'[q].status = "EXECUTED"
    BY OutsideLeavesClaims DEF controlVars
  <1>2. requests' = requests /\ history' = history /\ ledger' = ledger /\ call' = call
    BY DEF targetVars, localVars, Arrive, Vanish
  <1>3. ASSUME NEW q \in Plans PROVE PlanInv(q)'
    <2>1. CASE UNCHANGED targetVars
      BY <1>1, <1>2, <2>1, PlanUntouched DEF Claimed, targetVars
    <2>2. ASSUME NEW p \in Plans, Arrive(p) \/ Vanish(p) PROVE PlanInv(q)'
      <3>1. CASE q # p
        <4>1. applied'[q] = applied[q] /\ (q \in inTransit' <=> q \in inTransit)
          BY <2>2, <3>1, DataIsTyped DEF Arrive, Vanish
        <4> QED
          BY <1>1, <1>2, <4>1, PlanUntouched DEF Claimed
      <3>2. CASE q = p
        <4>1. PlanInv(q) /\ (Exists(q) => Exists(q)') /\ q \in inTransit
          BY <2>2, <3>2, PlansStay DEF RuntimeInv, Arrive, Vanish
        <4>2. q \notin inTransit' /\ applied'[q] \in {0, 1}
          BY <2>2, <3>2, <4>1, DataIsTyped DEF Arrive, Vanish, PlanInv
        <4> QED
          BY <1>1, <1>2, <4>1, <4>2, DataIsTyped DEF PlanInv, Recorded, Claimed, Reported,
             Terminal, Results
      <3> QED
        BY <3>1, <3>2
    <2> QED
      BY <2>1, <2>2
  <1>4. ASSUME NEW u \in Threads, call[u].at # "idle" PROVE CallInv(u)'
    <2>1. PICK p \in Plans : call[u].plan = p
      BY <1>4, CallIsTyped
    <2>2. CallInv(u) /\ PlanInv(p) /\ PlanInv(p)' /\ (Exists(p) => Exists(p)')
      BY <1>3, PlansStay DEF RuntimeInv
    <2>3. Recorded(p)' = Recorded(p) /\ Claimed(p)' = Claimed(p)
      BY <1>1, <1>2 DEF Recorded, Claimed
    <2>4. ASSUME At(u, "store") \/ At(u, "reconciled")
          PROVE  Reported(p, call[u].result) => Reported(p, call[u].result)'
      <3>1. CASE UNCHANGED targetVars
        BY <3>1, <1>2 DEF Reported, targetVars
      <3>2. ASSUME NEW q \in Plans, Arrive(q) \/ Vanish(q),
                   Reported(p, call[u].result)
            PROVE  Reported(p, call[u].result)'
        <4>1. CASE p # q
          BY <1>2, <3>2, <4>1, DataIsTyped DEF Arrive, Vanish, Reported
        <4>2. CASE p = q
          BY <1>2, <2>2, <3>2, <4>2, DataIsTyped DEF Arrive, Vanish, Reported, PlanInv,
             Results
        <4> QED
          BY <4>1, <4>2
      <3> QED
        BY <3>1, <3>2
    <2> QED
      BY <1>2, <2>1, <2>2, <2>3, <2>4 DEF CallInv, At
  <1>5. ASSUME NEW u \in Threads, call[u].at = "idle" PROVE CallInv(u)'
    BY <1>2, <1>5 DEF CallInv, At
  <1> QED
    BY <1>3, <1>4, <1>5

(* A crash forgets the calls, and recovery marks what they left open.       *)
LEMMA CrashPreserves ==
    ASSUME RuntimeInv, Crash \/ Start
    PROVE  (\A q \in Plans : PlanInv(q)') /\ (\A u \in Threads : CallInv(u)')
  <1>1. [Next]_vars /\ UNCHANGED <<controlVars, targetVars>>
    BY DEF Next, Crash, Start, OnlyLocal
  <1>2. \A u \in Threads : call'[u] = Idle
    BY DEF RuntimeInv, Crash, Start
  <1>3. ASSUME ledger' = ledger PROVE \A q \in Plans : PlanInv(q)'
    BY <1>1, <1>3, PlanUntouched DEF Claimed, controlVars, targetVars
  <1>4. ASSUME RecoverInFlight, NEW q \in Plans PROVE PlanInv(q)'
    <2>1. CASE ledger[q] \notin {"PENDING", "IN_FLIGHT"}
      <3>1. ledger'[q] = ledger[q]
        BY <1>4, <2>1 DEF RecoverInFlight
      <3> QED
        BY <1>1, <3>1, PlanUntouched DEF Claimed, controlVars, targetVars
    <2>2. CASE ledger[q] \in {"PENDING", "IN_FLIGHT"}
      <3>1. ledger'[q] = "UNKNOWN"
        BY <1>4, <2>2 DEF RecoverInFlight
      <3>2. PlanInv(q)
        BY DEF RuntimeInv
      <3> QED
        BY <1>1, <2>2, <3>1, <3>2 DEF PlanInv, Recorded, Exists, Claimed, Unresolved,
           Terminal, Reported, controlVars, targetVars
    <2> QED
      BY <2>1, <2>2
  <1>5. \A u \in Threads : CallInv(u)'
    BY <1>2 DEF CallInv, At, Idle
  <1> QED
    BY <1>3, <1>4, <1>5 DEF Crash, Start, OnlyLocal

(* Every step preserves what ledger, claims, target and calls agree on.     *)
LEMMA AgreementPreserved ==
    ASSUME RuntimeInv, [Next]_vars
    PROVE  (\A q \in Plans : PlanInv(q)') /\ (\A u \in Threads : CallInv(u)')
  <1>1. CASE UNCHANGED vars
    <2>1. \A q \in Plans : PlanInv(q)'
      BY <1>1, PlanUntouched DEF vars, controlVars, targetVars, Claimed
    <2>2. ASSUME NEW u \in Threads PROVE CallInv(u)'
      <3>1. CallInv(u)
        BY DEF RuntimeInv
      <3> QED
        BY <1>1, <3>1 DEF CallInv, At, Exists, Recorded, Claimed, Reported, vars,
           controlVars, targetVars, localVars
    <2> QED
      BY <2>1, <2>2
  <1>2. ASSUME NEW t \in Threads, Step(t)
        PROVE  (\A q \in Plans : PlanInv(q)') /\ (\A u \in Threads : CallInv(u)')
    BY <1>2, LocalStepPreserves, LedgerStepPreserves, SendPreserves,
       TransactionStepPreserves DEF Step
  <1>3. ASSUME NEW t \in Threads, AccessFails(t)
        PROVE  (\A q \in Plans : PlanInv(q)') /\ (\A u \in Threads : CallInv(u)')
    BY <1>3, LocalStepPreserves
  <1>4. ASSUME NEW t \in Threads, NEW p \in Plans, Begin(t, p)
        PROVE  (\A q \in Plans : PlanInv(q)') /\ (\A u \in Threads : CallInv(u)')
    BY <1>4, BeginPreserves
  <1>5. CASE Crash \/ Start
    BY <1>5, CrashPreserves
  <1>6. CASE \/ Request /\ UNCHANGED <<ledger, targetVars, localVars>>
             \/ Clock /\ UNCHANGED <<ledger, targetVars, localVars>>
             \/ \E p \in Plans : /\ Arrive(p) \/ Vanish(p)
                                /\ UNCHANGED <<controlVars, ledger, localVars>>
    BY <1>6, OutsidePreserves
  <1> QED
    BY <1>1, <1>2, <1>3, <1>4, <1>5, <1>6 DEF Next

(* The tables of the runner and the target stay well typed.                 *)
LEMMA DataTypesPreserved == RuntimeInv /\ [Next]_vars => LedgerTypeOK' /\ TargetTypeOK'
  <1> SUFFICES ASSUME RuntimeInv, [Next]_vars PROVE LedgerTypeOK' /\ TargetTypeOK'
    OBVIOUS
  <1>1. LedgerTypeOK /\ TargetTypeOK
    BY DEF RuntimeInv, RuntimeTypeOK
  <1>2. CASE UNCHANGED <<ledger, targetVars>>
    BY <1>1, <1>2 DEF targetVars, LedgerTypeOK, TargetTypeOK
  <1>3. ASSUME NEW p \in Plans, NEW st \in LedgerStatuses,
               ledger' = [ledger EXCEPT ![p] = st], UNCHANGED targetVars
        PROVE  LedgerTypeOK' /\ TargetTypeOK'
    BY <1>1, <1>3 DEF targetVars, LedgerTypeOK, TargetTypeOK
  <1>4. ASSUME NEW t \in Threads,
               RecordStep(t) \/ Dispatch(t) \/ Deny(t) \/ StoreResult(t) \/ StoreReconciled(t)
        PROVE  LedgerTypeOK' /\ TargetTypeOK'
    <2>1. call[t].plan \in Plans /\ call[t].result \in Results \cup {"NONE"}
      BY <1>4, CallIsTyped DEF RecordStep, Dispatch, Deny, StoreResult, StoreReconciled, At
    <2>2. /\ UNCHANGED targetVars
          /\ \/ ledger' = ledger
             \/ \E st \in {"PENDING", "IN_FLIGHT", "FAILED", call[t].result} :
                  ledger' = [ledger EXCEPT ![call[t].plan] = st]
      BY <1>4 DEF RecordStep, RecordIntent, Dispatch, Deny, StoreResult, StoreReconciled, Store
    <2>3. {"PENDING", "IN_FLIGHT", "FAILED", call[t].result} \subseteq LedgerStatuses
      BY <2>1 DEF LedgerStatuses, Results, Terminal, Unresolved
    <2> QED
      BY <1>2, <1>3, <2>1, <2>2, <2>3
  <1>5. ASSUME NEW t \in Threads, Send(t) PROVE LedgerTypeOK' /\ TargetTypeOK'
    <2>1. PICK p \in Plans, r \in Results : DemoExecute(p, r) \/ HttpExecute(p, r)
      BY <1>5, CallIsTyped DEF Send, At
    <2>2. CASE HttpExecute(p, r)
      BY <1>1, <1>5, <2>2 DEF HttpExecute, Send, LedgerTypeOK, TargetTypeOK
    <2>3. CASE DemoExecute(p, r)
      <3>1. requests' \in [Plans -> Nat] /\ inTransit' \subseteq Plans
        BY <1>1, <2>3 DEF DemoExecute, TargetTypeOK
      <3>2. applied' \in [Plans -> Nat] /\ history' \in [Plans -> {"NONE", "SUCCEEDED", "FAILED"}]
        <4>1. CASE UNCHANGED <<applied, history>>
          BY <1>1, <4>1 DEF TargetTypeOK
        <4>2. ASSUME NEW outcome \in {"SUCCEEDED", "FAILED"},
                     history' = [history EXCEPT ![p] = outcome],
                     applied' = [applied EXCEPT ![p] = IF outcome = "SUCCEEDED" THEN 1 ELSE @]
              PROVE  /\ applied' \in [Plans -> Nat]
                     /\ history' \in [Plans -> {"NONE", "SUCCEEDED", "FAILED"}]
          BY <1>1, <4>2 DEF TargetTypeOK
        <4>3. history[p] \in {"NONE", "SUCCEEDED", "FAILED"}
          BY <1>1 DEF TargetTypeOK
        <4> QED
          BY <2>3, <4>1, <4>2, <4>3 DEF DemoExecute
      <3>3. ledger' = ledger
        BY <1>5 DEF Send
      <3> QED
        BY <1>1, <3>1, <3>2, <3>3 DEF LedgerTypeOK, TargetTypeOK
    <2> QED
      BY <2>1, <2>2, <2>3
  <1>6. ASSUME NEW p \in Plans, Arrive(p) \/ Vanish(p), ledger' = ledger
        PROVE  LedgerTypeOK' /\ TargetTypeOK'
    BY <1>1, <1>6 DEF Arrive, Vanish, LedgerTypeOK, TargetTypeOK
  <1>7. CASE Start
    <2>1. UNCHANGED targetVars
      BY <1>7 DEF Start
    <2>2. \A p \in Plans : ledger'[p] \in LedgerStatuses
      BY <1>1, <1>7 DEF Start, RecoverInFlight, LedgerTypeOK, LedgerStatuses, Unresolved
    <2>3. ledger' = [p \in Plans |-> IF ledger[p] \in {"PENDING", "IN_FLIGHT"} THEN "UNKNOWN"
                                    ELSE ledger[p]]
      BY <1>7 DEF Start, RecoverInFlight
    <2>4. ledger' \in [Plans -> LedgerStatuses]
      BY <2>2, <2>3
    <2> QED
      BY <1>1, <2>1, <2>4 DEF targetVars, LedgerTypeOK, TargetTypeOK
  <1>8. ASSUME NEW t \in Threads, Step(t)
        PROVE  LedgerTypeOK' /\ TargetTypeOK'
    <2>1. \/ UNCHANGED <<ledger, targetVars>>
          \/ RecordStep(t) \/ Dispatch(t) \/ Deny(t) \/ StoreResult(t) \/ StoreReconciled(t)
          \/ Send(t)
      BY <1>8 DEF Step, Settle, Prepare, Issue, Authorize, Recheck, Reauthorize, Finish,
         Status, Handle, LookupStep, Observe, ObserveThen, Resolve, ReleaseStep, OnlyLocal
    <2> QED
      BY <1>2, <1>4, <1>5, <2>1
  <1>9. ASSUME NEW t \in Threads, NEW p \in Plans, AccessFails(t) \/ Begin(t, p)
        PROVE  UNCHANGED <<ledger, targetVars>>
    BY <1>9 DEF AccessFails, Begin, Execute, Reconcile, Verify, Release, EnterRelease, OnlyLocal
  <1>10. ASSUME NEW t \in Threads, AccessFails(t) PROVE UNCHANGED <<ledger, targetVars>>
    BY <1>10 DEF AccessFails, OnlyLocal
  <1>11. CASE Crash
    BY <1>2, <1>11 DEF Crash, OnlyLocal
  <1> QED
    BY <1>2, <1>6, <1>7, <1>8, <1>9, <1>10, <1>11 DEF Next, vars

(* Before the first request nothing is recorded, sent or claimed.           *)
LEMMA InitRuntimeInv == RuntimeInit => RuntimeInv
  <1> SUFFICES ASSUME RuntimeInit PROVE RuntimeInv
    OBVIOUS
  <1>1. ControlInv /\ ControlTypeOK
    BY InitControlInv DEF RuntimeInit, ControlInv
  <1>2. RuntimeTypeOK
    BY <1>1, RuntimeAssumption DEF RuntimeInit, RunnerInit, TargetInit, RuntimeTypeOK,
       LedgerTypeOK, LedgerStatuses, TargetTypeOK
  <1>3. \A p \in Plans : PlanInv(p)
    BY DEF RuntimeInit, RunnerInit, TargetInit, PlanInv, Recorded, Unresolved, Terminal
  <1>4. \A t \in Threads : CallInv(t)
    BY DEF RuntimeInit, CallInv, At, Idle
  <1> QED
    BY <1>1, <1>2, <1>3, <1>4 DEF RuntimeInit, RuntimeInv

(* The invariant is inductive.                                              *)
LEMMA RuntimeInvPreserved == RuntimeInv /\ [Next]_vars => RuntimeInv'
  <1> SUFFICES ASSUME RuntimeInv, [Next]_vars PROVE RuntimeInv'
    OBVIOUS
  <1>1. ControlInv' /\ ControlTypeOK'
    BY ControlPartPreserved DEF ControlInv
  <1>2. RuntimeTypeOK'
    BY <1>1, LocalPreserved, DataTypesPreserved DEF LocalTypeOK, RuntimeTypeOK
  <1>3. ~up' => \A t \in Threads : call'[t] = Idle
    BY LocalPreserved DEF LocalTypeOK
  <1> QED
    BY <1>1, <1>2, <1>3, AgreementPreserved DEF RuntimeInv
-----------------------------------------------------------------------------
(* Ledger, claims, target and calls agree in every state the runtime can    *)
(* reach, with any crashes and failed accesses.                             *)
THEOREM RuntimeInvariant == Spec => []RuntimeInv
  <1> QED
    BY InitRuntimeInv, RuntimeInvPreserved, PTL DEF Spec

(* Well-typed tables, and one holder of the execution lock.                 *)
THEOREM RuntimeTypes == Spec => []RuntimeTypeOK
  <1>1. RuntimeInv => RuntimeTypeOK
    BY DEF RuntimeInv
  <1> QED
    BY <1>1, RuntimeInvariant, PTL

(* Execute, retry, reconcile, crash and restart together hand an operation  *)
(* to its target at most once, and it takes effect at most once.            *)
THEOREM OperationsAreSentOnce == Spec => []AtMostOnce
  <1>1. RuntimeInv => AtMostOnce
    BY DEF RuntimeInv, AtMostOnce, PlanInv
  <1> QED
    BY <1>1, RuntimeInvariant, PTL

(* The ledger database and the claims table, written in separate            *)
(* transactions, never disagree in the dangerous direction; and what may    *)
(* still arrive has an outcome that is open.                                *)
THEOREM UnresolvedPlansAreClaimed == Spec => []UnresolvedIsClaimed
  <1>1. RuntimeInv => UnresolvedIsClaimed
    BY DEF RuntimeInv, UnresolvedIsClaimed, PlanInv, Unresolved
  <1> QED
    BY <1>1, RuntimeInvariant, PTL

(* What the ledger says of an operation is true of the target.              *)
THEOREM LedgersAreHonest == Spec => []LedgerIsHonest
  <1>1. RuntimeInv => LedgerIsHonest
    BY DEF RuntimeInv, LedgerIsHonest, PlanInv, Reported, Terminal
  <1> QED
    BY <1>1, RuntimeInvariant, PTL

(* reject and release_unsent never bury an operation that was sent.         *)
THEOREM RejectedPlansWereNeverSent == Spec => []RejectedWasNeverSent
  <1>1. ASSUME RuntimeInv, NEW p \in Plans, plans[p].status = "REJECTED"
        PROVE  requests[p] = 0 /\ ~Recorded(p)
    <2>1. ~Claimed(p)
      BY <1>1, TargetIsService, IdentifiersAssumption
         DEF RuntimeInv, ControlInv, HeldPlanIsCurrent, Claimed
    <2> QED
      BY <1>1, <2>1 DEF RuntimeInv, PlanInv, Recorded
  <1>2. RuntimeInv => RejectedWasNeverSent
    BY <1>1 DEF RejectedWasNeverSent
  <1> QED
    BY <1>2, RuntimeInvariant, PTL

(* At the moment of sending, everything the approver reviewed still holds,  *)
(* although registrations, rejections and revocations take no lock.         *)
THEOREM OperationsAreSentAsReviewed == Spec => SentAsReviewed
  <1> DEFINE Reviewed ==
         \A p \in Plans : requests'[p] # requests[p] =>
            /\ ledger[p] = "IN_FLIGHT"
            /\ Claimed(p)
            /\ plans[p].status = "APPROVED" /\ plans[p].approver # plans[p].proposer
            /\ SameTarget(p)
            /\ checks[Target(p)] = plans[p].check
            /\ capabilities[Target(p)].kind = plans[p].kind
  <1>1. ASSUME RuntimeInv, [Next]_vars, NEW p \in Plans, requests'[p] # requests[p]
        PROVE  ledger[p] = "IN_FLIGHT" /\ Claimed(p)
    <2>1. PICK t \in Threads : Send(t)
      BY <1>1 DEF Next, vars, Step, Settle, Prepare, Issue, RecordStep, Dispatch, Authorize,
         Recheck, Reauthorize, Deny, StoreResult, Finish, Status, Handle, LookupStep,
         StoreReconciled, Observe, ObserveThen, Resolve, ReleaseStep, OnlyLocal, Begin,
         Execute, Reconcile, Verify, Release, EnterRelease, AccessFails, Crash, Start,
         Arrive, Vanish, targetVars
    <2>2. call[t].plan = p
      BY <1>1, <2>1, DataIsTyped DEF Send, DemoExecute, HttpExecute
    <2> QED
      BY <1>1, <2>1, <2>2 DEF RuntimeInv, CallInv, PlanInv, Send, At, Unresolved
  <1>2. ASSUME RuntimeInv, NEW p \in Plans, Claimed(p)
        PROVE  /\ plans[p].status = "APPROVED" /\ plans[p].approver # plans[p].proposer
               /\ SameTarget(p)
               /\ checks[Target(p)] = plans[p].check
               /\ capabilities[Target(p)].kind = plans[p].kind
    <2>1. /\ plans[p].status = "APPROVED" /\ plans[p].approver # plans[p].proposer
          /\ SameTarget(p)
      BY <1>2, TargetIsService, IdentifiersAssumption
         DEF RuntimeInv, ControlInv, HeldPlanIsCurrent, Claimed
    <2> QED
      BY <1>2, <2>1 DEF RuntimeInv, ControlInv, VersionPinsTarget, SameTarget, Exists
  <1>3. RuntimeInv /\ [Next]_vars => [Reviewed]_vars
    BY <1>1, <1>2
  <1> QED
    BY <1>3, RuntimeInvariant, PTL DEF Spec, SentAsReviewed

(* No step rewrites a definite outcome.                                     *)
LEMMA OutcomeStays ==
    ASSUME RuntimeInv, [Next]_vars, NEW p \in Plans, ledger[p] \in Terminal
    PROVE  ledger'[p] = ledger[p]
  <1>1. CASE ledger' = ledger
    BY <1>1
  <1>2. CASE RecoverInFlight
    BY <1>2 DEF RecoverInFlight, Terminal
  <1>3. ASSUME NEW t \in Threads, NEW st, ledger' = [ledger EXCEPT ![call[t].plan] = st],
               \/ RecordStep(t) \/ Dispatch(t) \/ Deny(t) \/ StoreResult(t)
               \/ StoreReconciled(t)
        PROVE  ledger'[p] = ledger[p]
    <2>1. CallInv(t)
      BY DEF RuntimeInv
    <2>2. ledger[call[t].plan] \notin Terminal
      BY <1>3, <2>1 DEF CallInv, At, RecordStep, Dispatch, Deny, StoreResult,
         StoreReconciled, Recorded, Terminal
    <2> QED
      BY <1>3, <2>2, DataIsTyped
  <1>4. \/ ledger' = ledger \/ RecoverInFlight
        \/ \E t \in Threads :
              \/ RecordStep(t) \/ Dispatch(t) \/ Deny(t) \/ StoreResult(t)
              \/ StoreReconciled(t)
    BY DEF Next, vars, Step, Settle, Prepare, Issue, Authorize, Recheck, Reauthorize,
       Send, Finish, Status, Handle, LookupStep, Observe, ObserveThen, Resolve,
       ReleaseStep, OnlyLocal, Begin, Execute, Reconcile, Verify, Release, EnterRelease,
       AccessFails, Crash, Start
  <1>5. ASSUME NEW t \in Threads,
               \/ RecordStep(t) \/ Dispatch(t) \/ Deny(t) \/ StoreResult(t)
               \/ StoreReconciled(t)
        PROVE  ledger' = ledger \/ \E st : ledger' = [ledger EXCEPT ![call[t].plan] = st]
    BY <1>5 DEF RecordStep, RecordIntent, Dispatch, Deny, StoreResult, StoreReconciled, Store
  <1> QED
    BY <1>1, <1>2, <1>3, <1>4, <1>5

(* No step rewrites a definite outcome: not a retry, not the recovery after *)
(* a restart, not a late reconciliation.                                    *)
THEOREM OutcomesAreFinal == Spec => OutcomeIsFinal
  <1> DEFINE Final == \A p \in Plans : ledger[p] \in Terminal => ledger'[p] = ledger[p]
  <1>1. RuntimeInv /\ [Next]_vars => [Final]_vars
    BY OutcomeStays
  <1> QED
    BY <1>1, RuntimeInvariant, PTL DEF Spec, OutcomeIsFinal
-----------------------------------------------------------------------------
(* Revocation. *)

(* A call goes on to another point with its plan, whatever else it notes.   *)
GoesTo(t, point) ==
    \/ call' = [call EXCEPT ![t].at = point]
    \/ \E k : call' = [call EXCEPT ![t].at = point, ![t].capability = k]
    \/ \E r : call' = [call EXCEPT ![t].at = point, ![t].result = r]

(* Nothing else about the call is lost.                                     *)
LEMMA PlanIsKept ==
    ASSUME RuntimeInv, NEW t \in Threads, call[t].at # "idle", NEW point, GoesTo(t, point)
    PROVE  call'[t].at = point /\ call'[t].plan = call[t].plan
  <1>1. call \in [Threads -> Calls \cup {Idle}] /\ call[t] \in Calls
    BY DataIsTyped, CallIsTyped
  <1>2. ASSUME NEW k, call' = [call EXCEPT ![t].at = point, ![t].capability = k]
        PROVE  call'[t].at = point /\ call'[t].plan = call[t].plan
    BY <1>1, <1>2 DEF Calls
  <1>3. ASSUME NEW r, call' = [call EXCEPT ![t].at = point, ![t].result = r]
        PROVE  call'[t].at = point /\ call'[t].plan = call[t].plan
    BY <1>1, <1>3 DEF Calls
  <1> QED
    BY <1>1, <1>2, <1>3 DEF Calls, GoesTo

(* A thread comes to the point of sending only by the second look at the    *)
(* permit, and to the point of closing a case only by a check that passed.  *)
LEMMA CallStep ==
    ASSUME RuntimeInv, NEW t \in Threads, Step(t) \/ AccessFails(t)
    PROVE  \/ call'[t] = Idle
           \/ /\ call'[t].plan = call[t].plan /\ call[t].plan \in Plans
              /\ At(t, "send")' => Reauthorize(t) /\ PermitHolds(call[t].plan)
              /\ At(t, "resolve")' => Observe(t)
  <1> DEFINE p == call[t].plan
  <1> DEFINE Goal ==
           \/ call'[t] = Idle
           \/ /\ call'[t].plan = p /\ p \in Plans
              /\ At(t, "send")' => Reauthorize(t) /\ PermitHolds(p)
              /\ At(t, "resolve")' => Observe(t)
  <1>1. call[t].at # "idle" /\ p \in Plans
    BY StepMoves, CallIsTyped
  <1>2. ASSUME call' = [call EXCEPT ![t] = Idle] PROVE Goal
    BY <1>2, DataIsTyped
  <1>3. ASSUME NEW point, GoesTo(t, point),
               point = "send" => Reauthorize(t) /\ PermitHolds(p),
               point = "resolve" => Observe(t)
        PROVE  Goal
    <2>1. call'[t].at = point /\ call'[t].plan = p
      BY <1>1, <1>3, PlanIsKept
    <2> QED
      BY <1>1, <1>3, <2>1 DEF At
  <1>4. CASE Settle(t) \/ Status(t) \/ Handle(t) \/ Resolve(t) \/ ReleaseStep(t)
    BY <1>2, <1>4 DEF Settle, Status, Handle, Resolve, ReleaseStep, Return
  <1>5. CASE Prepare(t) \/ Issue(t) \/ RecordStep(t)
    <2>1. Return(t) \/ GoesTo(t, "issue") \/ GoesTo(t, "record")
          \/ GoesTo(t, "dispatch") \/ GoesTo(t, "handle")
      BY <1>5 DEF Prepare, Issue, RecordStep, Goto, GoesTo
    <2> QED
      BY <1>2, <1>3, <2>1 DEF Return
  <1>6. CASE Dispatch(t) \/ Authorize(t) \/ Recheck(t) \/ Deny(t) \/ StoreResult(t)
             \/ Finish(t) \/ StoreReconciled(t)
    <2>1. PICK point \in {"authorize", "recheck", "reauthorize", "deny", "handle", "finish",
                          "status", "settle"} : GoesTo(t, point)
      BY <1>6 DEF Dispatch, Authorize, Recheck, Deny, StoreResult, Finish,
         StoreReconciled, Goto, GoesTo
    <2> QED
      BY <1>3, <2>1
  <1>7. CASE Reauthorize(t)
    <2>1. IF PermitHolds(p) THEN GoesTo(t, "send") ELSE GoesTo(t, "deny")
      BY <1>7 DEF Reauthorize, Goto, GoesTo
    <2> QED
      BY <1>3, <1>7, <2>1
  <1>8. CASE Send(t) \/ LookupStep(t)
    <2>1. GoesTo(t, "store") \/ GoesTo(t, "reconciled")
      BY <1>8 DEF Send, LookupStep, GoesTo
    <2> QED
      BY <1>3, <2>1
  <1>9. CASE Observe(t)
    <2>1. GoesTo(t, "resolve") \/ call' = [call EXCEPT ![t] = Idle]
      BY <1>9 DEF Observe, ObserveThen, GoesTo
    <2> QED
      BY <1>2, <1>3, <1>9, <2>1
  <1>10. CASE AccessFails(t)
    <2>1. \/ GoesTo(t, "handle") \/ GoesTo(t, "deny") \/ GoesTo(t, "reconciled")
          \/ call' = [call EXCEPT ![t] = Idle]
      BY <1>10 DEF AccessFails, GoesTo
    <2> QED
      BY <1>2, <1>3, <2>1
  <1> QED
    BY <1>4, <1>5, <1>6, <1>7, <1>8, <1>9, <1>10 DEF Step

(* The same for any step of the system.                                     *)
LEMMA PointStep ==
    ASSUME RuntimeInv, [Next]_vars, NEW t \in Threads,
           call'[t].at \in {"send", "resolve"}
    PROVE  \/ call'[t] = call[t]
           \/ /\ call'[t].plan = call[t].plan /\ call[t].plan \in Plans
              /\ At(t, "send")' => Reauthorize(t) /\ PermitHolds(call[t].plan)
              /\ At(t, "resolve")' => Observe(t)
  <1>1. CASE call' = call
    BY <1>1
  <1>2. CASE \E u \in Threads : Step(u) \/ AccessFails(u)
    <2>1. PICK u \in Threads : Step(u) \/ AccessFails(u)
      BY <1>2
    <2>2. CASE u = t
      BY <2>1, <2>2, CallStep DEF Idle
    <2>3. CASE u # t
      BY <2>1, <2>3, StepMoves, DataIsTyped DEF Moves
    <2> QED
      BY <2>2, <2>3
  <1>3. ASSUME NEW u \in Threads, NEW q \in Plans, Begin(u, q)
        PROVE  call'[t] = call[t]
    <2>1. PICK point \in {"settle", "prepare", "lookup", "observe", "release"} :
             call' = [call EXCEPT ![u] = [Idle EXCEPT !.at = point, !.plan = q]]
      BY <1>3 DEF Begin, Execute, Reconcile, Verify, Release, EnterRelease, Enter
    <2>2. u # t
      BY <2>1, DataIsTyped DEF Idle
    <2> QED
      BY <2>1, <2>2, DataIsTyped
  <1>4. CASE Crash
    BY <1>4 DEF Crash, Idle
  <1> QED
    BY <1>1, <1>2, <1>3, <1>4 DEF Next, vars, localVars, Start

(* A permit in force is of the generation its plan was approved in.         *)
PermitIsOfApproval ==
    \A p \in Plans : permits[p].life = "LIVE" =>
        /\ plans[p].status \notin {"NONE", "DRAFT"}
        /\ permits[p].generation = plans[p].generation

(* Only an approval sets the generation of a plan, and it needs a draft.    *)
LEMMA PermitIsOfApprovalPreserved ==
    ASSUME ControlInv, [ControlNext]_controlVars, PermitIsOfApproval
    PROVE  PermitIsOfApproval'
  <1> SUFFICES ASSUME NEW p \in Plans, permits'[p].life = "LIVE"
               PROVE  /\ plans'[p].status \notin {"NONE", "DRAFT"}
                      /\ permits'[p].generation = plans'[p].generation
    BY DEF PermitIsOfApproval
  <1>1. /\ plans \in [Plans -> PlanRecords \cup {NoPlan}]
        /\ permits \in [Plans -> [life : {"NONE", "LIVE", "EXPIRED"}, generation : Nat]]
    BY DEF ControlInv, ControlTypeOK
  <1>2. CASE UNCHANGED controlVars
    BY <1>2 DEF controlVars, PermitIsOfApproval
  <1>3. ASSUME permits[p].life = "LIVE", permits'[p] = permits[p], ControlNext
        PROVE  /\ plans'[p].status \notin {"NONE", "DRAFT"}
               /\ permits'[p].generation = plans'[p].generation
    <2>1. plans[p].status \notin {"NONE", "DRAFT"} /\ plans[p] \in PlanRecords
          /\ permits[p].generation = plans[p].generation
      BY <1>1, <1>3 DEF PermitIsOfApproval, NoPlan
    <2>2. ASSUME NEW q \in Plans, NEW a \in Actors, CreatePlan(q, a) \/ Approve(q, a)
          PROVE  plans'[p] = plans[p]
      <3>1. q # p
        BY <2>1, <2>2 DEF CreatePlan, DraftPlan, Approve
      <3> QED
        BY <1>1, <2>2, <3>1 DEF CreatePlan, DraftPlan, Approve
    <2>3. ASSUME NEW q \in Plans, NEW st \in {"REJECTED", "EXECUTED"},
                 plans' = [plans EXCEPT ![q].status = st]
          PROVE  plans'[p].status \notin {"NONE", "DRAFT"}
                 /\ plans'[p].generation = plans[p].generation
      BY <1>1, <2>1, <2>3 DEF PlanRecords
    <2> QED
      BY <1>3, <2>1, <2>2, <2>3, PlansStep
  <1>4. ASSUME NEW q \in Plans, IssuePermit(q)
        PROVE  permits'[p] = permits[p] \/ q = p
    BY <1>1, <1>4 DEF IssuePermit
  <1>5. CASE IssuePermit(p)
    BY <1>1, <1>5 DEF IssuePermit, Permitted, Authorized
  <1>6. ASSUME NEW q \in Plans, ExpirePlan(q) \/ ExpirePermit(q)
        PROVE  permits'[p] = permits[p]
    BY <1>1, <1>6 DEF ExpirePlan, ExpirePermit
  <1>7. ASSUME ControlNext
        PROVE  \/ permits' = permits
               \/ \E q \in Plans : IssuePermit(q) \/ ExpirePlan(q) \/ ExpirePermit(q)
    BY <1>7 DEF ControlNext, Request, RegisterService, PutService, RegisterCapability,
       PutCapability, SetCheck, AddFinding, CreatePlan, DraftPlan, Approve,
       Reject, PutRejected, AdvanceGeneration, AcknowledgeRestore, Clock, RuntimeCall,
       ExecutionFinished, FinishedOn, CaseStatus, ResolveVerifiedOperation, ReleaseUnsent
  <1> QED
    BY <1>2, <1>3, <1>4, <1>5, <1>6, <1>7

LEMMA PermitsAreOfApprovals == Spec => []PermitIsOfApproval
  <1>1. RuntimeInit => PermitIsOfApproval
    BY DEF RuntimeInit, ControlInit, PermitIsOfApproval, NoPermit
  <1>2. RuntimeInv /\ [Next]_vars /\ PermitIsOfApproval => PermitIsOfApproval'
    BY StepIsTransaction, PermitIsOfApprovalPreserved DEF RuntimeInv
  <1> QED
    BY <1>1, <1>2, RuntimeInvariant, PTL DEF Spec

(* Revocation and expiry stop every plan that is not past its last look at  *)
(* the permit: a permit holds only in the generation of its approval.       *)
THEOREM RevokedPlansAreNotSent == Spec => RevokedIsNotSent
  <1> DEFINE Stopped == \A p \in Plans :
               (~Authorized(p) \/ p \in expired) /\ ~AboutToSend(p) =>
                   ~AboutToSend(p)' /\ requests'[p] = requests[p]
  <1>1. ASSUME RuntimeInv, PermitIsOfApproval, [Next]_vars, NEW p \in Plans,
               ~Authorized(p) \/ p \in expired, ~AboutToSend(p)
        PROVE  ~AboutToSend(p)' /\ requests'[p] = requests[p]
    <2>1. ASSUME AboutToSend(p)' PROVE FALSE
      <3>1. PICK t \in Threads : At(t, "send")' /\ call'[t].plan = p
        BY <2>1 DEF AboutToSend
      <3>2. Reauthorize(t) /\ PermitHolds(p)
        BY <1>1, <3>1, PointStep DEF AboutToSend, At
      <3> QED
        BY <1>1, <3>2 DEF PermitHolds, Authorized, Current, PermitIsOfApproval
    <2>2. \/ requests' = requests
          \/ \E t \in Threads : Send(t)
      BY <1>1 DEF Next, vars, targetVars, Step, Settle, Prepare, Issue, RecordStep, Dispatch,
         Authorize, Recheck, Reauthorize, Deny, StoreResult, Finish, Status, Handle,
         LookupStep, StoreReconciled, Observe, ObserveThen, Resolve, ReleaseStep, OnlyLocal,
         Begin, Execute, Reconcile, Verify, Release, EnterRelease, AccessFails, Crash, Start,
         Arrive, Vanish
    <2>3. ASSUME NEW t \in Threads, Send(t) PROVE requests'[p] = requests[p]
      <3>1. call[t].plan # p
        BY <1>1, <2>3 DEF AboutToSend, Send, At
      <3> QED
        BY <1>1, <2>3, <3>1, DataIsTyped DEF Send, DemoExecute, HttpExecute
    <2> QED
      BY <2>1, <2>2, <2>3
  <1>2. RuntimeInv /\ PermitIsOfApproval /\ [Next]_vars => [Stopped]_vars
    BY <1>1
  <1> QED
    BY <1>2, RuntimeInvariant, PermitsAreOfApprovals, PTL DEF Spec, RevokedIsNotSent
-----------------------------------------------------------------------------
(* Closing cases. *)

(* Cases are changed by requests, and by the calls that set a status.       *)
LEMMA CasesChange ==
    ASSUME [Next]_vars
    PROVE  \/ cases' = cases \/ Request
           \/ \E t \in Threads : Status(t) \/ Resolve(t)
  BY ZenonT(30) DEF Next, vars, controlVars, Clock, ExpirePlan, ExpirePermit, Step, Settle, Prepare,
     Issue, IssuePermit, RecordStep, Dispatch, Authorize, Recheck, Reauthorize, Deny, Send,
     StoreResult, Finish, Handle, LookupStep, StoreReconciled, Observe, ObserveThen,
     ReleaseStep, ReleaseUnsent, ExecutionFinished, FinishedOn, OnlyLocal, Begin, Execute,
     Reconcile, Verify, Release, EnterRelease, AccessFails, Crash, Start

(* A case is closed only by resolve_verified_operation.                     *)
LEMMA ClosingStep ==
    ASSUME RuntimeInv, [Next]_vars, NEW c \in Cases,
           cases'[c].status = "RESOLVED", cases[c].status # "RESOLVED"
    PROVE  \E t \in Threads : /\ Resolve(t) /\ call[t].plan \in Plans
                              /\ CaseOf[call[t].plan] = c /\ Covers(call[t].plan)
  <1>1. cases \in [Cases -> [status : CaseStatuses \cup {"NONE"}, received : Nat]]
    BY DEF RuntimeInv, ControlInv, ControlTypeOK
  <1>2. ASSUME Request PROVE FALSE
    <2>1. ASSUME NEW q \in Cases, AddFinding(q) PROVE FALSE
      BY <1>1, <2>1 DEF AddFinding
    <2>2. ASSUME NEW p \in Plans, NEW a \in Actors, CreatePlan(p, a) PROVE FALSE
      <3>1. cases' = [cases EXCEPT ![CaseOf[p]].status = "AWAITING_APPROVAL"]
        BY <2>2 DEF CreatePlan, DraftPlan
      <3> QED
        BY <1>1, <3>1
    <2> QED
      BY <1>2, <2>1, <2>2 DEF Request, RegisterService, PutService, RegisterCapability,
         PutCapability, SetCheck, Approve, Reject, PutRejected, AdvanceGeneration,
         AcknowledgeRestore
  <1>3. ASSUME NEW t \in Threads, Status(t) PROVE FALSE
    <2>1. cases' = [cases EXCEPT ![CaseOf[call[t].plan]].status = StatusAfter(call[t].result)]
      BY <1>3 DEF Status, CaseStatus
    <2> QED
      BY <1>1, <2>1 DEF StatusAfter
  <1>4. ASSUME NEW t \in Threads, Resolve(t)
        PROVE  /\ call[t].plan \in Plans
               /\ CaseOf[call[t].plan] = c /\ Covers(call[t].plan)
    <2>1. call[t].plan \in Plans
      BY <1>4, CallIsTyped DEF Resolve, At
    <2> QED
      BY <1>1, <1>4, <2>1 DEF Resolve, ResolveVerifiedOperation
  <1>5. \/ cases' = cases \/ Request
        \/ \E t \in Threads : Status(t) \/ Resolve(t)
    BY CasesChange
  <1> QED
    BY <1>2, <1>3, <1>4, <1>5

(* A thread that is about to close a case has stored a check of its plan    *)
(* that passed when the success was known.                                  *)
ClosingInv ==
    \A t \in Threads : At(t, "resolve") =>
        verification[call[t].plan] = [result |-> "PASS", outcome |-> "SUCCEEDED"]

(* Only verify stores checks.                                               *)
LEMMA ChecksChange ==
    ASSUME [Next]_vars
    PROVE  verification' = verification \/ \E t \in Threads : Observe(t)
  BY ZenonT(30) DEF Next, vars, localVars, Step, Settle, Prepare, Issue, RecordStep, Dispatch,
     Authorize, Recheck, Reauthorize, Deny, Send, StoreResult, Finish, Status, Handle,
     LookupStep, StoreReconciled, Resolve, ReleaseStep, Goto, Return, Enter,
     Begin, Execute, Reconcile, Verify, Release, EnterRelease, AccessFails, Crash, Start

(* No other thread stores a check before the case is closed.                *)
LEMMA ClosingInvPreserved ==
    ASSUME RuntimeInv, [Next]_vars, ClosingInv
    PROVE  ClosingInv'
  <1> SUFFICES ASSUME NEW t \in Threads, At(t, "resolve")'
               PROVE  verification'[call'[t].plan]
                        = [result |-> "PASS", outcome |-> "SUCCEEDED"]
    BY DEF ClosingInv
  <1>1. CASE call'[t] = call[t]
    <2>1. At(t, "resolve") /\ call[t].at # "idle"
      BY <1>1 DEF At
    <2>2. ASSUME NEW u \in Threads, Observe(u) PROVE FALSE
      <3>1. At(u, "observe") /\ u # t
        BY <2>1, <2>2 DEF Observe, ObserveThen, At
      <3>2. call[u] = Idle
        BY <2>1, <3>1, OthersAreIdle
      <3> QED
        BY <3>1, <3>2 DEF At, Idle
    <2>3. verification' = verification
      BY <2>2, ChecksChange
    <2> QED
      BY <1>1, <2>1, <2>3 DEF ClosingInv
  <1>2. CASE Observe(t) /\ call'[t].plan = call[t].plan /\ call[t].plan \in Plans
    <2>1. PICK r \in CheckResults :
            /\ verification' = [verification EXCEPT ![call[t].plan] =
                                  [result |-> r, outcome |-> ledger[call[t].plan]]]
            /\ IF r \in {"PASS"} /\ ledger[call[t].plan] \in {"SUCCEEDED"}
               THEN call' = [call EXCEPT ![t].at = "resolve"] /\ UNCHANGED lock
               ELSE call' = [call EXCEPT ![t] = Idle] /\ lock' = None
      BY <1>2 DEF Observe, ObserveThen
    <2>2. r = "PASS" /\ ledger[call[t].plan] = "SUCCEEDED"
      BY <2>1, DataIsTyped DEF At, Idle
    <2>3. verification \in [Plans -> Checks \cup {NoCheck}]
      BY DEF RuntimeInv, RuntimeTypeOK
    <2> QED
      BY <1>2, <2>1, <2>2, <2>3
  <1> QED
    BY <1>1, <1>2, PointStep DEF At

(* A case is closed only on a check that passed after the success of a plan *)
(* that covers its evidence, and not kept closed over new evidence.         *)
THEOREM ResolvedCasesWereVerified == Spec => ResolvedWasVerified
  <1> DEFINE Verified == \A c \in Cases : cases'[c].status = "RESOLVED" =>
               IF cases[c].status = "RESOLVED" THEN cases'[c].received = cases[c].received
               ELSE \E p \in Plans : CaseOf[p] = c /\ ClosedAfter(p)'
  <1>1. ASSUME RuntimeInv, ClosingInv, [Next]_vars, NEW c \in Cases,
               cases'[c].status = "RESOLVED", cases[c].status = "RESOLVED"
        PROVE  cases'[c].received = cases[c].received
    <2>1. CASE UNCHANGED controlVars
      BY <2>1 DEF controlVars
    <2>2. CASE ControlNext
      BY <1>1, <2>2, CasesStep DEF RuntimeInv
    <2> QED
      BY <1>1, <2>1, <2>2, StepIsTransaction
  <1>2. ASSUME RuntimeInv, ClosingInv, [Next]_vars, NEW c \in Cases,
               cases'[c].status = "RESOLVED", cases[c].status # "RESOLVED"
        PROVE  \E p \in Plans : CaseOf[p] = c /\ ClosedAfter(p)'
    <2>1. PICK t \in Threads : /\ Resolve(t) /\ call[t].plan \in Plans
                              /\ CaseOf[call[t].plan] = c /\ Covers(call[t].plan)
      BY <1>2, ClosingStep
    <2> PICK p \in Plans : p = call[t].plan
      BY <2>1
    <2>2. At(t, "resolve") /\ CallInv(t)
      BY <1>2, <2>1 DEF Resolve, RuntimeInv
    <2>3. Exists(p) /\ ledger[p] = "SUCCEEDED" /\ CaseOf[p] = c /\ Covers(p)
      BY <2>1, <2>2 DEF CallInv, At
    <2>4. verification[p] = [result |-> "PASS", outcome |-> "SUCCEEDED"]
      BY <1>2, <2>2 DEF ClosingInv
    <2>5. /\ plans' = plans /\ ledger' = ledger /\ verification' = verification
          /\ cases' = [cases EXCEPT ![c].status = "RESOLVED"]
      BY <2>1 DEF Resolve, ResolveVerifiedOperation, Return
    <2>6. cases'[c].received = cases[c].received
      <3>1. cases \in [Cases -> [status : CaseStatuses \cup {"NONE"}, received : Nat]]
        BY <1>2 DEF RuntimeInv, ControlInv, ControlTypeOK
      <3> QED
        BY <2>5, <3>1
    <2>7. Exists(p)' /\ Covers(p)'
      <3>1. Exists(p)'
        BY <2>3, <2>5 DEF Exists
      <3>2. Covers(p)'
        BY <2>3, <2>5, <2>6 DEF Covers, EvidenceIds
      <3> QED
        BY <3>1, <3>2
    <2>8. ClosedAfter(p)'
      BY <2>3, <2>4, <2>5, <2>7 DEF ClosedAfter
    <2> QED
      BY <2>3, <2>8
  <1>3. RuntimeInv /\ ClosingInv /\ [Next]_vars => [Verified]_vars
    BY <1>1, <1>2
  <1>4. RuntimeInit => ClosingInv
    BY DEF RuntimeInit, ClosingInv, At, Idle
  <1>5. RuntimeInv /\ [Next]_vars /\ ClosingInv => ClosingInv'
    BY ClosingInvPreserved
  <1> QED
    BY <1>3, <1>4, <1>5, RuntimeInvariant, PTL DEF Spec, ResolvedWasVerified

(* From its permit to the status it leaves, an execution is at these.       *)
Executing == {"record", "dispatch", "authorize", "recheck", "reauthorize", "send", "store",
              "finish", "status"}

(* An execution gets there by a permit, and then keeps its plan.            *)
LEMMA ExecutingCall ==
    ASSUME RuntimeInv, NEW t \in Threads, Step(t) \/ AccessFails(t),
           call'[t].at \in Executing
    PROVE  /\ call'[t].plan = call[t].plan /\ call[t].plan \in Plans
           /\ call[t].at \in Executing \/ IssuePermit(call[t].plan)
  <1> DEFINE p == call[t].plan
  <1> DEFINE Goal == /\ call'[t].plan = p /\ p \in Plans
                     /\ call[t].at \in Executing \/ IssuePermit(p)
  <1>1. call[t].at # "idle" /\ p \in Plans
    BY StepMoves, CallIsTyped
  <1>2. ASSUME call' = [call EXCEPT ![t] = Idle] PROVE FALSE
    BY <1>2, DataIsTyped DEF Idle, Executing
  <1>3. ASSUME NEW point, GoesTo(t, point),
               point \in Executing => call[t].at \in Executing \/ IssuePermit(p)
        PROVE  Goal
    BY <1>1, <1>3, PlanIsKept
  <1>4. CASE Settle(t) \/ Status(t) \/ Handle(t) \/ Resolve(t) \/ ReleaseStep(t)
    BY <1>2, <1>4 DEF Settle, Status, Handle, Resolve, ReleaseStep, Return
  <1>5. CASE Prepare(t)
    <2>1. Return(t) \/ GoesTo(t, "issue")
      BY <1>5 DEF Prepare, GoesTo
    <2> QED
      BY <1>2, <1>3, <2>1 DEF Return, Executing
  <1>6. CASE Issue(t)
    <2>1. Return(t) \/ (GoesTo(t, "record") /\ IssuePermit(p))
      BY <1>6 DEF Issue, Goto, GoesTo
    <2> QED
      BY <1>2, <1>3, <2>1 DEF Return
  <1>7. CASE \/ RecordStep(t) \/ Dispatch(t) \/ Authorize(t) \/ Recheck(t) \/ Reauthorize(t)
             \/ Send(t) \/ StoreResult(t) \/ Finish(t)
    <2>1. call[t].at \in Executing
      BY <1>7 DEF RecordStep, Dispatch, Authorize, Recheck, Reauthorize, Send, StoreResult,
         Finish, At, Executing
    <2>2. \E point : GoesTo(t, point)
      BY <1>7 DEF RecordStep, Dispatch, Authorize, Recheck, Reauthorize, Send, StoreResult,
         Finish, Goto, GoesTo
    <2> QED
      BY <1>3, <2>1, <2>2
  <1>8. CASE Deny(t) \/ LookupStep(t) \/ StoreReconciled(t)
    <2>1. GoesTo(t, "handle") \/ GoesTo(t, "reconciled") \/ GoesTo(t, "settle")
      BY <1>8 DEF Deny, LookupStep, StoreReconciled, Goto, GoesTo
    <2> QED
      BY <1>3, <2>1 DEF Executing
  <1>9. CASE Observe(t)
    <2>1. GoesTo(t, "resolve") \/ call' = [call EXCEPT ![t] = Idle]
      BY <1>9 DEF Observe, ObserveThen, GoesTo
    <2> QED
      BY <1>2, <1>3, <2>1 DEF Executing
  <1>10. CASE AccessFails(t)
    <2>1. \/ GoesTo(t, "handle") \/ GoesTo(t, "deny") \/ GoesTo(t, "reconciled")
          \/ call' = [call EXCEPT ![t] = Idle]
      BY <1>10 DEF AccessFails, GoesTo
    <2> QED
      BY <1>2, <1>3, <2>1 DEF Executing
  <1> QED
    BY <1>4, <1>5, <1>6, <1>7, <1>8, <1>9, <1>10 DEF Step

(* The same for any step of the system.                                     *)
LEMMA ExecutingStep ==
    ASSUME RuntimeInv, [Next]_vars, NEW t \in Threads, call'[t].at \in Executing
    PROVE  \/ call'[t] = call[t]
           \/ /\ call'[t].plan = call[t].plan /\ call[t].plan \in Plans
              /\ call[t].at \in Executing \/ IssuePermit(call[t].plan)
  <1>1. CASE call' = call
    BY <1>1
  <1>2. CASE \E u \in Threads : Step(u) \/ AccessFails(u)
    <2>1. PICK u \in Threads : Step(u) \/ AccessFails(u)
      BY <1>2
    <2>2. CASE u = t
      BY <2>1, <2>2, ExecutingCall
    <2>3. CASE u # t
      BY <2>1, <2>3, StepMoves, DataIsTyped DEF Moves
    <2> QED
      BY <2>2, <2>3
  <1>3. ASSUME NEW u \in Threads, NEW q \in Plans, Begin(u, q)
        PROVE  call'[t] = call[t]
    <2>1. PICK point \in {"settle", "prepare", "lookup", "observe", "release"} :
             call' = [call EXCEPT ![u] = [Idle EXCEPT !.at = point, !.plan = q]]
      BY <1>3 DEF Begin, Execute, Reconcile, Verify, Release, EnterRelease, Enter
    <2>2. u # t
      BY <2>1, DataIsTyped DEF Idle, Executing
    <2> QED
      BY <2>1, <2>2, DataIsTyped
  <1>4. CASE Crash
    BY <1>4 DEF Crash, Idle, Executing
  <1> QED
    BY <1>1, <1>2, <1>3, <1>4 DEF Next, vars, localVars, Start

(* The case of an execution is not closed under it.                         *)
CaseIsOpen ==
    \A t \in Threads : call[t].at \in Executing =>
        cases[CaseOf[call[t].plan]].status # "RESOLVED"

(* Its permit needs an open case, and who closes one has the lock.          *)
LEMMA CaseIsOpenPreserved ==
    ASSUME RuntimeInv, [Next]_vars, CaseIsOpen
    PROVE  CaseIsOpen'
  <1> SUFFICES ASSUME NEW t \in Threads, call'[t].at \in Executing,
                      cases'[CaseOf[call'[t].plan]].status = "RESOLVED"
               PROVE  FALSE
    BY DEF CaseIsOpen
  <1> DEFINE p == call'[t].plan
  <1>1. call'[t] = call[t] \/ call[t].plan = p
    BY ExecutingStep
  <1>2. p \in Plans /\ CaseOf[p] \in Cases
    <2>1. (p = call[t].plan /\ call[t].at # "idle") \/ p \in Plans
      BY ExecutingStep DEF Executing
    <2> QED
      BY <2>1, CallIsTyped, IdentifiersAssumption
  <1>3. cases[CaseOf[p]].status # "RESOLVED"
    <2>1. call[t].at \in Executing \/ IssuePermit(p)
      BY ExecutingStep
    <2> QED
      BY <1>1, <2>1 DEF CaseIsOpen, IssuePermit, Permitted, Current
  <1>4. PICK u \in Threads : Resolve(u)
    BY <1>2, <1>3, ClosingStep
  <1>5. call'[u] = Idle /\ (u # t => call'[t] = call[t])
    BY <1>4, DataIsTyped DEF Resolve, Return
  <1>6. u # t /\ call[t] # Idle /\ call[u] # Idle
    BY <1>4, <1>5 DEF Idle, Executing, Resolve, At
  <1> QED
    BY <1>4, <1>6 DEF RuntimeInv, RuntimeTypeOK

(* A closed case is reopened by new evidence only: the status an execution  *)
(* leaves is never written over a closure.                                  *)
THEOREM CasesAreReopenedByEvidence == Spec => ReopenedByEvidence
  <1> DEFINE Reopened == \A c \in Cases :
               cases[c].status = "RESOLVED" /\ cases'[c].status # "RESOLVED" =>
                   cases'[c].received > cases[c].received
  <1>1. ASSUME RuntimeInv, CaseIsOpen, [Next]_vars, NEW c \in Cases,
               cases[c].status = "RESOLVED", cases'[c].status # "RESOLVED"
        PROVE  cases'[c].received > cases[c].received
    <2>1. cases \in [Cases -> [status : CaseStatuses \cup {"NONE"}, received : Nat]]
      BY <1>1 DEF RuntimeInv, ControlInv, ControlTypeOK
    <2>2. CASE Request
      <3>1. ASSUME NEW d \in Cases, AddFinding(d)
            PROVE  cases'[c].received > cases[c].received
        BY <1>1, <2>1, <3>1 DEF AddFinding
      <3>2. ASSUME NEW p \in Plans, NEW a \in Actors, CreatePlan(p, a) PROVE FALSE
        <4>1. /\ cases' = [cases EXCEPT ![CaseOf[p]].status = "AWAITING_APPROVAL"]
              /\ cases[CaseOf[p]].status # "RESOLVED"
          BY <3>2 DEF CreatePlan, DraftPlan
        <4> QED
          BY <1>1, <2>1, <4>1
      <3> QED
        BY <1>1, <2>2, <3>1, <3>2 DEF Request, RegisterService, PutService,
           RegisterCapability, PutCapability, SetCheck, Approve, Reject, PutRejected,
           AdvanceGeneration, AcknowledgeRestore
    <2>3. ASSUME NEW t \in Threads, Status(t) PROVE FALSE
      <3>1. cases[CaseOf[call[t].plan]].status # "RESOLVED"
        BY <1>1, <2>3 DEF CaseIsOpen, Executing, Status, At
      <3>2. cases' = [cases EXCEPT ![CaseOf[call[t].plan]].status = StatusAfter(call[t].result)]
        BY <2>3 DEF Status, CaseStatus
      <3> QED
        BY <1>1, <2>1, <3>1, <3>2
    <2>4. ASSUME NEW t \in Threads, Resolve(t) PROVE FALSE
      BY <1>1, <2>1, <2>4 DEF Resolve, ResolveVerifiedOperation
    <2> QED
      BY <1>1, <2>2, <2>3, <2>4, CasesChange
  <1>2. RuntimeInv /\ CaseIsOpen /\ [Next]_vars => [Reopened]_vars
    BY <1>1
  <1>3. RuntimeInit => CaseIsOpen
    BY DEF RuntimeInit, CaseIsOpen, Idle, Executing
  <1>4. RuntimeInv /\ [Next]_vars /\ CaseIsOpen => CaseIsOpen'
    BY CaseIsOpenPreserved
  <1> QED
    BY <1>2, <1>3, <1>4, RuntimeInvariant, PTL DEF Spec, ReopenedByEvidence
-----------------------------------------------------------------------------
(* The runtime implements Operations: every step reserves, sends, settles,  *)
(* frees or voids one plan, lets a sent one take effect, or is a stutter.   *)

(* A rejected plan left no trace.                                           *)
LEMMA RejectedIsUntouched ==
    ASSUME RuntimeInv, NEW p \in Plans, plans[p].status = "REJECTED"
    PROVE  ~Recorded(p) /\ ~Claimed(p) /\ requests[p] = 0 /\ applied[p] = 0
  <1>1. ~Claimed(p)
    BY TargetIsService, IdentifiersAssumption
       DEF RuntimeInv, ControlInv, HeldPlanIsCurrent, Claimed
  <1> QED
    BY <1>1 DEF RuntimeInv, PlanInv, Recorded

(* ... also after a step.                                                   *)
LEMMA RejectedIsUntouchedNext ==
    RuntimeInv' => (\A p \in Plans : plans[p].status = "REJECTED" =>
                       ledger[p] = "NONE" /\ requests[p] = 0)'
  <1>1. RuntimeInv => \A p \in Plans : plans[p].status = "REJECTED" =>
                         ledger[p] = "NONE" /\ requests[p] = 0
    BY RejectedIsUntouched DEF Recorded
  <1> QED
    BY <1>1, PTL

(* The stage of a plan, spelled out.                                        *)
StageTable(p) ==
    /\ plans[p].status = "REJECTED" => StageOf(p) = "void"
    /\ ledger[p] = "SUCCEEDED" => StageOf(p) = "succeeded"
    /\ ledger[p] = "FAILED" => StageOf(p) = "failed"
    /\ ledger[p] \notin Terminal /\ requests[p] > 0 => StageOf(p) = "sent"
    /\ ledger[p] \notin Terminal /\ requests[p] = 0 /\ plans[p].status # "REJECTED" =>
         StageOf(p) = IF Claimed(p) THEN "held" ELSE "open"

(* The table is right in every state the runtime can be in ...              *)
LEMMA StageIs == RuntimeInv => \A p \in Plans : StageTable(p)
  <1> SUFFICES ASSUME RuntimeInv, NEW p \in Plans PROVE StageTable(p)
    OBVIOUS
  <1>1. plans[p].status = "REJECTED" => ledger[p] = "NONE" /\ requests[p] = 0
    BY RejectedIsUntouched DEF Recorded
  <1>2. requests[p] \in Nat
    BY DataIsTyped
  <1> QED
    BY <1>1, <1>2 DEF StageTable, StageOf, Terminal

(* ... also after a step.                                                   *)
LEMMA StageIsNext == RuntimeInv' => (\A p \in Plans : StageTable(p))'
  BY StageIs, PTL

(* What a plan's stage depends on.                                          *)
LEMMA StageStays ==
    ASSUME NEW p \in Plans,
           plans'[p].status = "REJECTED" <=> plans[p].status = "REJECTED",
           ledger'[p] = ledger[p], requests'[p] = requests[p],
           Claimed(p)' <=> Claimed(p)
    PROVE  StageOf(p)' = StageOf(p)
  BY DEF StageOf

(* One plan moves, the others stay.                                         *)
LEMMA OneMoves ==
    ASSUME NEW p \in Plans, NEW to, StageOf(p)' = to,
           \A q \in Plans : q # p => StageOf(q)' = StageOf(q)
    PROVE  Stages' = [Stages EXCEPT ![p] = to] /\ Stages[p] = StageOf(p)
  BY DEF Stages

(* Nothing the promise speaks of changes.                                   *)
LEMMA Stutters ==
    ASSUME \A q \in Plans : StageOf(q)' = StageOf(q), claims' = claims, applied' = applied
    PROVE  UNCHANGED Promise!opVars
  BY DEF Stages, Effect, Promise!opVars

(* Effects stay while nothing is applied.                                   *)
LEMMA EffectStays ==
    ASSUME applied' = applied
    PROVE  Effect' = Effect
  BY DEF Effect

(* Holding a service of its own: another plan's claim is not touched.       *)
LEMMA ClaimIsExclusive ==
    ASSUME RuntimeInv, NEW p \in Plans, NEW q \in Plans, q # p, NEW c,
           Claimed(p) \/ claims[Target(p)] = None,
           claims' = [claims EXCEPT ![Target(p)] = c], c \in {p, None}
    PROVE  Claimed(q)' <=> Claimed(q)
  <1>1. Target(p) \in Services /\ Target(q) \in Services /\ None \notin Plans
    BY TargetIsService, IdentifiersAssumption
  <1> QED
    BY <1>1, DataIsTyped DEF Claimed
-----------------------------------------------------------------------------
(* An outcome frees the service, or it was freed before.                    *)
LEMMA FinishedKeepsPromise ==
    ASSUME RuntimeInv, RuntimeInv', NEW p \in Plans, ExecutionFinished(p, ledger[p]),
           ledger[p] # "NONE", UNCHANGED <<ledger, targetVars>>
    PROVE  [Promise!OpNext]_Promise!opVars
  <1>1. ledger' = ledger /\ requests' = requests /\ applied' = applied
    BY DEF targetVars
  <1>2. CASE ledger[p] \notin Terminal
    <2>1. claims' = claims /\ plans' = plans
      BY <1>2 DEF ExecutionFinished, FinishedOn, Terminal
    <2>2. \A q \in Plans : StageOf(q)' = StageOf(q)
      BY <1>1, <2>1, StageStays DEF Claimed
    <2> QED
      BY <1>1, <2>1, <2>2, Stutters
  <1>3. CASE ledger[p] \in Terminal
    <2>1. /\ claims' = [claims EXCEPT ![Target(p)] = IF @ = p THEN None ELSE @]
          /\ plans' = [plans EXCEPT ![p].status = "EXECUTED"]
      BY <1>3 DEF ExecutionFinished, FinishedOn, Terminal
    <2>2. \A q \in Plans : plans'[q].status = "REJECTED" <=> plans[q].status = "REJECTED"
      <3>1. plans[p].status # "REJECTED"
        BY RejectedIsUntouched DEF Recorded
      <3>2. plans'[p].status # "REJECTED" /\ \A q \in Plans : q # p => plans'[q] = plans[q]
        BY <2>1, DataIsTyped
      <3> QED
        BY <3>1, <3>2
    <2>3. StageOf(p)' = StageOf(p) /\ StageOf(p) \in {"succeeded", "failed"}
      BY <1>1, <1>3, StageIs, StageIsNext DEF Terminal, StageTable
    <2>4. CASE Claimed(p)
      <3>1. claims' = [claims EXCEPT ![Target(p)] = None]
        BY <2>1, <2>4 DEF Claimed
      <3>2. \A q \in Plans : q # p => (Claimed(q)' <=> Claimed(q))
        BY <2>4, <3>1, ClaimIsExclusive
      <3>3. \A q \in Plans : StageOf(q)' = StageOf(q)
        BY <1>1, <2>2, <2>3, <3>2, StageStays
      <3>4. Stages' = Stages /\ Stages[p] \in {"succeeded", "failed"}
        BY <2>3, <3>3 DEF Stages
      <3> QED
        BY <1>1, <2>4, <3>1, <3>4, EffectStays
           DEF Promise!Free, Promise!OpNext, Claimed, Promise!Target, Target
    <2>5. CASE ~Claimed(p)
      <3>1. claims' = claims
        BY <2>1, <2>5, DataIsTyped DEF Claimed
      <3>2. \A q \in Plans : StageOf(q)' = StageOf(q)
        BY <1>1, <2>2, <3>1, StageStays DEF Claimed
      <3> QED
        BY <1>1, <3>1, <3>2, Stutters
    <2> QED
      BY <2>4, <2>5
  <1> QED
    BY <1>2, <1>3

(* A new ledger status of a plan that holds its service: a definite one     *)
(* settles it, any other is a stutter.                                      *)
LEMMA StoreKeepsPromise ==
    ASSUME RuntimeInv, RuntimeInv', NEW p \in Plans, NEW st \in LedgerStatuses \ {"NONE"},
           ledger' = [ledger EXCEPT ![p] = st], UNCHANGED <<controlVars, targetVars>>,
           Claimed(p), ledger[p] \notin Terminal
    PROVE  [Promise!OpNext]_Promise!opVars
  <1>1. /\ claims' = claims /\ plans' = plans /\ requests' = requests
        /\ applied' = applied
    BY DEF controlVars, targetVars
  <1>2. ledger'[p] = st /\ \A q \in Plans : q # p => ledger'[q] = ledger[q]
    BY DataIsTyped
  <1>3. \A q \in Plans : q # p => StageOf(q)' = StageOf(q)
    BY <1>1, <1>2, StageStays DEF Claimed
  <1>4. /\ StageTable(p) /\ StageTable(p)'
        /\ plans[p].status # "REJECTED" /\ requests[p] \in Nat
        /\ Claimed(p)'
    BY <1>1, StageIs, StageIsNext, RejectedIsUntouched, DataIsTyped DEF Claimed
  <1>5. CASE st \notin Terminal
    <2>1. StageOf(p)' = StageOf(p)
      BY <1>1, <1>2, <1>4, <1>5 DEF StageTable
    <2> QED
      BY <1>1, <1>3, <2>1, Stutters
  <1>6. CASE st \in Terminal
    <2>1. /\ StageOf(p) \in {"held", "sent"}
          /\ requests[p] > 0 => StageOf(p) = "sent"
      BY <1>4 DEF StageTable
    <2>2. StageOf(p)' = IF st = "SUCCEEDED" THEN "succeeded" ELSE "failed"
      BY <1>2, <1>4, <1>6 DEF StageTable, Terminal
    <2>3. /\ st = "SUCCEEDED" => applied[p] = 1 /\ requests[p] > 0
          /\ st = "FAILED" => applied[p] = 0
      <3>1. PlanInv(p)' /\ PlanInv(p)
        BY DEF RuntimeInv
      <3> QED
        BY <1>1, <1>2, <1>4, <3>1 DEF PlanInv, Reported, Terminal
    <2>4. /\ Stages[p] = StageOf(p)
          /\ Stages' = [Stages EXCEPT ![p] = IF st = "SUCCEEDED" THEN "succeeded" ELSE "failed"]
          /\ Effect' = Effect /\ claims' = claims
      BY <1>1, <1>3, <2>2, OneMoves, EffectStays
    <2>5. /\ st = "SUCCEEDED" => p \in Effect
          /\ st = "FAILED" => p \notin Effect
      BY <2>3 DEF Effect
    <2>6. Promise!SettleOutcome(p)
      <3>1. CASE st = "SUCCEEDED"
        BY <1>4, <2>1, <2>3, <2>4, <2>5, <3>1
           DEF Promise!SettleOutcome, Promise!Target, Target, Claimed
      <3>2. CASE st = "FAILED"
        BY <1>4, <2>1, <2>3, <2>4, <2>5, <3>2
           DEF Promise!SettleOutcome, Promise!Target, Target, Claimed
      <3> QED
        BY <1>6, <3>1, <3>2 DEF Terminal
    <2> QED
      BY <2>6 DEF Promise!OpNext
  <1> QED
    BY <1>5, <1>6

(* A thread that may write a status of its plan holds the service.          *)
LEMMA LedgerStepKeepsPromise ==
    ASSUME RuntimeInv, RuntimeInv', NEW t \in Threads,
           RecordStep(t) \/ Dispatch(t) \/ Deny(t) \/ StoreResult(t) \/ StoreReconciled(t)
    PROVE  [Promise!OpNext]_Promise!opVars
  <1>1. UNCHANGED <<controlVars, targetVars>>
    BY DEF RecordStep, Dispatch, Deny, StoreResult, StoreReconciled
  <1>2. PICK p \in Plans : /\ call[t].plan = p /\ CallInv(t) /\ PlanInv(p)
                           /\ call[t].result \in Results \cup {"NONE"}
    BY CallIsTyped DEF RecordStep, Dispatch, Deny, StoreResult, StoreReconciled, At,
       RuntimeInv, Calls
  <1>3. CASE ledger' = ledger
    <2>1. /\ claims' = claims /\ plans' = plans /\ requests' = requests /\ applied' = applied
      BY <1>1 DEF controlVars, targetVars
    <2>2. \A q \in Plans : StageOf(q)' = StageOf(q)
      BY <1>3, <2>1, StageStays DEF Claimed
    <2> QED
      BY <2>1, <2>2, Stutters
  <1>4. ASSUME NEW st \in LedgerStatuses \ {"NONE"}, ledger' = [ledger EXCEPT ![p] = st],
               Claimed(p), ledger[p] \notin Terminal
        PROVE  [Promise!OpNext]_Promise!opVars
    BY <1>1, <1>4, StoreKeepsPromise
  <1>5. CASE RecordStep(t)
    <2>1. Claimed(p) /\ ledger[p] = "NONE"
      BY <1>2, <1>5 DEF RecordStep, CallInv, At, Recorded
    <2> QED
      BY <1>2, <1>3, <1>4, <1>5, <2>1
         DEF RecordStep, RecordIntent, LedgerStatuses, Unresolved, Terminal
  <1>6. CASE Dispatch(t) \/ Deny(t)
    <2>1. ledger[p] \in {"PENDING", "IN_FLIGHT"}
      BY <1>2, <1>6 DEF Dispatch, Deny, CallInv, At
    <2>2. Claimed(p) /\ ledger[p] \notin Terminal
      BY <1>2, <2>1 DEF PlanInv, Unresolved, Terminal
    <2> QED
      BY <1>2, <1>4, <1>6, <2>2 DEF Dispatch, Deny, Store, LedgerStatuses, Unresolved, Terminal
  <1>7. CASE StoreResult(t) \/ StoreReconciled(t)
    <2>1. ledger[p] \in {"IN_FLIGHT", "UNKNOWN"} /\ call[t].result \in Results
      BY <1>2, <1>7 DEF StoreResult, StoreReconciled, CallInv, At, Reported
    <2>2. Claimed(p) /\ ledger[p] \notin Terminal
      BY <1>2, <2>1 DEF PlanInv, Unresolved, Terminal
    <2>3. call[t].result \in LedgerStatuses \ {"NONE"}
      BY <2>1 DEF Results, LedgerStatuses, Unresolved, Terminal
    <2> QED
      BY <1>2, <1>4, <1>7, <2>2, <2>3 DEF StoreResult, StoreReconciled, Store
  <1> QED
    BY <1>5, <1>6, <1>7

(* Handing over the operation.                                              *)
LEMMA SendKeepsPromise ==
    ASSUME RuntimeInv, RuntimeInv', NEW t \in Threads, Send(t)
    PROVE  Promise!OpNext
  <1>1. PICK p \in Plans : call[t].plan = p /\ CallInv(t) /\ PlanInv(p)
    BY CallIsTyped DEF Send, At, RuntimeInv
  <1>2. PICK r : DemoExecute(p, r) \/ HttpExecute(p, r)
    BY <1>1 DEF Send
  <1>3. claims' = claims /\ plans' = plans /\ ledger' = ledger
    BY DEF Send, controlVars
  <1>4. ledger[p] = "IN_FLIGHT" /\ requests[p] = 0 /\ applied[p] = 0 /\ Claimed(p)
    BY <1>1 DEF Send, CallInv, At, PlanInv, Unresolved
  <1>5. /\ requests'[p] = 1 /\ applied'[p] \in {0, 1}
        /\ \A q \in Plans : q # p => requests'[q] = requests[q] /\ applied'[q] = applied[q]
    BY <1>2, <1>4, DataIsTyped DEF DemoExecute, HttpExecute
  <1>6. \A q \in Plans : q # p => StageOf(q)' = StageOf(q)
    BY <1>3, <1>5, StageStays DEF Claimed
  <1>7. StageOf(p) = "held" /\ StageOf(p)' = "sent"
    <2>1. plans[p].status # "REJECTED"
      BY <1>4, RejectedIsUntouched
    <2> QED
      BY <1>3, <1>4, <1>5, <2>1, StageIs, StageIsNext DEF StageTable, Terminal
  <1>8. Stages' = [Stages EXCEPT ![p] = "sent"] /\ Stages[p] = "held"
    BY <1>6, <1>7, OneMoves
  <1>9. Effect' = Effect \/ Effect' = Effect \cup {p}
    BY <1>4, <1>5, DataIsTyped DEF Effect
  <1>10. Promise!SendOnce(p)
    BY <1>3, <1>4, <1>8, <1>9 DEF Promise!SendOnce, Promise!Target, Target, Claimed
  <1> QED
    BY <1>10 DEF Promise!OpNext

(* A late request reaches its target.                                       *)
LEMMA ArrivalKeepsPromise ==
    ASSUME RuntimeInv, RuntimeInv', NEW p \in Plans, Arrive(p),
           UNCHANGED <<controlVars, ledger, localVars>>
    PROVE  Promise!OpNext
  <1>1. /\ claims' = claims /\ plans' = plans /\ ledger' = ledger /\ requests' = requests
    BY DEF controlVars, Arrive
  <1>2. /\ applied[p] = 0 /\ ledger[p] \in {"IN_FLIGHT", "UNKNOWN"}
        /\ requests[p] # 0
    BY DEF RuntimeInv, PlanInv, Arrive
  <1>3. StageOf(p) = "sent"
    <2>1. requests[p] > 0
      BY <1>2, DataIsTyped
    <2> QED
      BY <1>2, <2>1, StageIs DEF StageTable, Terminal
  <1>4. \A q \in Plans : StageOf(q)' = StageOf(q)
    BY <1>1, StageStays DEF Claimed
  <1>5. Stages' = Stages /\ Stages[p] = "sent"
    BY <1>3, <1>4 DEF Stages
  <1>6. p \notin Effect /\ Effect' = Effect \cup {p}
    BY <1>2, DataIsTyped DEF Effect, Arrive
  <1> QED
    BY <1>1, <1>5, <1>6 DEF Promise!TakeEffect, Promise!OpNext

(* A permit reserves the service.                                           *)
LEMMA IssueKeepsPromise ==
    ASSUME RuntimeInv, RuntimeInv', NEW t \in Threads, Issue(t)
    PROVE  [Promise!OpNext]_Promise!opVars
  <1>1. PICK p \in Plans : call[t].plan = p /\ CallInv(t) /\ PlanInv(p)
    BY CallIsTyped DEF Issue, At, RuntimeInv
  <1>2. ledger' = ledger /\ requests' = requests /\ applied' = applied
    BY DEF Issue, targetVars
  <1>3. CASE UNCHANGED controlVars
    <2>1. claims' = claims /\ plans' = plans
      BY <1>3 DEF controlVars
    <2>2. \A q \in Plans : StageOf(q)' = StageOf(q)
      BY <1>2, <2>1, StageStays DEF Claimed
    <2> QED
      BY <1>2, <2>1, <2>2, Stutters
  <1>4. CASE IssuePermit(p)
    <2>1. /\ claims[Target(p)] = None /\ plans[p].status = "APPROVED" /\ plans' = plans
          /\ claims' = [claims EXCEPT ![Target(p)] = p]
      BY <1>4 DEF IssuePermit, Permitted, Authorized
    <2>2. ledger[p] = "NONE" /\ requests[p] = 0
      BY <1>1 DEF Issue, At, CallInv, PlanInv, Recorded
    <2>3. ~Claimed(p) /\ Claimed(p)'
      BY <2>1, TargetIsService, IdentifiersAssumption, DataIsTyped DEF Claimed
    <2>4. StageOf(p) = "open" /\ StageOf(p)' = "held"
      BY <1>2, <2>1, <2>2, <2>3, StageIs, StageIsNext DEF StageTable, Terminal
    <2>5. \A q \in Plans : q # p => (Claimed(q)' <=> Claimed(q))
      BY <2>1, ClaimIsExclusive
    <2>6. \A q \in Plans : q # p => StageOf(q)' = StageOf(q)
      BY <1>2, <2>1, <2>5, StageStays
    <2>7. Stages' = [Stages EXCEPT ![p] = "held"] /\ Stages[p] = "open"
      BY <2>4, <2>6, OneMoves
    <2> QED
      BY <1>2, <2>1, <2>7, EffectStays
         DEF Promise!Reserve, Promise!OpNext, Promise!Target, Target
  <1> QED
    BY <1>1, <1>3, <1>4 DEF Issue

(* A plan becomes rejected: before anything was sent.                       *)
LEMMA VoidKeepsPromise ==
    ASSUME RuntimeInv, RuntimeInv', NEW p \in Plans,
           plans[p].status # "REJECTED", plans'[p].status = "REJECTED",
           \A q \in Plans : q # p => plans'[q] = plans[q],
           \/ Claimed(p) /\ claims' = [claims EXCEPT ![Target(p)] = None]
           \/ ~Claimed(p) /\ claims' = claims,
           UNCHANGED <<ledger, targetVars>>
    PROVE  Promise!OpNext
  <1>1. ledger' = ledger /\ requests' = requests /\ applied' = applied
    BY DEF targetVars
  <1>2. ledger[p] = "NONE" /\ requests[p] = 0
    BY <1>1, RejectedIsUntouchedNext
  <1>3. StageOf(p) \in {"open", "held"} /\ StageOf(p)' = "void"
    BY <1>2, StageIs, StageIsNext DEF StageTable, Terminal
  <1>4. \A q \in Plans : q # p => (Claimed(q)' <=> Claimed(q))
    BY ClaimIsExclusive DEF Claimed
  <1>5. \A q \in Plans : q # p => StageOf(q)' = StageOf(q)
    BY <1>1, <1>4, StageStays
  <1>6. Stages' = [Stages EXCEPT ![p] = "void"] /\ Stages[p] \in {"open", "held"}
    BY <1>3, <1>5, OneMoves
  <1>7. claims' = [claims EXCEPT ![Target(p)] = IF @ = p THEN None ELSE @]
    BY DataIsTyped DEF Claimed
  <1> QED
    BY <1>1, <1>6, <1>7, EffectStays DEF Promise!Void, Promise!OpNext, Promise!Target, Target

(* Requests: only a rejection is visible to the promise.                    *)
LEMMA RequestKeepsPromise ==
    ASSUME RuntimeInv, RuntimeInv', Request \/ Clock, UNCHANGED <<ledger, targetVars>>
    PROVE  [Promise!OpNext]_Promise!opVars
  <1>1. ledger' = ledger /\ requests' = requests /\ applied' = applied /\ claims' = claims
    BY OutsideLeavesClaims DEF targetVars
  <1>2. ASSUME NEW p \in Plans, Reject(p) PROVE Promise!OpNext
    <2>1. /\ plans[p].status \in {"DRAFT", "APPROVED"} /\ plans'[p].status = "REJECTED"
          /\ \A q \in Plans : q # p => plans'[q] = plans[q]
      BY <1>2, DataIsTyped DEF Reject, PutRejected
    <2>2. ~Claimed(p)
      BY <1>2 DEF Reject, Claimed
    <2> QED
      BY <1>1, <2>1, <2>2, VoidKeepsPromise
  <1>3. CASE \A q \in Plans : plans'[q].status = "REJECTED" <=> plans[q].status = "REJECTED"
    <2>1. \A q \in Plans : StageOf(q)' = StageOf(q)
      BY <1>1, <1>3, StageStays DEF Claimed
    <2> QED
      BY <1>1, <2>1, Stutters
  <1>4. \/ plans' = plans
        \/ \E q \in Plans, a \in Actors : CreatePlan(q, a) \/ Approve(q, a)
        \/ \E q \in Plans : Reject(q)
    BY DEF Request, RegisterService, PutService, RegisterCapability, PutCapability,
       SetCheck, AddFinding, AdvanceGeneration, AcknowledgeRestore,
       Clock, ExpirePlan, ExpirePermit
  <1>5. ASSUME NEW q \in Plans, NEW a \in Actors, CreatePlan(q, a) \/ Approve(q, a)
        PROVE  \A r \in Plans : plans'[r].status = "REJECTED" <=> plans[r].status = "REJECTED"
    <2>1. CASE CreatePlan(q, a)
      BY <2>1, DataIsTyped DEF CreatePlan, DraftPlan
    <2>2. CASE Approve(q, a)
      <3>1. plans[q].status = "DRAFT" /\ plans'[q].status = "APPROVED"
        BY <2>2, DataIsTyped DEF Approve
      <3>2. \A r \in Plans : r # q => plans'[r] = plans[r]
        BY <2>2, DataIsTyped DEF Approve
      <3> QED
        BY <3>1, <3>2
    <2> QED
      BY <1>5, <2>1, <2>2
  <1> QED
    BY <1>2, <1>3, <1>4, <1>5

(* Releasing a plan that was never sent.                                    *)
LEMMA ReleaseKeepsPromise ==
    ASSUME RuntimeInv, RuntimeInv', NEW t \in Threads, ReleaseStep(t)
    PROVE  [Promise!OpNext]_Promise!opVars
  <1>1. PICK p \in Plans : call[t].plan = p
    BY CallIsTyped DEF ReleaseStep, At
  <1>2. CASE UNCHANGED controlVars
    <2>1. /\ claims' = claims /\ plans' = plans /\ ledger' = ledger
          /\ requests' = requests /\ applied' = applied
      BY <1>2 DEF controlVars, ReleaseStep, targetVars
    <2>2. \A q \in Plans : StageOf(q)' = StageOf(q)
      BY <2>1, StageStays DEF Claimed
    <2> QED
      BY <2>1, <2>2, Stutters
  <1>3. CASE ReleaseUnsent(p)
    <2>1. /\ Claimed(p) /\ claims' = [claims EXCEPT ![Target(p)] = None]
          /\ plans'[p].status = "REJECTED" /\ \A q \in Plans : q # p => plans'[q] = plans[q]
      BY <1>3, DataIsTyped DEF ReleaseUnsent, Claimed
    <2>2. plans[p].status # "REJECTED"
      BY <2>1, RejectedIsUntouched
    <2> QED
      BY <2>1, <2>2, VoidKeepsPromise DEF ReleaseStep
  <1> QED
    BY <1>1, <1>2, <1>3 DEF ReleaseStep

(* The three places that hand the recorded outcome to the control database. *)
LEMMA SettleKeepsPromise ==
    ASSUME RuntimeInv, RuntimeInv', NEW t \in Threads, Settle(t) \/ Finish(t) \/ Handle(t)
    PROVE  [Promise!OpNext]_Promise!opVars
  <1>1. PICK p \in Plans : call[t].plan = p /\ CallInv(t)
    BY CallIsTyped DEF Settle, Finish, Handle, At, RuntimeInv
  <1>2. UNCHANGED <<ledger, targetVars>>
    BY DEF Settle, Finish, Handle
  <1>3. CASE UNCHANGED controlVars
    <2>1. /\ claims' = claims /\ plans' = plans /\ ledger' = ledger
          /\ requests' = requests /\ applied' = applied
      BY <1>2, <1>3 DEF controlVars, targetVars
    <2>2. \A q \in Plans : StageOf(q)' = StageOf(q)
      BY <2>1, StageStays DEF Claimed
    <2> QED
      BY <2>1, <2>2, Stutters
  <1>4. CASE ExecutionFinished(p, ledger[p]) /\ ledger[p] # "NONE"
    BY <1>2, <1>4, FinishedKeepsPromise
  <1>5. CASE ExecutionFinished(p, "NONE")
    BY <1>3, <1>5 DEF ExecutionFinished, FinishedOn, controlVars
  <1> QED
    BY <1>1, <1>3, <1>4, <1>5 DEF Settle, Finish, Handle, CallInv, At, Recorded

(* After a restart an interrupted operation is still held, or sent.         *)
LEMMA StartKeepsPromise ==
    ASSUME RuntimeInv, RuntimeInv', Start
    PROVE  UNCHANGED Promise!opVars
  <1>1. /\ claims' = claims /\ plans' = plans /\ requests' = requests /\ applied' = applied
    BY DEF Start, controlVars, targetVars
  <1>2. ASSUME NEW q \in Plans PROVE StageOf(q)' = StageOf(q)
    <2>1. CASE ledger[q] \in {"PENDING", "IN_FLIGHT"}
      <3>1. ledger'[q] = "UNKNOWN"
        BY <2>1 DEF Start, RecoverInFlight
      <3>2. /\ StageTable(q) /\ StageTable(q)' /\ requests[q] \in Nat
            /\ plans[q].status # "REJECTED" /\ (Claimed(q)' <=> Claimed(q))
        BY <1>1, <2>1, StageIs, StageIsNext, RejectedIsUntouched, DataIsTyped
           DEF Recorded, Claimed
      <3> QED
        BY <1>1, <2>1, <3>1, <3>2 DEF StageTable, Terminal
    <2>2. CASE ledger[q] \notin {"PENDING", "IN_FLIGHT"}
      <3>1. ledger'[q] = ledger[q]
        BY <2>2 DEF Start, RecoverInFlight
      <3> QED
        BY <1>1, <3>1, StageStays DEF Claimed
    <2> QED
      BY <2>1, <2>2
  <1> QED
    BY <1>1, <1>2, Stutters

(* Every step, by action.                                                   *)
LEMMA StepKeepsPromise ==
    ASSUME RuntimeInv, RuntimeInv', [Next]_vars
    PROVE  [Promise!OpNext]_Promise!opVars
  <1>1. CASE UNCHANGED <<plans, claims, ledger, requests, applied>>
    <2>1. \A q \in Plans : StageOf(q)' = StageOf(q)
      BY <1>1, StageStays DEF Claimed
    <2> QED
      BY <1>1, <2>1, Stutters
  <1>2. ASSUME NEW t \in Threads, Step(t) PROVE [Promise!OpNext]_Promise!opVars
    <2>1. CASE Prepare(t) \/ Authorize(t) \/ Recheck(t) \/ Reauthorize(t) \/ LookupStep(t)
               \/ Observe(t) \/ Status(t) \/ Resolve(t)
      BY <1>1, <2>1 DEF Prepare, Authorize, Recheck, Reauthorize, LookupStep, Observe,
         ObserveThen, Status, CaseStatus, Resolve, ResolveVerifiedOperation, OnlyLocal,
         controlVars, targetVars
    <2> QED
      BY <1>2, <2>1, SettleKeepsPromise, IssueKeepsPromise, LedgerStepKeepsPromise,
         SendKeepsPromise, ReleaseKeepsPromise DEF Step
  <1>3. ASSUME NEW t \in Threads, AccessFails(t) PROVE [Promise!OpNext]_Promise!opVars
    BY <1>1, <1>3 DEF AccessFails, OnlyLocal, controlVars, targetVars
  <1>4. ASSUME NEW t \in Threads, NEW p \in Plans, Begin(t, p)
        PROVE  [Promise!OpNext]_Promise!opVars
    BY <1>1, <1>4 DEF Begin, Execute, Reconcile, Verify, Release, EnterRelease, OnlyLocal,
       controlVars, targetVars
  <1>5. ASSUME NEW p \in Plans, Vanish(p), UNCHANGED <<controlVars, ledger, localVars>>
        PROVE  [Promise!OpNext]_Promise!opVars
    BY <1>1, <1>5 DEF Vanish, controlVars
  <1>6. CASE Crash
    BY <1>1, <1>6 DEF Crash, OnlyLocal, controlVars, targetVars
  <1>7. CASE UNCHANGED vars
    BY <1>1, <1>7 DEF vars, controlVars, targetVars
  <1> QED
    BY <1>2, <1>3, <1>4, <1>5, <1>6, <1>7, RequestKeepsPromise, ArrivalKeepsPromise,
       StartKeepsPromise DEF Next

(* Executing plans keeps its promise: what the databases and the target do, *)
(* through any threads, crashes and failed accesses, is a behaviour of      *)
(* Operations.                                                              *)
THEOREM OperationsAreImplemented == Spec => KeepsPromise
  <1>1. RuntimeInit => Promise!OpInit
    <2> SUFFICES ASSUME RuntimeInit PROVE Promise!OpInit
      OBVIOUS
    <2>1. \A p \in Plans : StageOf(p) = "open"
      BY IdentifiersAssumption, TargetIsService
         DEF RuntimeInit, ControlInit, RunnerInit, TargetInit, StageOf, NoPlan, Terminal, Claimed
    <2>2. Effect = {} /\ claims = [s \in Services |-> None]
      BY DEF RuntimeInit, ControlInit, TargetInit, Effect
    <2> QED
      BY <2>1, <2>2 DEF Promise!OpInit, Stages
  <1>2. RuntimeInv /\ RuntimeInv' /\ [Next]_vars => [Promise!OpNext]_Promise!opVars
    BY StepKeepsPromise
  <1> QED
    BY <1>1, <1>2, RuntimeInvariant, PTL DEF Spec, KeepsPromise, Promise!OpSpec
=============================================================================
