------------------------------- MODULE Tasks -------------------------------
(***************************************************************************)
(* Finite tasks for a language model: the task table and the daily budget  *)
(* of the control database (src/opsyne/control/repository.py), the         *)
(* scheduling of adapter proposals (control/discovery.py) and the thread   *)
(* that runs one task at a time (run_task of runtime.py).  The collecting  *)
(* thread, people and the worker interleave; every transaction is a step.  *)
(*                                                                         *)
(* A format is a structure of log lines of one version of a service; it    *)
(* has one case and, once observed, one group.  Formats that are no JSON   *)
(* are never queued and left out.  A proposed adapter has the name of its  *)
(* task and is kept in the task's row here.  Evidence is counted, and the  *)
(* 300 seconds after which a task expires may be over at any time.         *)
(***************************************************************************)
EXTENDS Integers, Sequences, FiniteSets, FiniteSetsExt

CONSTANTS
    Formats,
    DailyLimit,     \* daily_call_limit
    MaxAttempts,    \* max_attempts of a group
    Coalesce,       \* coalesce_seconds
    RetryDelay,     \* retry_seconds
    DayLength,
    MaxTime, MaxTasks, MaxInvestigations, MaxEvents, MaxFaults, MaxChanges, \* bounds
    None

ASSUME TasksAssumption ==
    /\ MaxAttempts \in Nat \ {0} /\ RetryDelay \in Nat \ {0} /\ DayLength \in Nat \ {0}
    /\ Coalesce \in Nat /\ DailyLimit \in Nat
    /\ {MaxTime, MaxTasks, MaxInvestigations, MaxEvents, MaxFaults, MaxChanges} \subseteq Nat
    /\ None \notin Nat

Open == {"PENDING", "RUNNING"}
Statuses == Open \cup {"SUCCEEDED", "FAILED", "BLOCKED"}
Drafts == {"none", "DRAFT", "APPROVED", "REVOKED"}
TaskRecords ==
    [case : Formats, role : {"operator", "adapter"}, automatic : BOOLEAN, status : Statuses,
     attempts : Nat, evidence : Nat, pinned : BOOLEAN,
     limit : BOOLEAN, draft : Drafts]
GroupRecords ==
    [events : Nat, task : Nat, adapter : Nat, attempts : Nat, asked : Nat,
     next : Nat \cup {None}, disposition : (Nat \X (Statuses \cup Drafts)) \cup {None},
     refunded : Nat]

ASSUME NoneAssumption == None \notin GroupRecords

VARIABLES
    tasks,      \* rows of kind task in creation order
    groups,     \* format -> row of kind adapter_discovery, or None
    order,      \* formats in the order their groups were made
    calls,      \* day -> calls reserved
    cases,      \* formats that have a case
    current,    \* is the source enabled and the version of the service theirs?
    auto,       \* are automatic proposals switched on (and a key configured)?
    worker,     \* the investigation thread
    now, faults, changes,
    started     \* history: which task was started when

env == <<cases, current, auto, now, faults, changes>>
vars == <<tasks, groups, order, calls, env, worker, started>>

Idle == [at |-> "idle", task |-> 0, result |-> "none"]
Workers == [at : {"idle", "claim", "ask", "propose", "finish", "schedule"},
            task : Nat, result : {"none", "SUCCEEDED", "FAILED"}]

Day(time) == time \div DayLength
Ids == 1 .. Len(tasks)

TasksInit ==
    /\ tasks = <<>>
    /\ groups = [f \in Formats |-> None] /\ order = <<>>
    /\ calls = [d \in 0 .. Day(MaxTime) |-> 0]
    /\ cases = {}
    /\ current = TRUE /\ auto = TRUE
    /\ worker = Idle
    /\ now = 0 /\ faults = 0 /\ changes = 0
    /\ started = {}
-----------------------------------------------------------------------------
(* Parts of a transaction, on the tables [tasks, groups] it has so far.    *)

Tables == [tasks |-> tasks, groups |-> groups]
Save(db) == tasks' = db.tasks /\ groups' = db.groups

OpenTasks(db, f, role) ==
    {i \in DOMAIN db.tasks : db.tasks[i].case = f /\ db.tasks[i].role = role
                             /\ db.tasks[i].status \in Open}

NewTask(f, role, automatic, evidence, pinned) ==
    [case |-> f, role |-> role, automatic |-> automatic, status |-> "PENDING",
     attempts |-> 0, evidence |-> evidence, pinned |-> pinned, limit |-> FALSE, draft |-> "none"]

Unsent(t) == t.status = "BLOCKED" /\ t.attempts = 0

\* The status that _refresh gives a group.  It is shown, and read only after a refresh.
Status(db, f) ==
    LET g == db.groups[f]
        t == db.tasks[g.task]
    IN  IF ~current THEN "BLOCKED"
        ELSE IF g.task = 0 THEN "COLLECTING"
        ELSE IF t.draft = "DRAFT" THEN "AWAITING_APPROVAL"
        ELSE IF t.draft = "APPROVED" THEN "COVERED"
        ELSE IF t.status \in Open THEN "QUEUED"
        ELSE IF g.attempts >= MaxAttempts THEN "BLOCKED"
        ELSE "RETRY_WAIT"

BlockOpen(db, f) ==         \* faulty: also the task the model works on
    LET t == db.groups[f].task
    IN  IF t # 0 /\ db.tasks[t].status \in Open
        THEN [db EXCEPT !.tasks[t].status = "BLOCKED"] ELSE db

\* _refresh, out of scope: a task not yet started is blocked with its group.
Block(db, f) ==
    LET t == db.groups[f].task
    IN  IF t # 0 /\ db.tasks[t].status = "PENDING"
        THEN [db EXCEPT !.tasks[t].status = "BLOCKED"] ELSE db

\* _refresh, the group's task has an adapter: an older draft is superseded.
Supersede(db, f) ==
    LET g == db.groups[f]
        old == g.adapter
    IN  [tasks |-> IF old \notin {0, g.task} /\ db.tasks[old].draft = "DRAFT"
                   THEN [db.tasks EXCEPT ![old].draft = "REVOKED"] ELSE db.tasks,
         groups |-> [db.groups EXCEPT ![f].adapter = g.task, ![f].next = None]]

RefundsAgain(g, t) == Unsent(t)     \* faulty: at every refresh

\* A task stopped before it was started gives its attempt back, once.
Refunds(g, t) == Unsent(t) /\ g.refunded # g.task

\* _refresh, the group's task ended without an adapter, or that was revoked.
Retry(db, f) ==
    LET g == db.groups[f]
        t == db.tasks[g.task]
        disposition == <<g.task, IF t.draft = "none" THEN t.status ELSE t.draft>>
        midnight == (Day(now) + 1) * DayLength
        wait == IF Unsent(t) /\ t.limit THEN Max({now + RetryDelay, midnight})
                ELSE now + RetryDelay
    IN  [db EXCEPT !.groups[f] = [g EXCEPT
            !.attempts = IF Refunds(g, t) /\ @ > 0 THEN @ - 1 ELSE @,
            !.refunded = IF Unsent(t) THEN g.task ELSE @,
            !.disposition = disposition,
            !.next = IF g.disposition = disposition THEN @ ELSE wait]]

Refresh(db, f) ==
    IF Status(db, f) \in {"AWAITING_APPROVAL", "COVERED"} THEN Supersede(db, f)
    ELSE IF ~current THEN Block(db, f)
    ELSE IF Status(db, f) \in {"COLLECTING", "QUEUED"} THEN db
    ELSE Retry(db, f)

\* _queue: an open task is shared, and made manual by a person's request.
Queue(db, f, automatic) ==
    LET g == db.groups[f]
        open == OpenTasks(db, f, "adapter")
        i == Min(open)
        Joined == [tasks |-> IF automatic \/ db.tasks[i].status # "PENDING" THEN db.tasks
                             ELSE [db.tasks EXCEPT ![i].automatic = FALSE],
                   groups |-> [db.groups EXCEPT ![f].task = i]]
    IN  IF open # {} THEN Refresh(Joined, f)
        ELSE [tasks |-> Append(db.tasks,
                               NewTask(f, "adapter", automatic, g.events, TRUE)),
              groups |-> [db.groups EXCEPT
                  ![f] = [g EXCEPT !.task = Len(db.tasks) + 1, !.attempts = @ + 1,
                                   !.asked = g.events, !.next = None]]]

IsDueAtOnce(g) == g.next # None /\ g.attempts < MaxAttempts    \* faulty: does not wait

IsDue(g) == g.next # None /\ g.next <= now /\ g.attempts < MaxAttempts

ReadyAtOnce(db, f) ==       \* faulty: new evidence is not waited for
    IsDue(db.groups[f]) /\ Status(db, f) \in {"COLLECTING", "RETRY_WAIT"}

\* After a refresh: due, and the first time, or unsent the last time, or with new evidence.
Ready(db, f) ==
    LET g == db.groups[f]
    IN  /\ IsDue(g)
        /\ \/ Status(db, f) = "COLLECTING"
           \/ /\ Status(db, f) = "RETRY_WAIT"
              /\ Unsent(db.tasks[g.task]) \/ g.events > g.asked

ScheduleOne(db, f, on) ==
    LET fresh == Refresh(db, f)
    IN  IF on /\ Ready(fresh, f) THEN Queue(fresh, f, TRUE) ELSE fresh

\* schedule goes through the groups in the order they were made; the tables after n of them.
Scheduled(on) ==
    LET after[n \in 0 .. Len(order)] ==
          IF n = 0 THEN Tables ELSE ScheduleOne(after[n - 1], order[n], on)
    IN  after[Len(order)]
-----------------------------------------------------------------------------
(* The collecting thread, people and time.                                 *)

HasRoom == Len(tasks) + Cardinality(Formats) <= MaxTasks

\* process of runtime.py: first the case, then the group, in two transactions.
Find(f) ==
    /\ f \notin cases
    /\ cases' = cases \cup {f}
    /\ UNCHANGED <<tasks, groups, order, calls, current, auto, worker, now, faults, changes, started>>

\* observe: one more raw event of the format; one delivered again changes nothing.
Observe(f) ==
    /\ f \in cases
    /\ \/ /\ groups[f] = None
          /\ groups' = [groups EXCEPT ![f] =
               [events |-> 1, task |-> 0, adapter |-> 0, attempts |-> 0,
                asked |-> 0, next |-> now + Coalesce, disposition |-> None, refunded |-> 0]]
          /\ order' = Append(order, f)
       \/ /\ groups[f] # None /\ groups[f].events < MaxEvents
          /\ groups' = [groups EXCEPT ![f].events = @ + 1]
          /\ UNCHANGED order
    /\ UNCHANGED <<tasks, calls, env, worker, started>>

\* schedule_adapters at the end of a poll.
Schedule ==
    /\ HasRoom
    /\ Save(Scheduled(auto))
    /\ UNCHANGED <<order, calls, env, worker, started>>

\* enqueue: an open task of the case and role is returned, else a new one is made.
Enqueue(f, role) ==
    /\ f \in cases /\ HasRoom
    /\ OpenTasks(Tables, f, role) = {}
    /\ tasks' = Append(tasks, NewTask(f, role, FALSE, 0, FALSE))

Investigate(f) ==
    /\ Cardinality({i \in Ids : tasks[i].role = "operator"}) < MaxInvestigations
    /\ Enqueue(f, "operator")
    /\ UNCHANGED <<groups, order, calls, env, worker, started>>

\* request: a person asks for a proposal.
Request(f) ==
    /\ \/ /\ groups[f] # None /\ HasRoom
          /\ current
          /\ Save(Queue(Refresh(Tables, f), f, FALSE))
       \/ /\ groups[f] = None
          /\ Enqueue(f, "adapter")
          /\ UNCHANGED groups
    /\ UNCHANGED <<order, calls, env, worker, started>>

\* approve and revoke of control/adapters.py, as far as the scheduling sees them.
Decide(i) ==
    /\ \/ /\ tasks[i].draft = "DRAFT"
          /\ tasks[i].pinned => current
          /\ tasks' = [tasks EXCEPT ![i].draft = "APPROVED"]
       \/ /\ tasks[i].draft # "none"
          /\ tasks' = [tasks EXCEPT ![i].draft = "REVOKED"]
    /\ UNCHANGED <<groups, order, calls, env, worker, started>>

\* A registration disables or enables the source, or replaces the service for good.
Register ==
    /\ changes < MaxChanges
    /\ changes' = changes + 1
    /\ current' = ~current
    /\ UNCHANGED <<tasks, groups, order, calls, cases, auto, worker, now, faults, started>>

Tick ==
    /\ now < MaxTime
    /\ now' = now + 1
    /\ UNCHANGED <<tasks, groups, order, calls, cases, current, auto, worker, faults, changes, started>>
-----------------------------------------------------------------------------
(* run_task, on the investigation thread.                                  *)

Begin ==
    /\ worker.at = "idle" /\ HasRoom
    /\ Save(Scheduled(auto))
    /\ worker' = [Idle EXCEPT !.at = "claim"]
    /\ UNCHANGED <<order, calls, env, started>>

HasBudget == calls[Day(now)] < DailyLimit

Allowed(t) == t.status = "PENDING" /\ (t.automatic => auto)
Claimable(expired) == {i \in Ids \ expired : Allowed(tasks[i]) /\ HasBudget}

\* What claim_task leaves of a row it passes.
Swept(i, expired) ==
    LET t == tasks[i]
    IN  IF Allowed(t) THEN [t EXCEPT !.status = "BLOCKED", !.limit = ~HasBudget]
        ELSE IF t.status = "RUNNING" /\ i \in expired THEN [t EXCEPT !.status = "FAILED"]
        ELSE t

\* Tasks are passed until one can be claimed; its call is paid for before it is made.
ClaimTask(expired) ==
    /\ worker.at = "claim"
    /\ IF Claimable(expired) = {}
       THEN /\ tasks' = [i \in Ids |-> Swept(i, expired)]
            /\ worker' = [Idle EXCEPT !.at = "schedule"]
            /\ UNCHANGED <<calls, started>>
       ELSE LET c == Min(Claimable(expired))
            IN  /\ tasks' = [i \in Ids |->
                     IF i < c THEN Swept(i, expired)
                     ELSE IF i = c
                     THEN [tasks[c] EXCEPT !.status = "RUNNING", !.attempts = @ + 1]
                     ELSE tasks[i]]
                /\ calls' = [calls EXCEPT ![Day(now)] = @ + 1]
                /\ worker' = [Idle EXCEPT !.at = "ask", !.task = c]
                /\ started' = started \cup {[task |-> c, at |-> now]}
    /\ UNCHANGED <<groups, order, env>>

\* validate_grant, with the checks of the adapter agent for its role.
Granted(t) ==
    /\ t.status = "RUNNING"
    /\ t.pinned => current

Then(at, result) ==
    /\ worker' = [worker EXCEPT !.at = at, !.result = result]
    /\ UNCHANGED <<tasks, groups, order, calls, env, started>>

\* What the call to the model can give: an error or an answer that fails a check, a report
\* without a proposal, or, from the adapter agent, one with a proposal.
Answers(role) == {"useless", "report"} \cup (IF role = "adapter" THEN {"proposal"} ELSE {})

\* Evidence is retrieved, the model answers, and the grant is checked once more.
Ask ==
    /\ worker.at = "ask"
    /\ \E answer \in Answers(tasks[worker.task].role) :
          IF answer = "useless" \/ ~Granted(tasks[worker.task]) THEN Then("finish", "FAILED")
          ELSE IF answer = "proposal" THEN Then("propose", "none")
          ELSE Then("finish", "SUCCEEDED")

\* Under the lock that registrations take too: a last check, then the draft is stored.
StoreDraft ==
    /\ worker.at = "propose"
    /\ LET granted == Granted(tasks[worker.task])
       IN  /\ tasks' = IF granted THEN [tasks EXCEPT ![worker.task].draft = "DRAFT"] ELSE tasks
           /\ worker' = [worker EXCEPT !.at = "finish",
                                       !.result = IF granted THEN "SUCCEEDED" ELSE "FAILED"]
    /\ UNCHANGED <<groups, order, calls, env, started>>

FinishTask ==
    /\ worker.at = "finish"
    /\ tasks' = [tasks EXCEPT ![worker.task].status = worker.result]
    /\ worker' = [Idle EXCEPT !.at = "schedule"]
    /\ UNCHANGED <<groups, order, calls, env, started>>

End ==
    /\ worker.at = "schedule"
    /\ Save(Scheduled(FALSE))
    /\ worker' = Idle
    /\ UNCHANGED <<order, calls, env, started>>

\* A database error: the failure of the task, or, when even that cannot be stored, the
\* end of this round with the task left RUNNING.
AccessFails ==
    /\ worker.at # "idle" /\ faults < MaxFaults
    /\ faults' = faults + 1
    /\ \/ worker' = Idle
       \/ /\ worker.at \in {"propose", "finish"}
          /\ worker' = [worker EXCEPT !.at = "finish", !.result = "FAILED"]
    /\ UNCHANGED <<tasks, groups, order, calls, cases, current, auto, now, changes, started>>

RecoverToPending ==         \* faulty: what was interrupted is run again
    [i \in Ids |-> IF tasks[i].status = "RUNNING" THEN [tasks[i] EXCEPT !.status = "PENDING"]
                   ELSE tasks[i]]

\* recover_tasks: what became of an interrupted call is unknown, it is not made again.
RecoverTasks ==
    [i \in Ids |-> IF tasks[i].status = "RUNNING" THEN [tasks[i] EXCEPT !.status = "FAILED"]
                   ELSE tasks[i]]

\* The process stops anywhere and is started again, perhaps with another setting.
Restart ==
    /\ faults < MaxFaults
    /\ faults' = faults + 1
    /\ tasks' = RecoverTasks
    /\ worker' = Idle
    /\ auto' \in BOOLEAN
    /\ UNCHANGED <<groups, order, calls, cases, current, now, changes, started>>
-----------------------------------------------------------------------------
Work ==
    \/ Begin \/ Ask \/ StoreDraft \/ FinishTask \/ End
    \/ \E expired \in SUBSET {i \in Ids : tasks[i].status \in Open} : ClaimTask(expired)

Next ==
    \/ \E f \in Formats : Find(f) \/ Observe(f) \/ Investigate(f) \/ Request(f)
    \/ \E i \in Ids : Decide(i)
    \/ Schedule \/ Register \/ Tick \/ Work \/ AccessFails \/ Restart

Spec == TasksInit /\ [][Next]_vars
-----------------------------------------------------------------------------
IsStarted(i) == tasks[i].attempts > 0
StartOf(i) == Min({s.at : s \in {r \in started : r.task = i}})
Proposals(f) == {i \in Ids : tasks[i].case = f /\ tasks[i].role = "adapter"}

(* Types; a group points to tasks of its own case, and has its turn in each *)
(* round of scheduling.                                                     *)
TasksTypeOK ==
    /\ tasks \in Seq(TaskRecords)
    /\ groups \in [Formats -> GroupRecords \cup {None}]
    /\ order \in Seq(Formats)
    /\ \A f \in Formats : groups[f] # None <=> \E n \in 1 .. Len(order) : order[n] = f
    /\ \A f \in Formats : groups[f] # None =>
          {groups[f].task, groups[f].adapter, groups[f].refunded} \subseteq Proposals(f) \cup {0}
    /\ calls \in [0 .. Day(MaxTime) -> Nat]
    /\ cases \subseteq Formats
    /\ {now, faults, changes} \subseteq Nat /\ current \in BOOLEAN /\ auto \in BOOLEAN
    /\ worker \in Workers
    /\ worker.task # 0 => tasks[worker.task].status = "RUNNING"

(* A task is started once, whatever stops the process, and two threads and  *)
(* any number of people never have two open tasks of one kind for a case    *)
(* (docs/usage.md:68,72: no duplicate requests, a running task is shared).  *)
NoDuplicateRequest ==
    /\ \A i \in Ids : tasks[i].attempts <= 1
    /\ \A i, j \in Ids : /\ {tasks[i].status, tasks[j].status} \subseteq Open
                         /\ tasks[i].case = tasks[j].case /\ tasks[i].role = tasks[j].role
                         => i = j

(* Per UTC day no more tasks are started than the limit allows, and per     *)
(* format no more automatic ones than the attempts: every start stays       *)
(* counted, although tasks stopped before their start give their attempt    *)
(* back (docs/usage.md:49,54,70).                                           *)
CallsAreBounded ==
    /\ \A d \in 0 .. Day(MaxTime) : Cardinality({s \in started : Day(s.at) = d}) <= DailyLimit
    /\ \A f \in Formats : groups[f] # None =>
          LET Starts == {i \in Proposals(f) : IsStarted(i) /\ tasks[i].pinned}
          IN  /\ Cardinality(Starts) <= groups[f].attempts
              /\ Cardinality({i \in Starts : tasks[i].automatic}) <= MaxAttempts

(* As long as nobody asks by hand, a proposal is started again only with    *)
(* evidence that no earlier one had, and after the waiting time             *)
(* (docs/usage.md:68, docs/adr/0003:15), also after a crash.                *)
RetryIsEarned ==
    \A f \in Formats : \A i, j \in Proposals(f) :
        (/\ i < j /\ IsStarted(i) /\ IsStarted(j)
         /\ \A k \in Proposals(f) : tasks[k].automatic)
        => /\ tasks[i].evidence < tasks[j].evidence
           /\ StartOf(i) + RetryDelay <= StartOf(j)

(* While the draft of a group awaits approval, no further task is queued    *)
(* automatically (docs/usage.md:68, docs/adr/0003:15), other than for one   *)
(* that was stopped before its start.                                       *)
QuietWhileAwaiting ==
    \A f \in Formats :
        (groups[f] # None /\ groups[f].adapter # 0 /\ tasks[groups[f].adapter].draft = "DRAFT")
        => ~ \E j \in Proposals(f) : /\ tasks[j].automatic /\ tasks[j].status = "PENDING"
                                    /\ \A k \in Proposals(f) : k < j => IsStarted(k)
=============================================================================
