# OpSyne in TLA+

OpSyne watches services, opens cases from evidence, has a language model or a
person draft an operation plan, has another person approve it, executes it once
against the operated service, and closes the case after an independent check.
This directory holds TLA+ modules translated from the source, TLC configurations
that check them on small instances, and theorems that TLAPS checks for every
value of the constants. Paths below are relative to the repository root.

Run from this directory:

    tlc -workers 2 -config MCRuntimeCompete.cfg MCRuntime
    tlapm RuntimeProofs.tla

## 1. Inventory

| Component (source) | State it keeps | Operations | Correct when |
|---|---|---|---|
| Control database (`src/opsyne/control/repository.py`) | services, capabilities, checks, cases, plans, claims, permits, generation, restore quarantine; tasks, budget, event interpretations, audit log | registration, `add_finding`, `create_plan`, `approve`, `reject`, `issue_permit`, `verify_permit`, `execution_finished`, `release_unsent`, `advance_generation`, ...; `enqueue`, `claim_task`, `finish_task`, `recover_tasks` | a version names one content; a reserved service is held by an approved and current plan; a case is closed only over the evidence its plan had; a task is claimed once and within the budget |
| Runner (`src/opsyne/runner/service.py`) | ledger of executions, in a database of its own | `execute`, `reconcile`, `recover_in_flight` | one row per plan, written before anything is sent, truthful and final once definite |
| Runtime (`src/opsyne/runtime.py`) | execution lock, poll lock, worker threads; verifications in the control database | `start`, `stop`, `execute`, `reconcile`, `verify`, `process`, `poll`, `reprocess`, `run_task` | ledger and claims agree through errors, retries and crashes; evidence is processed once |
| Connectors (`src/opsyne/connectors/`) | the demo target's database; nothing for HTTP | `execute`, `lookup`, `check` | never a definite answer that is untrue; idempotent where a history exists |
| Verification (`src/opsyne/verification/service.py`) | nothing | `verify` | independent of the operation's own answer |
| Storage (`src/opsyne/storage/`) | SQLite files, instance lock | transaction, lock | a failed transaction changes nothing; one process per state directory |
| Collector (`src/opsyne/collector/service.py`) | sources, raw evidence, file positions, pending marks | `register_source`, `ingest`, `poll_files`, `pending`, `ack`, `coverage` | every complete line becomes evidence once, through rotation and crashes |
| Discovery scheduling (`src/opsyne/control/discovery.py`) | discovery rows, tasks | `observe`, `schedule`, `request` | one open task per discovery, retry windows kept |
| Adapter registry (`src/opsyne/control/adapters.py`) | proposals and their states | `propose`, `approve`, `revoke` | what is active is what a person approved; active definitions do not overlap |
| Normalization, detection (`src/opsyne/normalization/`, `src/opsyne/detection/`) | nothing | pure functions from evidence to events and findings | total, and strict about precedence of adapters |
| Agents, gateway (`src/opsyne/agents/`, `src/opsyne/gateway/`) | nothing | calls to a language model with redaction and checked responses | an invalid answer becomes an error, never a plan |
| Discord outbox (`apps/discord_bot/src/opsyne_discord/delivery.py`, `sender.py`) | outbox rows | `enqueue`, `claim`, `finish`, `recover_abandoned`, `reconcile`, `run_once` | a message whose outcome is unknown is not sent again by itself |
| Discord interactions (`receipts.py`, `bridge.py`, `app.py`, `presentation.py`) | receipts | commands and buttons: forward once, render the reply | an interaction is forwarded at most once; what a person reads is true; only a plan shown in full can be approved |
| HTTP API (`src/opsyne/api/`) and queries | none of its own | endpoints, roles | the role table, and the endpoint-only guard of `release_unsent` |
| Backup and restore (`src/opsyne/cli.py`) | copies of the databases, marker, manifest | `backup`, `restore` | what can be started is one state of all databases; a restored copy executes nothing approved before, and nothing until acknowledged |
| Dashboard (`src/opsyne/web/`) | none | view | - |

How they interact. Every database method is one `BEGIN IMMEDIATE` transaction
(`storage/database.py:29-40`), but the control database and the ledger are two
files: no transaction spans them. `Runtime.execute` therefore walks from one to
the other, under `_execution_lock`, through a connector and back; the API serves
requests from a thread pool, so requests that take no lock (registrations,
findings, approvals, rejections, revocation) fall between any two of its steps.
Two more threads run the observation loop (collector to control) and the
investigation loop (tasks to agents). The Discord bot is a process of its own.

What is hard, and what the modules are for: a crash or a failed write between two
databases; an answer that is lost while the request is still on its way; a client
that retries; what an approval still means after registrations, new evidence,
revocation or expiry; two plans after one service; a lock with many exits; work
acknowledged in another transaction than it was done in. `PROJECT.json` lists
each hazard at its line with the properties that watch it, or why none does yet.

## 2. Plan

1. **Control** and **Runner** (tables and transactions), **OperatedTarget** (the
   connectors' other end), **Runtime** (their composition: threads, lock, crashes),
   **Operations** (what executing a plan promises). *Done, with proofs.*
2. **Outbox** (the Discord bot's durable notifications) and **Delivery** (what they
   promise). *Done, with proofs of safety and of the refinement.*
3. **Collector** (polling a file that is written, truncated and rotated meanwhile) and
   **EvidenceLog** (what it promises). *Done, with proofs of safety and of the refinement.*
4. **Tasks**: task table, groups, budget, scheduling, the investigating thread,
   restart. *Done, with proofs.*
5. **Observation**: poll, process, reprocess, acknowledgement, and the review of
   adapters. *Done, with proofs.*
6. **Interactions** of the Discord bot: receipts, the bridge and its replies, over
   restarts and repeated deliveries. *Done, with proofs.*
7. **Backup**: databases copied one after the other, commands killed at any point,
   restore, quarantine and acknowledgement. *Done, with proofs.*
8. Open: pagination of the queries; the pure functions of normalization and detection
   stay out (section 7).

An abstract specification worth adding: what a case promises to a user, from its
evidence to its closure (`ResolvedWasVerified` and `ReopenedByEvidence` are parts of it).

## 3. Modules

| Module | Models | State and actions |
|---|---|---|
| `Identifiers` | ids and the fixed links between them | constants only |
| `Control` | `control/repository.py` without tasks, budget, audit | one variable per table; one action per method |
| `Runner` | `runner/service.py` | `ledger`; `RecordIntent`, `Store`, `RecoverInFlight` are its transactions |
| `OperatedTarget` | connectors against the service they operate (external) | `requests`, `applied`, `inTransit`, `history`; `DemoExecute`, `HttpExecute`, `Arrive`, `Vanish`, lookups |
| `Runtime` | `runtime.py` execute, reconcile, verify, start, and the release endpoint | `call[t]` is a request thread's program point and locals; one action per transaction or external call; `AccessFails`, `Crash`, `Start` |
| `Operations` | abstract: the promise | `stage`, `holder`, `effect` |
| `Outbox` | `delivery.py`, `sender.py` of the Discord bot | `rows`, `cooldown`, `lock`, `sender[t]`; Discord and its network as `shown`, `inTransit`; one action per transaction, request or process start and end |
| `Delivery` | abstract: the promise of the outbox | `stage`, `visible` |
| `Collector` | file polling of `collector/service.py` | `content`, `path` (the writer's side); `state`, `raw` (the database); `poll`, the running poll: `Open`, `Compare`, `ReadChunk`, `Commit` are its system calls |
| `EvidenceLog` | abstract: the promise of the collector | `lines`, `generation`, `position`, `gaps` |
| `Tasks` | tasks and budget of `control/repository.py`, `control/discovery.py`, `run_task` | `tasks`, `groups`, `calls`; `worker` is the investigating thread; a transaction is an action, its parts are operators on `[tasks, groups]` |
| `Observation` | `process`, `poll`, `reprocess`, `control/adapters.py` and their endpoints | `received`, `current`, `cases`, `acked`, `adapters`, `version`; `lock`, `thread[t]` |
| `Interactions` | `receipts.py`, `bridge.py`, the endpoint in `app.py`, the buttons of `presentation.py` | `receipts`; `handler[h]`, an HTTP request with its locals; the bridge (external) as `inTransit` and `approved`; `answered`, what Discord showed |
| `Backup` | `cli.py` backup and restore, the checks of `Runtime.__init__` | `files`, `control`, `ledger`, `applied` of each directory; `lock`; `command[c]` at one of its steps; `call[d]`, an execution of the instance |
| `ControlProofs`, `RuntimeProofs`, `OutboxProofs`, `CollectorProofs`, `TasksProofs`, `ObservationProofs`, `InteractionsProofs`, `BackupProofs` | theorems | inductive invariants, one lemma per action or group of actions |
| `MCRuntime`, `MCOutbox`, `MCCollector`, `MCTasks`, `MCObservation`, `MCInteractions`, `MCBackup` | instances for TLC | |

Correspondence. A row that does not exist has status `"NONE"`. `Execute`,
`Reconcile`, `Verify`, `Release` are a request entering a method with the lock;
`Step(t)` is the rest, one action per commit: `Prepare`, `Issue` (`issue_permit`),
`RecordStep` (validation and the INSERT of the intent), `Dispatch` (IN_FLIGHT),
`Authorize`, `Recheck`, `Reauthorize` (the `authorize` closure that the runner
calls last), `Send` (the connector), `StoreResult`, `Finish`
(`execution_finished`), `Status` (`case_status`). `Deny` and `Handle` are the two
`except` clauses. `AccessFails(t)` is a database access that raises at the point
where the thread is, with the exit that the enclosing `try` gives it.

Abstractions of Control and Runtime, each chosen because no property tells the
difference:

* A version stands for content. Names, payloads, success conditions and texts are
  dropped; a check is one of `CheckConfigs`, an operation has a `kind`. There is
  one registered operation per service. Services start registered and enabled at
  version 1, with the operation, without a check.
* A plan's body never changes apart from status, approver and generation, so its
  digest and the permit's signature always match and are left out.
* Case ids, plan ids and their links are fixed in advance (`CaseOf`, `ServiceOf`);
  creating one changes its status from `"NONE"`.
* Evidence arrivals are numbered per case; a body lists the newest
  `EvidenceLimit`. A finding whose evidence the case already has changes nothing
  and is a stutter; events of one finding that carry several ids are several.
* The clock only moves forward: `ExpirePlan` and `ExpirePermit` may happen at any
  time. A permit never outlives its plan (`repository.py:521`, the minimum).
* Roles are checked where the control database checks them (`create_plan`,
  `approve`); the API's role table for the other endpoints only says who may ask.
* The demo target may refuse an operation (unknown service) or not, and commit
  with or without reporting; its history makes it idempotent. An HTTP target that
  answers 4xx is taken not to have acted, as `connectors/http.py:94` does.
* The restore quarantine may be on or off initially: a fresh state directory has
  it off, a restored one on.
* The audit log is written in the same transactions and read by no modelled code.
* `verification` keeps of a stored check its result and, as history, the ledger status
  at that moment, so that a check before the success can be told from one after it.

Of Outbox:

* Rows that waited equally long are claimed in any order (the code breaks the tie
  by id). The clock is whole numbers and never goes back.
* Every 4xx but 429 is taken to have had no effect, as `delivery.py` does; any other
  failure may still arrive. A message appears at most once per request.
* An event enqueued again with the same content changes nothing, with other content
  it is refused; both are left out. A person reconciles only what they have seen.
* If a sender dies between a 429 and `finish`, the row becomes UNKNOWN and the pause
  is lost; `RateLimitStopsAll` is about rate limits that were recorded.

Of Collector:

* Offsets count cells; a line is some cells, the last marked as its end. No two
  cells are alike, as in logs whose lines carry a time: equal files would be equal
  to the code too, and their anchors could not tell them apart.
* A truncation leaves any part at the beginning of the file as it was. A file shortened
  below the cursor is read from its start under a new generation, so what was left is
  received again: that is what `service.py:373-378` does, and `ReceivedOnce` allows it
  for those cells only (`kept`, history) and in another generation only. The `file` and
  `place` of a cell are history too.
* One file source. `last_error` and the coverage counters are left out; a poll that
  fails changes nothing else. An inode is reused only when no poll has it open.

Of Tasks:

* Evidence is counted. The 300 seconds of a task may be over at any time.
* `current` stands for "source and service are enabled and of the group's version".
  A format that is no JSON object has a group that is never queued: left out.
* A round of scheduling is one transaction that goes through all groups in the order
  they were made (`order`); `Scheduled` is a recursive function over the turns.
* A draft has the id of its task and is kept in its row; approval and revocation
  (with their own guards) are in Observation. Whether a proposal passes the checks
  on samples and overlaps is a free choice in `Answers`.
* The reports that `finish_task` stores besides the status are left out.

Of Observation:

* One source of one service. A document has values at paths, a definition asks for
  values at some; it fits when they are equal (`Matches`), and what fits is interpreted
  completely (KNOWN). Paths are independent of each other, which allows more documents
  than JSON has; the types and the conversion of fields are left out. PARTIAL and
  INVALID are not distinguished from what `Unknown` stands for.
* The name and digest of a definition always match (a request with another digest is
  refused and changes nothing), and the explanation's text is left out: what is kept
  is who wrote it. The proposer and the editors are one set, `authors`.
* The finding of an unknown event and its group are one action, `Report`; they are
  separate actions of Tasks. The parse status in the collector's database is left out.

Of Interactions:

* The bridge is not part of this repository. It is modelled by what
  `apps/discord_bot/docs/control-bridge.md` asks of it (an approval is recorded once and
  durably before it is announced, a refused one is not recorded later) and by what
  `bridge.py` accepts: any kind of reply, also one that does not fit the action.
* A fingerprint is the body. A card is what it says, whether all terms stand on it and
  whether the approving button does; lengths, fields and texts are behind `full`.
* Deliveries refused for their signature, age, sender or channel, and unknown commands,
  touch no state and are left out.

Of Backup:

* Of a database the model keeps permits, intents and operations, and the generation and
  quarantine. SQLite's online backup is atomic for one file: a file is absent, created or
  whole. `tokens.json` and the demo marker, copied with the key, are left out.
* An instance may be started on any directory that looks complete, also directly on an
  archive, which then has no quarantine: the guarantee is about `restore`. The first
  start in an empty directory is not modelled, and nobody does it in the directory of a
  command that was interrupted right after `mkdir`.
* An approval is per plan and generation; a service has one plan.

Constants that bound TLC only: `MaxVersion`, `MaxGeneration`, `MaxEvidence`,
`MaxFaults`, `MaxTime` and `MaxStops` of Outbox, `MaxCells`, `MaxChanges`,
`MaxFailures`, `MaxTasks`, `MaxInvestigations`, `MaxEvents`, `MaxServers`. They appear as guards,
so a theorem covers them at every value.

## 4. Runs

| Run | Instance | Question and answer |
|---|---|---|
| `runtime_compete` | 2 plans, 2 threads, 1 crash or failed access | Is anything sent or applied twice, reservations lost, the ledger untrue, a sent plan rejected? No; and every step is a step of `Operations` (`KeepsPromise`). |
| `runtime_change` | 1 plan, 2 threads, 2 checks, 2 versions, 2 generations, 3 arrivals of evidence with 1 listed, 1 fault | Is what is sent what was reviewed, does revocation stop what is not past its last authorization, is a case closed only on a check that passed after the success was known, not kept closed over new evidence, and opened again only by it? Yes. |
| `runtime_live` | 1 plan, 2 threads, 2 faults, fair | Does every call return, is every reservation without an open outcome given back, does an operation in the demo history get settled? Yes. |
| `runtime_recheck` | 1 plan, 1 thread, no faults | Is a case always closed on the check its plan names? No: section 6. |
| `outbox` | 3 notifications (1 in a channel that is not allowed), 2 senders, 1 death, time to 2, fair | Is anything shown twice, a state untrue, another row posted during a recorded rate limit? No; every step is a step of `Delivery`; and every notification leaves the queue for an outcome or a doubt, also one that was being sent when its sender died. |
| `interactions` | 3 interactions (a review, its confirmation, a third), 1 request, 2 HTTP requests at a time | Is an interaction forwarded twice, a person told something untrue or two different results, a plan approved that was not displayed in full? No. |
| `backup` | 3 directories, 2 commands, 1 instance at a time, 1 plan, 2 generations | Can a directory be started that is not one state, or a restored one execute what was approved before or without an acknowledgement? No. |
| `collector` | 2 inodes, 4 cells, chunks of 3, anchors of 2, 1 line per poll, 2 truncations (to nothing or to a part) or rotations, 1 failed poll, fair polling | Are rows whole, contiguous within a generation, not received twice but for what a truncation left, and does polling catch up? Yes; and every step is a step of `EvidenceLog`. |
| `collector_rewrite` | as above, smaller | Is a rewritten file always a new generation? No: section 6. |
| `tasks` | 1 format, 1 call a day, days of 2 and retries after 2 units of time, 2 attempts, 3 tasks, 1 fault, 1 registration | Is a task started twice, a request duplicated, a limit exceeded, a retry unearned? No. |
| `tasks_awaiting` | 1 format, no faults | Is nothing queued automatically while a draft awaits approval? No: section 6. |
| `observation` | 2 threads, 2 adapters, 3 definitions, 1 document, 1 person beside the agent, 2 versions, 1 event, 1 fault | Is an event acknowledged before it is stored and reported, a revoked adapter used, an adapter approved by an author or beside an overlapping one? No. |

Why the bounds suffice. Competition for a service needs two plans; the execution
lock makes a second thread wait, and two threads show it. The registrations that
matter are one change (version 2), the list limit that matters is one more
arrival than is listed, and a revocation is one increment of the generation. One
fault puts a crash or a failed access at every point of a call; liveness is
checked with two, so that a recovery can itself fail. The theorems of section 5
remove all these bounds for the safety properties they name.

In `outbox` two rows of allowed channels compete and a third is refused; a death leaves
one SENDING (two deaths hold as well, with two notifications). In `interactions` an
approval takes a review and a confirmation, and a third interaction has an id of its own;
two requests at a time make every repeated delivery concurrent with the first. In
`backup` the third directory is a restore of the second, and two commands race for one
destination, or one copies what the other writes (two instances with one command hold as
well). In `collector` a chunk holds two short lines of which a
poll takes one, or a line and half of the next, and an anchor is shorter than a
file; two changes are a rotation back to a reused inode, or a truncation of a rotated
file; two cells of three left by a truncation are a line that is read again, also joined
with what is written behind it. `ChunkCells` exceeds the anchor, as 1 MiB exceeds 256 bytes. In `tasks` a second
attempt needs new evidence or a refund, and a second day begins within `MaxTime`: a start
at 1 has its retry due after the next day's budget is open, so the waiting time and not
only the daily limit has to hold it back (that midnight is later than `RetryDelay`, in
`Retry`, is left to the theorems). In
`observation` events do not affect each other: one event puts a poll, a reprocessing
and a revocation at every point of its way. Of the three definitions two overlap
although they differ, and two exclude each other. With one person nobody can
approve what they and somebody else edited: two people are too many states for this run
(by themselves, with one thread and no faults, they hold), and `ApprovalsAreSound` covers
any number of people. In `tasks` two formats that compete for
one call a day hold as well, with four tasks and no faults (2.6 million states).

Symmetry is used only over plans, checks, threads, adapters, interactions, HTTP
requests, commands and the directories that do not exist yet, never in a run with a
liveness property. Deadlock is checked in `interactions` and `backup`; in the other
models the system rightly rests when all bounds are reached and no request is made.

Fairness. `WF(Step(t))`: a request thread that is inside a call is scheduled by the
operating system; a call has no wait on another thread once it has the lock, and
connectors have timeouts. `WF(Start)`: a supervisor restarts the process.
`OperatorFairness` is an assumption on people, not on the code: whoever sees a
reservation keeps retrying (execute again, reconcile, or release as unsent), and
as Python's lock is unfair, needs strong fairness to get in. Without it nothing
in OpSyne releases a claim by itself (documented: `docs/usage.md:191`), and
nothing is assumed about registering, approving or the network.

Outbox: `WF(Step(t))` and `WF(Tick)`, a running process and the clock go on;
`SF` of starting a worker, because a supervisor starts it again after each death (the
lock of a dead process is released by the operating system). Rate limits end because
no delay goes past `MaxTime`. Collector: `WF(Poll)`, the observation loop polls every
two seconds and survives exceptions (`runtime.py:139-147`); nothing is assumed of the
writer.

## 5. Proofs

`ControlProofs`: `ControlInv` is inductive for `ControlSpec`, in which the
runtime's calls come in any order. `HeldPlanIsCurrent` needs `ApprovedByAnother`
(a claim is created from an approved plan), `VersionPinsTarget` needs the type
invariant's "a plan has a registered check", and `ResolvedIsCovered` needs that
versions only bound, never shrink, what plans froze. These stand below what the runs
check: `SentAsReviewed` and `ResolvedWasVerified` fail where one of them does. Theorems: `ControlTypes`,
`VersionsPinTargets`, `HeldPlansAreCurrent`, `ResolvedCasesAreCovered`.

`RuntimeProofs`: every step of the runtime is one control transaction or leaves
the control database alone (`StepIsTransaction`), so `ControlInv` carries over.
`RuntimeInv` adds, for each plan, how ledger, claim and target agree (`PlanInv`)
and, for each thread, what its program point has established (`CallInv`): for
example a thread about to send knows that its row is IN_FLIGHT and that nothing was
sent. Neither is inductive alone: `UnresolvedIsClaimed` survives `RecordStep`
only because a thread at `record` holds the claim, and that survives other
requests only because the lock is exclusive and `Reject`, `ReleaseUnsent` and
`ExecutionFinished` cannot take a claim from under a recorded plan. The lemmas
treat one call at a time (`OneCallIsEnough`), then each group of steps: local,
ledger, sending, control transactions, entering, outside requests, crash and
restart. Theorems: `RuntimeTypes`, `OperationsAreSentOnce`,
`UnresolvedPlansAreClaimed`, `LedgersAreHonest`,
`RejectedPlansWereNeverSent`, `OperationsAreSentAsReviewed`, `OutcomesAreFinal`.

Three properties need more. `RevokedIsNotSent` compares the generation of a plan with
that of its permit: `PermitIsOfApproval` says that a permit in force is of the
generation its plan was approved in, and `PointStep` that a call gets to the point of
sending only by `Reauthorize`, which looks at the permit. `ResolvedWasVerified` needs
`ClosingInv` (the check stored for the plan of a thread about to close a case passed, and
was stored when the success was known), which the other threads keep because only `Observe`
stores checks (`ChecksChange`) and whoever is there holds the lock. `ReopenedByEvidence` needs
`CaseIsOpen`: from its permit to the status it leaves, the case of an execution is not
closed, since the permit looked at the case and whoever closes one needs the lock.
Theorems: `RevokedPlansAreNotSent`, `ResolvedCasesWereVerified`,
`CasesAreReopenedByEvidence`.

Its second part proves that `Runtime` implements `Operations`: `StageTable` reads the
stage of a plan off its row, its ledger row and the claim, and each group of steps
moves one plan to the stage the promise allows, or nothing (`StepKeepsPromise`), so
`OperationsAreImplemented`.

`OutboxProofs`: `OutboxInv` is the type invariant with the exclusive lock, `RowInv` (how
the state of a row, the messages shown and the requests in transit agree) and
`SenderInv` (what the sender at each point knows: at `post` its row is SENDING, nothing
was shown and nothing is in transit; at `finish` its outcome is true). `RowInv` is not
inductive alone, since storing an outcome is right only because of the point the
sender is at, and that survives the others only because the lock is exclusive.
From it follow `OutboxTypes`, `NotificationsAreShownOnce`, `StatesAreTrue`, the
action properties `DoubtsAreNotRetried` (proved only; it needs no run of its own
beside the refinement) and `RateLimitsStopAll`, and the refinement of `Delivery`,
`DeliveryIsImplemented`.

Assumed: `IdentifiersAssumption`, `ControlAssumption`, `RuntimeAssumption`,
`OutboxAssumption`, `CollectorAssumption`, `ObservationAssumption`, `InteractionsAssumption`,
`BackupAssumption`, `TasksAssumption` and the `NoneAssumption` of three modules, all about constants (links are
functions between the id sets, `None` is none of them, sizes and bounds are naturals).
Services, cases, plans, actors, threads, notifications, senders, inodes, formats, adapters,
definitions, documents, interactions, requests, directories and commands are arbitrary
sets.

`InteractionsProofs`: `InteractionsInv` says of a row which answers it may have led to
(`RowInv`), of a request what its program point has established (`HandlerInv`: before
`Forward` nothing was sent, at `await` nothing is answered yet), of what is on its way to
the bridge whose payload it is (`TransitInv`), and that an approval was recorded for an
interaction that confirmed (`ApprovalInv`). `ForwardedOnce` is not inductive alone: it
holds because a row without a response is served by one request only, and that request
is gone for good after a restart. Theorems: `ForwardedOnceHolds`, `AnswersAreTrueHolds`,
`AnswersAgreeHolds`, `ApprovedWasShownHolds`.

`CollectorProofs`: `CollectorInv` adds to the three safety properties what makes them
inductive. `CellsInv`: no cell is written twice, and those of a chunk were not collected
before, unless a truncation left them in the file. `PlaceInv`: a cell stays where it was
written and its row knows where, so what is read twice is not of one generation, whose
rows `RowsAreContiguous` keeps apart. `PointInv`: what a poll decided by comparing, the cursor of the same generation
or the start of the next. `LiveInv` is the heart: if the file at the path, or the one
that is open, has a collected cell written after its last truncation, then it is the file
of the cursor, the cell is before the cursor and the anchor fits, so no comparison takes
the file for a replaced one. Contrapositively a file that is read from its start has
nothing that was collected but what truncations left, although it may be truncated and
rewritten between any two system calls. `PlainInv` is
the case without truncation or rotation, on which `AppendedFilesAreCollected` rests.
The refinement of `EvidenceLog` comes down to commits: the rows of a chunk are whole
(`RowIsWhole`), leave nothing out up to the cursor (`RowsCover`, by the first line that
ends behind a place), and are new, as `RowsAreContiguous` has the old ones before it.
`RowsAreContiguous`, which the promise implies, is part of the invariant and of no run.
Theorems: `CollectorTypes`, `RowsAreContiguousHolds`, `NothingIsReceivedTwice`,
`AppendedFilesAreCollected`, `EvidenceIsLogged`.

`TasksProofs`: the tables are changed by transactions made of parts (`Refresh`, `Queue`,
a turn of `schedule`), so the invariant `TablesInv` is stated of any tables
`[tasks, groups]`, and each part is a lemma that takes tables with the invariant to such
tables (`RetryIsPart`, `NewIsPart`, `QueueIsPart`, ...). A round of scheduling goes
through any number of groups: `Turn` shows that the recursive function has the value its
equation says, and `ScheduledIsPart` is the induction over the turns, both by taking the
least number of turns after which it would fail (a well-founded minimum, as the library's
induction theorems cannot be instantiated). What makes the properties inductive:
`PointerInv` (a group points to its last task and to the one that is open, so that no
other task can be waiting), `EvidenceInv` (the evidence the group asked with is that of
its task, and while it is open the group is not due; a due time is a waiting time after
every start of the task) and `CountInv` (each task that was started, and the one that
still may be, has an attempt of its own, so that a refund takes only an attempt of a
task that is not started). `RetryIsEarned` needs all three: a new proposal looks only at
the last one, and `RetryInv` carries what it finds to all earlier ones. Theorems:
`TasksTypes`, `RequestsAreNotDuplicated`, `StartsAreBounded`, `RetriesAreEarned`.

`ObservationProofs`: `ObservationInv` says what a thread that holds the lock has read and
still finds (`ThreadInv`: the chosen adapter is approved, the event stored), that while
an adapter is being withdrawn it still interprets only what its thread has left to
reprocess (`RevokingInv`), that what was withdrawn stays revoked and interprets nothing (`WithdrawnInv`), that stored authors are
everyone who wrote (`AuthorsInv`), and that active definitions for one version are
separated at a path (`SeparateInv`). `RevokedIsNotUsed` needs `ThreadInv`: a poll could
record a revoked adapter if another thread could revoke while it holds the lock. That
separated definitions fit no document together is the lemma `SeparatedFitNone`, for
documents with any values. Theorems: `ObservationTypes`, `AcknowledgedIsProcessed`,
`RevokedAdaptersAreNotUsed`, `ApprovalsAreSound`.

`BackupProofs`: `BackupInv` says what a directory holds (`DirectoryInv`: a whole key means
that all databases are whole and of one moment, an instance runs only where it could be
started, and a restored directory stays quarantined until acknowledged, with no approval
in force but those given there), of a command what it has done (`CommandInv`, with `CopyInv` on what is already copied), and that
two commands never write the same directory (`ApartInv`). `StartableIsWhole` is not
inductive alone: that the key comes last says nothing without `CopyInv`, and that holds
only while the source is locked. Theorems: `BackupTypes`, `WhatStartsIsWhole`,
`PermitsAreIssuedAnew`.

Only model-checked: liveness, which is beyond the prover (`CallsReturn`,
`ClaimsAreReleased`, `AppliedIsReconciled`, `EveryNotificationSettles`,
`PollingCatchesUp`).

## 6. Findings

`Runtime.verify` compares the service's version with the plan's in one transaction
(`src/opsyne/runtime.py:352`) and reads the registered check in another (`:358`,
through `check`, `:263`). The execution is over by then and no claim is held, so
`set_check` may replace the check in between, and a PASS of the replacement closes
the case although the plan names the earlier one as its success condition
(`src/opsyne/control/repository.py:406`). `runtime_recheck` shows it with
`VerifiedByPlannedCheck`.

`Collector._poll_file` decides whether a file was replaced from its identity, its size
and the 256 bytes before the position (`src/opsyne/collector/service.py:365-375`),
and reads the next chunk in a later system call (`:380`). If the file is truncated and
rewritten past the position in between, the poll takes a fragment of the new file as
the continuation of the old, the new anchor is computed from the new file (`:393`), and
no gap is ever recorded, although `docs/usage.md:132` has truncation and rotation
recorded as gaps. `collector_rewrite` shows it with `GenerationIsOneFile`.

`AdapterDiscovery._refresh` looks only at the draft of a group's latest task
(`src/opsyne/control/discovery.py:186-191`). When a person asks for another proposal
and that fails, the group waits for a retry although an earlier draft still awaits
approval, and new evidence has another proposal queued automatically, which
`docs/usage.md:68` and `docs/adr/0003-automatic-adapter-proposals.md:15` say is held
back. `tasks_awaiting` shows it with `QuietWhileAwaiting`.

Everything else the runs and theorems ask holds.

## 7. Not modelled

Normalization and detection: which adapter may interpret a document, and that two active
ones never both do, is part of Observation. How the formats of logs are read, how fields
are converted and how events are classified is not: these are pure functions of one
document, without state or interleaving, most of whose substance is text (dates, regular
expressions, escapes) that a model would have to put together character by character,
and the repository's unit tests reach them directly. Observation starts
from documents that are already read: values at paths.

The idempotency keys of pushed evidence, the registration of sources and the coverage
counters of the collector: one transaction each, without interleavings of interest. In
the models that use it, evidence arrives in any order the tables allow.

Language-model calls, HTTP serving, authentication tokens, the layout of Discord messages
and the dashboard are input and output around the modelled parts and enter as free
choices: an answer may be valid, invalid or missing.
