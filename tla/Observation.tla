---------------------------- MODULE Observation ----------------------------
(***************************************************************************)
(* From evidence to interpretations: delivery of pending events, the       *)
(* review of adapters, and reprocessing (poll, process and reprocess of    *)
(* src/opsyne/runtime.py, control/adapters.py, the acknowledgement of      *)
(* collector/service.py and their endpoints in api/app.py).                *)
(*                                                                         *)
(* One source of one service.  A document has values at paths; an adapter  *)
(* asks for values at some paths and interprets completely what it fits.   *)
(* A reviewer names a digest; any but the one stored is refused and        *)
(* changes nothing, so the requests here name the stored one.              *)
(***************************************************************************)
EXTENDS Integers, Sequences, FiniteSets

CONSTANTS
    Threads,        \* the collecting thread and threads of requests
    Adapters, People,
    Paths, Values,  \* of documents, and of the conditions of adapters
    Documents,      \* the documents that arrive
    Definitions,    \* the conditions that are proposed
    Agent,          \* proposes too, but neither edits nor approves
    Unknown,        \* the interpretation of a document no single adapter fits
    MaxEvents, MaxVersion, MaxFaults,           \* bounds
    None

\* What a document has at each path, or a definition asks for: None is nothing.
Contents == [Paths -> Values \cup {None}]

ASSUME ObservationAssumption ==
    /\ Documents \subseteq Contents /\ Definitions \subseteq Contents
    /\ {MaxEvents, MaxVersion, MaxFaults} \subseteq Nat
    /\ Agent \notin People /\ Unknown \notin Adapters
    /\ None \notin Adapters \cup Threads \cup People \cup {Agent, Unknown}

VARIABLES
    received,   \* documents of the raw events in row order
    current,    \* event -> its current interpretation: an adapter, Unknown or None
    cases,      \* events that are evidence of a case
    acked,      \* acknowledged events
    adapters,   \* adapter -> row, or None
    version,    \* registered version of the service
    lock,       \* _lock of the runtime
    thread,     \* what each thread is doing
    faults,
    withdrawn,  \* history: adapters whose revocation was reported as done
    wrote       \* history: adapter -> everyone who wrote a part of it

events == <<received, current, cases, acked>>
review == <<adapters, wrote>>
vars == <<events, review, version, lock, thread, faults, withdrawn>>

Events == 1 .. MaxEvents
Received == 1 .. Len(received)
Rows == [pinned : Nat, conditions : Definitions,
         authors : SUBSET (People \cup {Agent}),    \* the proposer and the editors
         approver : People \cup {None},
         status : {"DRAFT", "APPROVED", "REVOKED"}]
ASSUME NoneAssumption == None \notin Rows

Idle == [at |-> "idle", todo |-> {}, event |-> 0, chosen |-> None,
         job |-> "none", revokes |-> None]
ThreadRecords ==
    [at : {"idle", "snapshot", "loop", "record", "report", "ack"}, todo : SUBSET Events,
     event : Events \cup {0}, chosen : Adapters \cup {Unknown, None},
     job : {"none", "poll", "reprocess"}, revokes : Adapters \cup {None}]

ObservationInit ==
    /\ received = <<>>
    /\ current = [e \in Events |-> None]
    /\ cases = {} /\ acked = {}
    /\ adapters = [a \in Adapters |-> None]
    /\ version = 1
    /\ lock = None
    /\ thread = [t \in Threads |-> Idle]
    /\ faults = 0
    /\ withdrawn = {}
    /\ wrote = [a \in Adapters |-> {}]
-----------------------------------------------------------------------------
(* Evidence and registrations.                                             *)

\* ingest or a file poll, in the collector's database and without the lock.
Ingest(document) ==
    /\ Len(received) < MaxEvents
    /\ received' = Append(received, document)
    /\ UNCHANGED <<current, cases, acked, review, version, lock, thread, faults, withdrawn>>

RegisterService ==
    /\ lock = None /\ version < MaxVersion
    /\ version' = version + 1
    /\ UNCHANGED <<events, review, lock, thread, faults, withdrawn>>
-----------------------------------------------------------------------------
(* The review of adapters.                                                 *)

Status(a) == IF adapters[a] = None THEN "none" ELSE adapters[a].status

\* propose: bound to the registered version.
ProposeAdapter(a, conditions, who) ==
    /\ adapters[a] = None
    /\ adapters' = [adapters EXCEPT ![a] =
          [pinned |-> version, conditions |-> conditions, authors |-> {who},
           approver |-> None, status |-> "DRAFT"]]
    /\ wrote' = [wrote EXCEPT ![a] = {who}]
    /\ UNCHANGED <<events, version, lock, thread, faults, withdrawn>>

\* update_explanation: only of a draft.
UpdateExplanation(a, who) ==
    /\ lock = None
    /\ Status(a) = "DRAFT"
    /\ adapters' = [adapters EXCEPT ![a].authors = @ \cup {who}]
    /\ wrote' = [wrote EXCEPT ![a] = @ \cup {who}]
    /\ UNCHANGED <<events, version, lock, thread, faults, withdrawn>>

\* normalize: a value at every path the definition names, of the same type and equal.
Matches(document, conditions) ==
    \A x \in Paths : conditions[x] # None => document[x] = conditions[x]

Separated(c, d) == \E x \in Paths : c[x] # None /\ d[x] # None /\ c[x] # d[x]

Active(a, pinned) == Status(a) = "APPROVED" /\ adapters[a].pinned = pinned

OverlapsAsWritten(a) ==     \* faulty: takes other conditions for a separation
    \E b \in Adapters : /\ Active(b, adapters[a].pinned)
                        /\ adapters[b].conditions = adapters[a].conditions

\* _overlap: nothing separates it from an active adapter for the same target.
Overlaps(a) ==
    \E b \in Adapters : /\ Active(b, adapters[a].pinned)
                        /\ ~Separated(adapters[b].conditions, adapters[a].conditions)

\* approve, after a look at samples under the same lock.
ApproveAdapter(a, who) ==
    /\ lock = None
    /\ Status(a) = "DRAFT"
    /\ adapters[a].pinned = version
    /\ \E e \in Received : Matches(received[e], adapters[a].conditions)
    /\ who \notin adapters[a].authors
    /\ ~Overlaps(a)
    /\ adapters' = [adapters EXCEPT ![a].status = "APPROVED", ![a].approver = who]
    /\ UNCHANGED <<events, wrote, version, lock, thread, faults, withdrawn>>

\* _refresh of control/discovery.py, without the lock: another draft takes its place.
Supersede(a) ==
    /\ Status(a) = "DRAFT" /\ Agent \in adapters[a].authors
    /\ adapters' = [adapters EXCEPT ![a].status = "REVOKED"]
    /\ UNCHANGED <<events, wrote, version, lock, thread, faults, withdrawn>>

\* revoke under the lock; the endpoint then has everything interpreted anew without it.
RevokeAdapter(t, a) ==
    /\ thread[t] = Idle /\ lock = None
    /\ Status(a) # "none"
    /\ adapters' = [adapters EXCEPT ![a].status = "REVOKED"]
    /\ thread' = [thread EXCEPT ![t] = [Idle EXCEPT !.at = "snapshot", !.job = "reprocess",
                                                   !.revokes = a]]
    /\ UNCHANGED <<events, wrote, version, lock, faults, withdrawn>>
-----------------------------------------------------------------------------
(* Delivery and reprocessing.                                              *)

Becomes(t, record) == thread' = [thread EXCEPT ![t] = record]

\* poll holds the lock from here to its end; pending is read once, oldest first.
StartPoll(t) ==
    /\ thread[t] = Idle /\ lock = None
    /\ lock' = t
    /\ Becomes(t, [Idle EXCEPT !.at = "loop", !.job = "poll", !.todo = Received \ acked])
    /\ UNCHANGED <<events, review, version, faults, withdrawn>>

StartReprocess(t) ==
    /\ thread[t] = Idle
    /\ Becomes(t, [Idle EXCEPT !.at = "snapshot", !.job = "reprocess"])
    /\ UNCHANGED <<events, review, version, lock, faults, withdrawn>>

\* iter_raw: the rows that exist now.
Snapshot(t) ==
    /\ thread[t].at = "snapshot"
    /\ Becomes(t, [thread[t] EXCEPT !.at = "loop", !.todo = Received])
    /\ UNCHANGED <<events, review, version, lock, faults, withdrawn>>

Fitting(e) ==
    {a \in Adapters : Active(a, version) /\ Matches(received[e], adapters[a].conditions)}

\* normalize: exactly one adapter has to fit.
Interpretation(e) ==
    IF Cardinality(Fitting(e)) = 1 THEN CHOOSE a \in Fitting(e) : TRUE ELSE Unknown

Oldest(e, todo) == e \in todo /\ \A x \in todo : e <= x

Read(t) ==
    /\ thread[t].at = "loop"
    /\ \E e \in thread[t].todo :
         /\ Oldest(e, thread[t].todo)
         /\ Becomes(t, [thread[t] EXCEPT !.at = "record", !.event = e,
                            !.chosen = Interpretation(e), !.todo = @ \ {e}])
    /\ UNCHANGED <<events, review, version, faults, withdrawn>>

ReadAnytime(t) ==           \* faulty: reprocessing without the lock
    /\ thread[t].job = "reprocess" => lock # t
    /\ Read(t) /\ UNCHANGED lock

\* process: reads the version and the active adapters.  Reprocessing takes the lock for
\* each event.
ReadEvent(t) ==
    /\ IF thread[t].job = "poll" THEN lock = t ELSE lock = None
    /\ Read(t) /\ lock' = t

AfterAck(t) ==              \* faulty: what was not understood is not reported
    IF thread[t].job = "reprocess" THEN "loop" ELSE "ack"

After(t) == IF thread[t].job = "reprocess" THEN "loop"
            ELSE IF thread[t].chosen = Unknown THEN "report" ELSE "ack"

\* record_event; reprocessing then only notes the parse status and leaves the lock.
RecordEvent(t) ==
    /\ thread[t].at = "record"
    /\ current' = [current EXCEPT ![thread[t].event] = thread[t].chosen]
    /\ Becomes(t, [thread[t] EXCEPT !.at = After(t), !.event = IF After(t) = "loop" THEN 0 ELSE @,
                                    !.chosen = IF After(t) = "loop" THEN None ELSE @])
    /\ lock' = IF thread[t].job = "reprocess" /\ lock = t THEN None ELSE lock
    /\ UNCHANGED <<received, cases, acked, review, version, faults, withdrawn>>

\* The finding of an unknown format and its group.
Report(t) ==
    /\ thread[t].at = "report"
    /\ cases' = cases \cup {thread[t].event}
    /\ Becomes(t, [thread[t] EXCEPT !.at = "ack"])
    /\ UNCHANGED <<received, current, acked, review, version, lock, faults, withdrawn>>

Acknowledge(t) ==
    /\ thread[t].at = "ack"
    /\ acked' = acked \cup {thread[t].event}
    /\ Becomes(t, [thread[t] EXCEPT !.at = "loop", !.event = 0, !.chosen = None])
    /\ UNCHANGED <<received, current, cases, review, version, lock, faults, withdrawn>>

\* The request returns; only now has a revocation succeeded.
Return(t) ==
    /\ thread[t].at = "loop" /\ thread[t].todo = {}
    /\ Becomes(t, Idle)
    /\ lock' = IF lock = t THEN None ELSE lock
    /\ withdrawn' = withdrawn \cup ({thread[t].revokes} \ {None})
    /\ UNCHANGED <<events, review, version, faults>>

\* A failed access ends what a thread does; leaving the block frees the lock.
AccessFails(t) ==
    /\ thread[t] # Idle /\ faults < MaxFaults
    /\ faults' = faults + 1
    /\ Becomes(t, Idle)
    /\ lock' = IF lock = t THEN None ELSE lock
    /\ UNCHANGED <<events, review, version, withdrawn>>

Crash ==
    /\ faults < MaxFaults
    /\ faults' = faults + 1
    /\ thread' = [t \in Threads |-> Idle]
    /\ lock' = None
    /\ UNCHANGED <<events, review, version, withdrawn>>
-----------------------------------------------------------------------------
Work(t) ==
    \/ Snapshot(t) \/ ReadEvent(t) \/ RecordEvent(t) \/ Report(t) \/ Acknowledge(t)
    \/ Return(t)

Review ==
    \E a \in Adapters :
        \/ \E c \in Definitions, who \in People \cup {Agent} : ProposeAdapter(a, c, who)
        \/ \E who \in People : UpdateExplanation(a, who) \/ ApproveAdapter(a, who)
        \/ Supersede(a)
        \/ \E t \in Threads : RevokeAdapter(t, a)

Next ==
    \/ \E d \in Documents : Ingest(d)
    \/ RegisterService \/ Review \/ Crash
    \/ \E t \in Threads : StartPoll(t) \/ StartReprocess(t) \/ Work(t) \/ AccessFails(t)

Spec == ObservationInit /\ [][Next]_vars
-----------------------------------------------------------------------------
(* Types; a thread that works on an event holds the lock, and no two do.    *)
ObservationTypeOK ==
    /\ received \in Seq(Documents) /\ Len(received) <= MaxEvents
    /\ current \in [Events -> Adapters \cup {Unknown, None}]
    /\ cases \subseteq Received /\ acked \subseteq Received
    /\ adapters \in [Adapters -> Rows \cup {None}]
    /\ version \in Nat /\ faults \in Nat
    /\ lock \in Threads \cup {None}
    /\ thread \in [Threads -> ThreadRecords]
    /\ \A t \in Threads : thread[t].event # 0 => lock = t
    /\ withdrawn \subseteq Adapters
    /\ wrote \in [Adapters -> SUBSET (People \cup {Agent})]

(* An acknowledged event has its interpretation stored, and if it was not   *)
(* understood, it is evidence of a case (the docstring of ack in            *)
(* collector/service.py), although these are transactions of two databases  *)
(* and the process may stop between any two.                                *)
AckedIsProcessed ==
    [][\A e \in acked' \ acked : /\ current[e] # None
                                 /\ current[e] = Unknown => e \in cases]_vars

(* Once revoking an adapter has succeeded, no event is interpreted by it:   *)
(* neither kept so nor made so by a poll or a reprocessing that began       *)
(* before (endpoint revoke_adapter of api/app.py).                          *)
RevokedIsNotUsed ==
    \A a \in withdrawn : \A e \in Events : current[e] # a

(* Nobody approves what they wrote a part of, in any revision, and active   *)
(* adapters for one version never fit the same document                     *)
(* (docs/adr/0003, decision 4; docs/adr/0004).                              *)
ApprovalIsSound ==
    /\ \A a \in Adapters : Status(a) # "none" => adapters[a].approver \notin wrote[a]
    /\ \A a, b \in Adapters :
          /\ a # b /\ Status(b) = "APPROVED" /\ Active(a, adapters[b].pinned)
          => ~ \E d \in Contents : /\ Matches(d, adapters[a].conditions)
                                   /\ Matches(d, adapters[b].conditions)
=============================================================================
