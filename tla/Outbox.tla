------------------------------- MODULE Outbox -------------------------------
(***************************************************************************)
(* Notifications of the Discord bot                                        *)
(* (apps/discord_bot/src/opsyne_discord/delivery.py and sender.py): a      *)
(* durable row per event, sender processes that a file lock keeps apart,   *)
(* and Discord behind a network that may lose or delay what it carries.    *)
(* Rows are enqueued by the HTTP endpoint and reconciled by a person while *)
(* a sender is between any two of its transactions.                        *)
(***************************************************************************)
EXTENDS Naturals

CONSTANTS
    Events,         \* ids of notifications
    Registered,     \* events whose channel the sender's settings allow
    Senders,        \* processes started to deliver or to recover
    Delays,         \* values of retry_after in a 429 answer
    MaxTime,        \* bound of the clock and of rate limits
    MaxStops,       \* bound on senders that die or are interrupted
    None

ASSUME OutboxAssumption ==
    /\ Registered \subseteq Events
    /\ Delays \subseteq Nat \ {0}
    /\ MaxTime \in Nat /\ MaxStops \in Nat
    /\ None \notin Events \cup Senders

VARIABLES
    now,            \* the clock
    rows,           \* event -> [state, next] of its row, state "NONE" without one
    cooldown,       \* delivery_state.cooldown_until
    lock,           \* process that holds sender.lock, or None
    sender,         \* what each process is doing, with its local variables
    shown,          \* event -> how many messages Discord shows for it
    inTransit,      \* events whose unanswered request may still arrive
    stops           \* senders that died so far

vars == <<now, rows, cooldown, lock, sender, shown, inTransit, stops>>

States == {"PENDING", "SENDING", "SENT", "UNKNOWN", "FAILED"}
Commands == {"worker", "deliver-once", "recover-abandoned"}
Outcomes == {"PENDING", "SENT", "UNKNOWN", "FAILED"}

Stopped == [at |-> "stopped", command |-> "none", event |-> None,
            outcome |-> "none", until |-> 0]
Processes == [at : {"recover", "claim", "post", "finish"}, command : Commands,
              event : Events \cup {None}, outcome : Outcomes \cup {"none"}, until : Nat]

OutboxInit ==
    /\ now = 0
    /\ rows = [e \in Events |-> [state |-> "NONE", next |-> 0]]
    /\ cooldown = 0
    /\ lock = None
    /\ sender = [t \in Senders |-> Stopped]
    /\ shown = [e \in Events |-> 0]
    /\ inTransit = {}
    /\ stops = 0
-----------------------------------------------------------------------------
(* Requests from outside the senders. *)

\* An event that is already there is not inserted again.
Enqueue(e) ==
    /\ rows[e].state = "NONE"
    /\ rows' = [rows EXCEPT ![e] = [state |-> "PENDING", next |-> now]]
    /\ UNCHANGED <<now, cooldown, lock, sender, shown, inTransit, stops>>

\* A person found the message in Discord; takes no sender lock.
Reconcile(e) ==
    /\ rows[e].state = "UNKNOWN" /\ shown[e] > 0
    /\ rows' = [rows EXCEPT ![e].state = "SENT"]
    /\ UNCHANGED <<now, cooldown, lock, sender, shown, inTransit, stops>>
-----------------------------------------------------------------------------
(* A sender. *)

Become(t, process) == sender' = [sender EXCEPT ![t] = process]

\* deliver-once and recover-abandoned end here, the worker polls again.
Proceed(t) ==
    IF sender[t].command = "worker"
    THEN /\ Become(t, [Stopped EXCEPT !.at = "claim", !.command = "worker"])
         /\ UNCHANGED lock
    ELSE Become(t, Stopped) /\ lock' = None

AcquireAnyway(t, command) ==    \* faulty: runs although another sender holds the lock
    /\ sender[t] = Stopped
    /\ lock' = t
    /\ Become(t, [Stopped EXCEPT !.at = IF command = "deliver-once" THEN "claim"
                                        ELSE "recover",
                                 !.command = command])
    /\ UNCHANGED <<now, rows, cooldown, shown, inTransit, stops>>

AcquireAtOnce(t, command) ==    \* faulty: no recovery before the first claim
    /\ lock = None /\ sender[t] = Stopped
    /\ lock' = t
    /\ Become(t, [Stopped EXCEPT !.at = "claim", !.command = command])
    /\ UNCHANGED <<now, rows, cooldown, shown, inTransit, stops>>

\* SenderBusy unless the lock is free; only a single delivery skips the recovery.
Acquire(t, command) == lock = None /\ AcquireAnyway(t, command)

RecoverTo(t, state) ==
    /\ sender[t].at = "recover"
    /\ rows' = [e \in Events |-> IF rows[e].state = "SENDING"
                                 THEN [rows[e] EXCEPT !.state = state] ELSE rows[e]]
    /\ Proceed(t)
    /\ UNCHANGED <<now, cooldown, shown, inTransit, stops>>

RecoverQueued(t) == RecoverTo(t, "PENDING")     \* faulty: sends interrupted ones again

RecoverFailed(t) == RecoverTo(t, "FAILED")     \* faulty: takes silence for a refusal

RecoverAbandoned(t) == RecoverTo(t, "UNKNOWN")

\* Rows that may be attempted now, and among them the ones that waited longest.
Due == {e \in Events : rows[e].state = "PENDING" /\ rows[e].next <= now}
First == {e \in Due : \A f \in Due : rows[e].next <= rows[f].next}

Claim(t) ==
    /\ sender[t].at = "claim"
    /\ now >= cooldown
    /\ \E e \in First :
         /\ rows' = [rows EXCEPT ![e].state = "SENDING"]
         /\ Become(t, [sender[t] EXCEPT !.event = e,
                 !.at = IF e \in Registered THEN "post" ELSE "finish",
                 !.outcome = IF e \in Registered THEN "none" ELSE "FAILED"])
    /\ UNCHANGED <<now, cooldown, lock, shown, inTransit, stops>>

\* Nothing to do: a worker sleeps, a single delivery ends.
ClaimNothing(t) ==
    /\ sender[t].at = "claim" /\ sender[t].command = "deliver-once"
    /\ now < cooldown \/ Due = {}
    /\ Proceed(t)
    /\ UNCHANGED <<now, rows, cooldown, shown, inTransit, stops>>

Answered(t, outcome, until) ==
    Become(t, [sender[t] EXCEPT !.at = "finish", !.outcome = outcome, !.until = until])

\* POST: a message id; a refusal (4xx); a rate limit with its delay; or anything
\* else (timeout, 5xx, an unreadable answer), after which the request may arrive.
Post(t) ==
    LET e == sender[t].event
    IN  /\ sender[t].at = "post"
        /\ \/ Answered(t, "SENT", 0) /\ shown' = [shown EXCEPT ![e] = @ + 1]
              /\ UNCHANGED inTransit
           \/ Answered(t, "FAILED", 0) /\ UNCHANGED <<shown, inTransit>>
           \/ \E d \in Delays : /\ now + d <= MaxTime
                                /\ Answered(t, "PENDING", now + d)
                                /\ UNCHANGED <<shown, inTransit>>
           \/ Answered(t, "UNKNOWN", 0) /\ inTransit' = inTransit \cup {e}
              /\ UNCHANGED shown
        /\ UNCHANGED <<now, rows, cooldown, lock, stops>>

StoreOutcome(t) ==
    LET e == sender[t].event
    IN  /\ sender[t].at = "finish"
        /\ rows[e].state = "SENDING"
        /\ rows' = [rows EXCEPT ![e].state = sender[t].outcome,
                ![e].next = IF sender[t].outcome = "PENDING" THEN sender[t].until ELSE @]
        /\ Proceed(t)
        /\ UNCHANGED <<now, shown, inTransit, stops>>

FinishAlone(t) == StoreOutcome(t) /\ UNCHANGED cooldown   \* faulty: no shared pause

\* A rate limit pauses every event, in the transaction that stores the retry.
Finish(t) ==
    /\ StoreOutcome(t)
    /\ cooldown' = IF sender[t].outcome = "PENDING" /\ sender[t].until > cooldown
                   THEN sender[t].until ELSE cooldown

\* Killed, interrupted, or a database error: the process ends, the OS drops its lock.
Die(t) ==
    /\ sender[t] # Stopped /\ stops < MaxStops
    /\ stops' = stops + 1
    /\ Become(t, Stopped)
    /\ lock' = None
    /\ UNCHANGED <<now, rows, cooldown, shown, inTransit>>
-----------------------------------------------------------------------------
(* Network and time. *)

Arrive(e) ==
    /\ e \in inTransit
    /\ inTransit' = inTransit \ {e}
    /\ shown' = [shown EXCEPT ![e] = @ + 1]
    /\ UNCHANGED <<now, rows, cooldown, lock, sender, stops>>

Vanish(e) ==
    /\ e \in inTransit
    /\ inTransit' = inTransit \ {e}
    /\ UNCHANGED <<now, rows, cooldown, lock, sender, shown, stops>>

Tick ==
    /\ now < MaxTime
    /\ now' = now + 1
    /\ UNCHANGED <<rows, cooldown, lock, sender, shown, inTransit, stops>>
-----------------------------------------------------------------------------
Step(t) ==
    \/ RecoverAbandoned(t) \/ Claim(t) \/ ClaimNothing(t) \/ Post(t) \/ Finish(t)

Next ==
    \/ \E e \in Events : Enqueue(e) \/ Reconcile(e) \/ Arrive(e) \/ Vanish(e)
    \/ \E t \in Senders, c \in Commands : Acquire(t, c)
    \/ \E t \in Senders : Step(t) \/ Die(t)
    \/ Tick

Spec == OutboxInit /\ [][Next]_vars

\* Processes and the clock run; somebody keeps starting a worker after it died.
Fairness ==
    /\ \A t \in Senders : WF_vars(Step(t))
    /\ WF_vars(Tick)
    /\ SF_vars(\E t \in Senders : Acquire(t, "worker"))

FairSpec == Spec /\ Fairness
-----------------------------------------------------------------------------
(* Types, and the sender lock: a process at work holds it.                  *)
OutboxTypeOK ==
    /\ now \in Nat /\ cooldown \in Nat /\ stops \in Nat
    /\ rows \in [Events -> [state : States \cup {"NONE"}, next : Nat]]
    /\ lock \in Senders \cup {None}
    /\ sender \in [Senders -> Processes \cup {Stopped}]
    /\ shown \in [Events -> Nat]
    /\ inTransit \subseteq Events
    /\ \A t \in Senders : sender[t] # Stopped => lock = t

(* People see a notification at most once, through rate-limit retries, dead *)
(* senders, restarts and requests that arrive late.                         *)
ShownAtMostOnce == \A e \in Events : shown[e] <= 1

(* The row tells the truth: SENT only with a message; FAILED, and PENDING   *)
(* after a rate limit, only if no message exists or can still appear.       *)
StateIsTrue ==
    \A e \in Events :
        /\ rows[e].state = "SENT" => shown[e] = 1
        /\ rows[e].state \in {"NONE", "PENDING", "FAILED"} => shown[e] = 0 /\ e \notin inTransit

(* Is a request about to leave for e?                                       *)
Leaving(e) == \E t \in Senders : sender[t].at = "post" /\ sender[t].event = e

(* A notification whose outcome is recorded or in doubt is not attempted    *)
(* again by any sender (apps/discord_bot/README.md:105): only a person can  *)
(* close a doubt, and only as SENT.                                         *)
DoubtIsNotRetried ==
    [][\A e \in Events : rows[e].state \in {"SENT", "FAILED", "UNKNOWN"} =>
        /\ ~Leaving(e) /\ ~Leaving(e)'
        /\ rows'[e].state \in {rows[e].state, "SENT"}]_vars

(* While one notification waits for a rate limit, no other is posted either *)
(* (apps/discord_bot/README.md:108), also after a restart of the sender.    *)
RateLimitStopsAll ==
    [][\A t \in Senders : sender[t].at = "post" /\ sender'[t].at = "finish" =>
        \A e \in Events : rows[e].state = "PENDING" => rows[e].next <= now]_vars

(* The state of Delivery.tla: an attempt stays open as long as its outcome  *)
(* is not known.                                                            *)
StageOf(state) ==
    CASE state = "NONE" -> "new"
      [] state = "PENDING" -> "queued"
      [] state = "SENT" -> "sent"
      [] state = "FAILED" -> "failed"
      [] OTHER -> "open"

Stages == [e \in Events |-> StageOf(rows[e].state)]
Visible == {e \in Events : shown[e] > 0}

Promise == INSTANCE Delivery WITH stage <- Stages, visible <- Visible

(* Every step of the senders, the network and a person is a step of the     *)
(* promise or nothing it speaks of.                                         *)
KeepsPromise == Promise!DeliverySpec

(* Every notification leaves the queue for an outcome or a doubt, and no    *)
(* interrupted one stays SENDING, provided rate limits end and a worker is  *)
(* started again after it died.                                             *)
EveryNotificationSettles ==
    \A e \in Events : rows[e].state \in {"PENDING", "SENDING"} ~>
        rows[e].state \in {"SENT", "FAILED", "UNKNOWN"}
=============================================================================
