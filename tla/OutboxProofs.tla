---------------------------- MODULE OutboxProofs ----------------------------
(* Safety of delivering notifications, proved for every number of events,   *)
(* senders, deaths and delays, and its refinement of Delivery.              *)
EXTENDS Outbox, TLAPS

(* Row, messages and network agree about one event.                         *)
RowInv(e) ==
    /\ shown[e] <= 1
    /\ e \in inTransit => shown[e] = 0 /\ rows[e].state \in {"SENDING", "UNKNOWN"}
    /\ rows[e].state \in {"NONE", "PENDING", "FAILED"} => shown[e] = 0
    /\ rows[e].state = "SENT" => shown[e] = 1
    /\ rows[e].state = "PENDING" => rows[e].next <= now \/ rows[e].next <= cooldown

(* What a sender knows about the row it claimed.                            *)
SenderInv(t) ==
    LET e == sender[t].event
    IN  /\ sender[t].at \in {"post", "finish"} => e \in Events /\ rows[e].state = "SENDING"
        /\ sender[t].at = "post" => shown[e] = 0 /\ e \notin inTransit /\ cooldown <= now
        /\ sender[t].at = "finish" =>
             /\ sender[t].outcome \in Outcomes
             /\ sender[t].outcome = "SENT" => shown[e] = 1
             /\ sender[t].outcome \in {"PENDING", "FAILED"} => shown[e] = 0 /\ e \notin inTransit

OutboxInv ==
    /\ OutboxTypeOK
    /\ \A e \in Events : RowInv(e)
    /\ \A t \in Senders : SenderInv(t)
-----------------------------------------------------------------------------
(* A process at work is alone.                                              *)
LEMMA OthersAreStopped ==
    ASSUME OutboxInv, NEW t \in Senders, sender[t] # Stopped, NEW u \in Senders, u # t
    PROVE  sender[u] = Stopped
  BY DEF OutboxInv, OutboxTypeOK

(* What a process at work is, and that it holds the lock.                   *)
LEMMA AtWork ==
    ASSUME OutboxInv, NEW t \in Senders, sender[t].at # "stopped"
    PROVE  sender[t] \in Processes /\ sender[t] # Stopped /\ lock = t
  BY DEF OutboxInv, OutboxTypeOK, Stopped

(* A process that runs on keeps the lock, one that ends gives it back.      *)
LEMMA SenderTyped ==
    ASSUME OutboxInv, NEW t \in Senders, sender[t] # Stopped \/ lock = None,
           \/ \E p \in Processes : Become(t, p) /\ lock' = t
           \/ Become(t, Stopped) /\ lock' = None
    PROVE  /\ sender' \in [Senders -> Processes \cup {Stopped}]
           /\ lock' \in Senders \cup {None}
           /\ \A u \in Senders : sender'[u] # Stopped => lock' = u
           /\ \A u \in Senders : u # t => sender'[u] = Stopped
  <1>1. sender \in [Senders -> Processes \cup {Stopped}]
    BY DEF OutboxInv, OutboxTypeOK
  <1>2. \A u \in Senders : u # t => sender[u] = Stopped
    BY OutboxAssumption DEF OutboxInv, OutboxTypeOK
  <1>3. CASE Become(t, Stopped) /\ lock' = None
    BY <1>1, <1>2, <1>3 DEF Become
  <1>4. ASSUME NEW p \in Processes, Become(t, p), lock' = t
        PROVE  /\ sender' \in [Senders -> Processes \cup {Stopped}]
               /\ \A u \in Senders : u # t => sender'[u] = Stopped
    BY <1>1, <1>2, <1>4 DEF Become
  <1> QED
    BY <1>3, <1>4

(* After its step the process polls again or ends.                          *)
LEMMA ProceedTyped ==
    ASSUME OutboxInv, NEW t \in Senders, sender[t].at # "stopped", Proceed(t)
    PROVE  /\ \/ \E p \in Processes : Become(t, p) /\ lock' = t
              \/ Become(t, Stopped) /\ lock' = None
           /\ sender'[t].at \in {"claim", "stopped"}
  <1>1. [Stopped EXCEPT !.at = "claim", !.command = "worker"] \in Processes
    BY DEF Stopped, Processes, Commands
  <1>2. sender[t] \in Processes /\ lock = t /\ sender \in [Senders -> Processes \cup {Stopped}]
    BY AtWork DEF OutboxInv, OutboxTypeOK
  <1>3. CASE sender[t].command = "worker"
    <2>1. Become(t, [Stopped EXCEPT !.at = "claim", !.command = "worker"]) /\ lock' = t
      BY <1>2, <1>3 DEF Proceed
    <2>2. sender'[t].at = "claim"
      BY <1>2, <2>1 DEF Become, Stopped
    <2> QED
      BY <1>1, <2>1, <2>2
  <1>4. CASE sender[t].command # "worker"
    <2>1. Become(t, Stopped) /\ lock' = None
      BY <1>4 DEF Proceed
    <2>2. sender'[t].at = "stopped"
      BY <1>2, <2>1 DEF Become, Stopped
    <2> QED
      BY <2>1, <2>2
  <1> QED
    BY <1>3, <1>4
-----------------------------------------------------------------------------
(* A process that has claimed nothing knows nothing.                        *)
LEMMA NothingClaimed ==
    ASSUME NEW t \in Senders, sender'[t].at \in {"stopped", "recover", "claim"}
    PROVE  SenderInv(t)'
  BY DEF SenderInv

(* The invariant after a step of a sender, from what its own part of the    *)
(* step establishes.                                                        *)
LEMMA SenderStepPreserves ==
    ASSUME OutboxInv, NEW t \in Senders, sender[t] # Stopped \/ lock = None,
           \/ \E p \in Processes : Become(t, p) /\ lock' = t
           \/ Become(t, Stopped) /\ lock' = None,
           now' \in Nat, cooldown' \in Nat, stops' \in Nat,
           rows' \in [Events -> [state : States \cup {"NONE"}, next : Nat]],
           shown' \in [Events -> Nat], inTransit' \subseteq Events,
           \A e \in Events : RowInv(e)',
           SenderInv(t)'
    PROVE  OutboxInv'
  <1>1. /\ sender' \in [Senders -> Processes \cup {Stopped}]
        /\ lock' \in Senders \cup {None}
        /\ \A u \in Senders : sender'[u] # Stopped => lock' = u
        /\ \A u \in Senders : u # t => sender'[u] = Stopped
    BY SenderTyped
  <1>2. OutboxTypeOK'
    BY <1>1 DEF OutboxTypeOK
  <1>3. ASSUME NEW u \in Senders PROVE SenderInv(u)'
    <2>1. CASE u # t
      BY <1>1, <2>1, NothingClaimed DEF Stopped
    <2> QED
      BY <2>1
  <1> QED
    BY <1>2, <1>3 DEF OutboxInv

(* Types of the data, from the invariant.                                   *)
LEMMA DataTyped ==
    ASSUME OutboxInv
    PROVE  /\ now \in Nat /\ cooldown \in Nat /\ stops \in Nat
           /\ rows \in [Events -> [state : States \cup {"NONE"}, next : Nat]]
           /\ shown \in [Events -> Nat] /\ inTransit \subseteq Events
           /\ sender \in [Senders -> Processes \cup {Stopped}]
           /\ \A e \in Events : RowInv(e)
  BY DEF OutboxInv, OutboxTypeOK

(* Starting a process.                                                      *)
LEMMA AcquirePreserves ==
    ASSUME OutboxInv, NEW t \in Senders, NEW c \in Commands, Acquire(t, c)
    PROVE  OutboxInv'
  <1> DEFINE p == [Stopped EXCEPT !.at = IF c = "deliver-once" THEN "claim" ELSE "recover",
                                  !.command = c]
  <1>1. p \in Processes /\ p.at \in {"recover", "claim"}
    BY DEF Stopped, Processes
  <1>2. /\ lock = None /\ lock' = t /\ Become(t, p)
        /\ UNCHANGED <<now, rows, cooldown, shown, inTransit, stops>>
    BY DEF Acquire, AcquireAnyway
  <1>3. sender'[t] = p
    BY <1>2, DataTyped DEF Become
  <1>4. SenderInv(t)'
    BY <1>1, <1>3, NothingClaimed
  <1>5. \A e \in Events : RowInv(e)'
    BY <1>2, DataTyped DEF RowInv
  <1>6. \E q \in Processes : Become(t, q) /\ lock' = t
    BY <1>1, <1>2
  <1> QED
    BY <1>2, <1>4, <1>5, <1>6, DataTyped, SenderStepPreserves

(* Recovery: an interrupted attempt is in doubt.                            *)
LEMMA RecoverPreserves ==
    ASSUME OutboxInv, NEW t \in Senders, RecoverAbandoned(t)
    PROVE  OutboxInv'
  <1>1. /\ sender[t].at = "recover" /\ Proceed(t)
        /\ UNCHANGED <<now, cooldown, shown, inTransit, stops>>
        /\ rows' = [e \in Events |-> IF rows[e].state = "SENDING"
                                     THEN [rows[e] EXCEPT !.state = "UNKNOWN"] ELSE rows[e]]
    BY DEF RecoverAbandoned, RecoverTo
  <1>2. sender[t] # Stopped
    BY <1>1, AtWork
  <1>3. SenderInv(t)'
    BY <1>1, ProceedTyped, NothingClaimed
  <1>4. rows' \in [Events -> [state : States \cup {"NONE"}, next : Nat]]
    BY <1>1, DataTyped DEF States
  <1>5. ASSUME NEW e \in Events PROVE RowInv(e)'
    <2>1. RowInv(e)
      BY DataTyped
    <2>2. CASE rows[e].state = "SENDING"
      <3>1. rows'[e].state = "UNKNOWN"
        BY <1>1, <2>2, DataTyped
      <3> QED
        BY <1>1, <2>1, <2>2, <3>1 DEF RowInv
    <2>3. CASE rows[e].state # "SENDING"
      <3>1. rows'[e] = rows[e]
        BY <1>1, <2>3
      <3> QED
        BY <1>1, <2>1, <3>1 DEF RowInv
    <2> QED
      BY <2>2, <2>3
  <1> QED
    BY <1>1, <1>2, <1>3, <1>4, <1>5, ProceedTyped, DataTyped, SenderStepPreserves

(* Claiming: nothing was sent for a queued row, and no rate limit is on.    *)
LEMMA ClaimPreserves ==
    ASSUME OutboxInv, NEW t \in Senders, Claim(t)
    PROVE  OutboxInv'
  <1>1. PICK e \in First :
          /\ rows' = [rows EXCEPT ![e].state = "SENDING"]
          /\ Become(t, [sender[t] EXCEPT !.event = e,
                  !.at = IF e \in Registered THEN "post" ELSE "finish",
                  !.outcome = IF e \in Registered THEN "none" ELSE "FAILED"])
    BY DEF Claim
  <1> DEFINE p == [sender[t] EXCEPT !.event = e,
                     !.at = IF e \in Registered THEN "post" ELSE "finish",
                     !.outcome = IF e \in Registered THEN "none" ELSE "FAILED"]
  <1>2. /\ sender[t].at = "claim" /\ now >= cooldown
        /\ UNCHANGED <<now, cooldown, lock, shown, inTransit, stops>>
    BY DEF Claim
  <1>3. e \in Events /\ rows[e].state = "PENDING"
    BY DEF First, Due
  <1>4. sender[t] \in Processes /\ sender[t] # Stopped /\ lock = t
    BY <1>2, AtWork
  <1>5. /\ p \in Processes /\ p.event = e
        /\ \/ p.at = "post"
           \/ p.at = "finish" /\ p.outcome = "FAILED"
    BY <1>3, <1>4 DEF Processes, Outcomes
  <1>6. sender'[t] = p
    BY <1>1, DataTyped DEF Become
  <1>7. rows' \in [Events -> [state : States \cup {"NONE"}, next : Nat]]
    BY <1>1, <1>3, DataTyped DEF States
  <1>8. rows'[e].state = "SENDING"
    BY <1>1, <1>3, DataTyped
  <1>9. shown[e] = 0 /\ e \notin inTransit
    BY <1>3, DataTyped DEF RowInv
  <1>10. SenderInv(t)'
    BY <1>2, <1>3, <1>5, <1>6, <1>8, <1>9, DataTyped DEF SenderInv, Outcomes
  <1>11. ASSUME NEW f \in Events PROVE RowInv(f)'
    <2>1. RowInv(f)
      BY DataTyped
    <2>2. CASE f = e
      BY <1>2, <1>8, <1>9, <2>1, <2>2 DEF RowInv
    <2>3. CASE f # e
      <3>1. rows'[f] = rows[f]
        BY <1>1, <2>3, DataTyped
      <3> QED
        BY <1>2, <2>1, <3>1 DEF RowInv
    <2> QED
      BY <2>2, <2>3
  <1>12. \E q \in Processes : Become(t, q) /\ lock' = t
    BY <1>1, <1>2, <1>4, <1>5
  <1> QED
    BY <1>2, <1>4, <1>7, <1>10, <1>11, <1>12, DataTyped, SenderStepPreserves

(* Nothing to claim.                                                        *)
LEMMA ClaimNothingPreserves ==
    ASSUME OutboxInv, NEW t \in Senders, ClaimNothing(t)
    PROVE  OutboxInv'
  <1>1. /\ sender[t].at = "claim" /\ Proceed(t)
        /\ UNCHANGED <<now, rows, cooldown, shown, inTransit, stops>>
    BY DEF ClaimNothing
  <1>2. sender[t] # Stopped
    BY <1>1, AtWork
  <1>3. SenderInv(t)'
    BY <1>1, ProceedTyped, NothingClaimed
  <1>4. \A e \in Events : RowInv(e)'
    BY <1>1, DataTyped DEF RowInv
  <1> QED
    BY <1>1, <1>2, <1>3, <1>4, ProceedTyped, DataTyped, SenderStepPreserves

(* What the sender learns is true of Discord and of the network.            *)
LEMMA PostPreserves ==
    ASSUME OutboxInv, NEW t \in Senders, Post(t)
    PROVE  OutboxInv'
  <1> DEFINE e == sender[t].event
             p(outcome, until) ==
               [sender[t] EXCEPT !.at = "finish", !.outcome = outcome, !.until = until]
  <1>1. /\ sender[t].at = "post"
        /\ UNCHANGED <<now, rows, cooldown, lock, stops>>
    BY DEF Post
  <1>2. sender[t] \in Processes /\ sender[t] # Stopped /\ lock = t
    BY <1>1, AtWork
  <1>3. /\ e \in Events /\ rows[e].state = "SENDING"
        /\ shown[e] = 0 /\ e \notin inTransit
    BY <1>1 DEF OutboxInv, SenderInv
  <1>4. ASSUME NEW o \in Outcomes, NEW u \in Nat, Answered(t, o, u)
        PROVE  /\ \E q \in Processes : Become(t, q) /\ lock' = t
               /\ sender'[t].at = "finish" /\ sender'[t].event = e
               /\ sender'[t].outcome = o
    <2>1. p(o, u) \in Processes
      BY <1>2 DEF Processes
    <2>2. Become(t, p(o, u)) /\ sender'[t] = p(o, u)
      BY <1>4, DataTyped DEF Answered, Become
    <2>3. p(o, u).at = "finish" /\ p(o, u).event = e /\ p(o, u).outcome = o
      BY <1>2 DEF Processes
    <2> QED
      BY <1>1, <1>2, <2>1, <2>2, <2>3
  <1>5. ASSUME NEW o \in Outcomes, NEW u \in Nat, Answered(t, o, u),
               shown' \in [Events -> Nat], inTransit' \subseteq Events,
               \A f \in Events : f # e => shown'[f] = shown[f] /\ (f \in inTransit' <=> f \in inTransit),
               \/ o = "SENT" /\ shown'[e] = 1 /\ e \notin inTransit'
               \/ o \in {"FAILED", "PENDING"} /\ shown'[e] = 0 /\ e \notin inTransit'
               \/ o = "UNKNOWN" /\ shown'[e] = 0
        PROVE  OutboxInv'
    <2>1. SenderInv(t)'
      BY <1>1, <1>3, <1>4, <1>5 DEF SenderInv
    <2>2. ASSUME NEW f \in Events PROVE RowInv(f)'
      <3>1. RowInv(f) /\ rows'[f] = rows[f]
        BY <1>1, DataTyped
      <3>2. CASE f = e
        BY <1>1, <1>3, <1>5, <3>1, <3>2 DEF RowInv
      <3>3. CASE f # e
        BY <1>1, <1>5, <3>1, <3>3 DEF RowInv
      <3> QED
        BY <3>2, <3>3
    <2> QED
      BY <1>1, <1>2, <1>4, <1>5, <2>1, <2>2, DataTyped, SenderStepPreserves
  <1>6. CASE Answered(t, "SENT", 0) /\ shown' = [shown EXCEPT ![e] = @ + 1] /\ UNCHANGED inTransit
    BY <1>3, <1>5, <1>6, DataTyped DEF Outcomes
  <1>7. CASE Answered(t, "FAILED", 0) /\ UNCHANGED <<shown, inTransit>>
    BY <1>3, <1>5, <1>7, DataTyped DEF Outcomes
  <1>8. ASSUME NEW d \in Delays, Answered(t, "PENDING", now + d), UNCHANGED <<shown, inTransit>>
        PROVE  OutboxInv'
    <2>1. now + d \in Nat
      BY OutboxAssumption, DataTyped
    <2> QED
      BY <1>3, <1>5, <1>8, <2>1, DataTyped DEF Outcomes
  <1>9. CASE Answered(t, "UNKNOWN", 0) /\ inTransit' = inTransit \cup {e} /\ UNCHANGED shown
    BY <1>3, <1>5, <1>9, DataTyped DEF Outcomes
  <1> QED
    BY <1>6, <1>7, <1>8, <1>9 DEF Post

(* Storing the outcome; a retry waits no longer than the shared pause.      *)
LEMMA FinishPreserves ==
    ASSUME OutboxInv, NEW t \in Senders, Finish(t)
    PROVE  OutboxInv'
  <1> DEFINE e == sender[t].event
             o == sender[t].outcome
  <1>1. /\ sender[t].at = "finish" /\ Proceed(t)
        /\ rows' = [rows EXCEPT ![e].state = o,
                                ![e].next = IF o = "PENDING" THEN sender[t].until ELSE @]
        /\ cooldown' = IF o = "PENDING" /\ sender[t].until > cooldown
                       THEN sender[t].until ELSE cooldown
        /\ UNCHANGED <<now, shown, inTransit, stops>>
    BY DEF Finish, StoreOutcome
  <1>2. sender[t] \in Processes /\ sender[t] # Stopped /\ sender[t].until \in Nat
    BY <1>1, AtWork DEF Processes
  <1>3. /\ e \in Events /\ rows[e].state = "SENDING" /\ o \in Outcomes
        /\ o = "SENT" => shown[e] = 1
        /\ o \in {"PENDING", "FAILED"} => shown[e] = 0 /\ e \notin inTransit
    BY <1>1 DEF OutboxInv, SenderInv
  <1>4. SenderInv(t)'
    BY <1>1, ProceedTyped, NothingClaimed
  <1>5. cooldown' \in Nat /\ cooldown' >= cooldown /\ (o = "PENDING" => cooldown' >= sender[t].until)
    BY <1>1, <1>2, DataTyped
  <1>6. /\ rows' \in [Events -> [state : States \cup {"NONE"}, next : Nat]]
        /\ rows'[e].state = o
        /\ o = "PENDING" => rows'[e].next = sender[t].until
    BY <1>1, <1>2, <1>3, DataTyped DEF States, Outcomes
  <1>7. ASSUME NEW f \in Events PROVE RowInv(f)'
    <2>1. RowInv(f)
      BY DataTyped
    <2>2. CASE f = e
      BY <1>1, <1>3, <1>5, <1>6, <2>1, <2>2, SMTT(30) DEF RowInv, Outcomes
    <2>3. CASE f # e
      <3>1. rows'[f] = rows[f] /\ rows[f].next \in Nat
        BY <1>1, <2>3, DataTyped
      <3> QED
        BY <1>1, <1>5, <2>1, <3>1, DataTyped DEF RowInv
    <2> QED
      BY <2>2, <2>3
  <1> QED
    BY <1>1, <1>2, <1>4, <1>5, <1>6, <1>7, ProceedTyped, DataTyped, SenderStepPreserves

(* A dead sender leaves its row as it is.                                   *)
LEMMA DiePreserves ==
    ASSUME OutboxInv, NEW t \in Senders, Die(t)
    PROVE  OutboxInv'
  <1>1. /\ sender[t] # Stopped /\ Become(t, Stopped) /\ lock' = None /\ stops' = stops + 1
        /\ UNCHANGED <<now, rows, cooldown, shown, inTransit>>
    BY DEF Die
  <1>2. sender'[t].at = "stopped"
    BY <1>1, DataTyped DEF Become, Stopped
  <1>3. SenderInv(t)'
    BY <1>2, NothingClaimed
  <1>4. \A e \in Events : RowInv(e)'
    BY <1>1, DataTyped DEF RowInv
  <1> QED
    BY <1>1, <1>3, <1>4, DataTyped, SenderStepPreserves

(* Requests, the network and the clock leave the senders alone; none of     *)
(* them touches the row a sender is working on.                             *)
LEMMA OutsidePreserves ==
    ASSUME OutboxInv,
           \/ \E e \in Events : Enqueue(e) \/ Reconcile(e) \/ Arrive(e) \/ Vanish(e)
           \/ Tick
    PROVE  OutboxInv'
  <1>1. /\ UNCHANGED <<cooldown, lock, sender, stops>>
        /\ now' \in Nat /\ now <= now'
    BY DataTyped DEF Enqueue, Reconcile, Arrive, Vanish, Tick
  <1>2. /\ rows' \in [Events -> [state : States \cup {"NONE"}, next : Nat]]
        /\ shown' \in [Events -> Nat] /\ inTransit' \subseteq Events
    BY DataTyped DEF Enqueue, Reconcile, Arrive, Vanish, Tick, States
  <1>3. OutboxTypeOK'
    BY <1>1, <1>2 DEF OutboxInv, OutboxTypeOK
  <1> DEFINE Kept(f) == /\ RowInv(f)'
                        /\ rows[f].state = "SENDING" => rows'[f] = rows[f]
                        /\ f \notin inTransit =>
                             shown'[f] = shown[f] /\ f \notin inTransit'
  <1>4. ASSUME NEW f \in Events PROVE Kept(f)
    <2>1. RowInv(f) /\ rows[f].next \in Nat
      BY DataTyped
    <2>2. ASSUME NEW e \in Events, Enqueue(e) \/ Reconcile(e) PROVE Kept(f)
      <3>1. UNCHANGED <<now, shown, inTransit>>
        BY <2>2 DEF Enqueue, Reconcile
      <3>2. CASE f # e
        BY <1>1, <2>1, <2>2, <3>1, <3>2, DataTyped DEF Enqueue, Reconcile, RowInv
      <3>3. CASE f = e /\ Enqueue(e)
        BY <1>1, <2>1, <3>1, <3>3, DataTyped DEF Enqueue, RowInv
      <3>4. CASE f = e /\ Reconcile(e)
        BY <1>1, <2>1, <3>1, <3>4, DataTyped DEF Reconcile, RowInv
      <3> QED
        BY <2>2, <3>2, <3>3, <3>4
    <2>3. ASSUME NEW e \in Events, Arrive(e) \/ Vanish(e) PROVE Kept(f)
      <3>1. rows' = rows /\ now' = now /\ e \in inTransit /\ inTransit' = inTransit \ {e}
        BY <2>3 DEF Arrive, Vanish
      <3>2. shown' = shown \/ shown' = [shown EXCEPT ![e] = @ + 1]
        BY <2>3 DEF Arrive, Vanish
      <3>3. CASE f # e
        BY <1>1, <2>1, <3>1, <3>2, <3>3, DataTyped DEF RowInv
      <3>4. CASE f = e
        <4>1. shown[f] = 0 /\ rows[f].state \in {"SENDING", "UNKNOWN"} /\ f \notin inTransit'
          BY <2>1, <3>1, <3>4 DEF RowInv
        <4>2. shown'[f] \in {0, 1}
          BY <3>2, <3>4, <4>1, DataTyped
        <4> QED
          BY <3>1, <3>4, <4>1, <4>2 DEF RowInv
      <3> QED
        BY <3>3, <3>4
    <2>4. CASE Tick
      <3>1. UNCHANGED <<rows, shown, inTransit>> /\ now' = now + 1
        BY <2>4 DEF Tick
      <3> QED
        BY <1>1, <2>1, <3>1, DataTyped DEF RowInv
    <2> QED
      BY <2>2, <2>3, <2>4
  <1>5. ASSUME NEW t \in Senders PROVE SenderInv(t)'
    <2>1. SenderInv(t) /\ sender'[t] = sender[t]
      BY <1>1 DEF OutboxInv
    <2>2. CASE sender[t].at \in {"post", "finish"}
      <3> DEFINE e == sender[t].event
      <3>1. e \in Events /\ rows[e].state = "SENDING" /\ rows'[e] = rows[e]
        BY <1>4, <2>1, <2>2 DEF SenderInv
      <3>2. e \notin inTransit => shown'[e] = shown[e] /\ e \notin inTransit'
        BY <1>4, <3>1
      <3>3. shown[e] = 1 => shown'[e] = 1
        BY <1>4, <3>1, <3>2, DataTyped DEF RowInv
      <3> QED
        BY <1>1, <2>1, <2>2, <3>1, <3>2, <3>3, DataTyped DEF SenderInv
    <2> QED
      BY <2>1, <2>2 DEF SenderInv
  <1> QED
    BY <1>3, <1>4, <1>5 DEF OutboxInv
-----------------------------------------------------------------------------
(* The initial state.                                                       *)
LEMMA InitOutboxInv == OutboxInit => OutboxInv
  BY DEF OutboxInit, OutboxInv, OutboxTypeOK, RowInv, SenderInv, Stopped

(* Every step, by action.                                                   *)
LEMMA OutboxInvPreserved == OutboxInv /\ [Next]_vars => OutboxInv'
  <1> SUFFICES ASSUME OutboxInv, [Next]_vars PROVE OutboxInv'
    OBVIOUS
  <1>1. CASE \E t \in Senders, c \in Commands : Acquire(t, c)
    BY <1>1, AcquirePreserves
  <1>2. ASSUME NEW t \in Senders, Step(t) PROVE OutboxInv'
    BY <1>2, RecoverPreserves, ClaimPreserves, ClaimNothingPreserves, PostPreserves,
       FinishPreserves DEF Step
  <1>3. CASE \E t \in Senders : Die(t)
    BY <1>3, DiePreserves
  <1>4. CASE \/ \E e \in Events : Enqueue(e) \/ Reconcile(e) \/ Arrive(e) \/ Vanish(e)
             \/ Tick
    BY <1>4, OutsidePreserves
  <1>5. CASE UNCHANGED vars
    BY <1>5 DEF vars, OutboxInv, OutboxTypeOK, RowInv, SenderInv
  <1> QED
    BY <1>1, <1>2, <1>3, <1>4, <1>5 DEF Next

(* The inductive invariant.                                                 *)
THEOREM OutboxInvariant == Spec => []OutboxInv
  BY InitOutboxInv, OutboxInvPreserved, PTL DEF Spec

(* Types, and one sender at a time.                                         *)
THEOREM OutboxTypes == Spec => []OutboxTypeOK
  BY OutboxInvariant, PTL DEF OutboxInv

(* No notification is shown twice.                                          *)
THEOREM NotificationsAreShownOnce == Spec => []ShownAtMostOnce
  <1>1. OutboxInv => ShownAtMostOnce
    BY DEF OutboxInv, RowInv, ShownAtMostOnce
  <1> QED
    BY <1>1, OutboxInvariant, PTL

(* A definite state is true of Discord and of the network.                  *)
THEOREM StatesAreTrue == Spec => []StateIsTrue
  <1>1. OutboxInv => StateIsTrue
    BY DEF OutboxInv, RowInv, StateIsTrue
  <1> QED
    BY <1>1, OutboxInvariant, PTL

(* The row of a sender about to post is SENDING.                            *)
LEMMA LeavingIsSending ==
    ASSUME OutboxInv, NEW e \in Events, Leaving(e)
    PROVE  rows[e].state = "SENDING"
  BY DEF OutboxInv, SenderInv, Leaving

(* What a step does to the state of one row.                                *)
LEMMA RowMoves ==
    ASSUME OutboxInv, [Next]_vars, NEW e \in Events, rows'[e].state # rows[e].state
    PROVE  \/ rows[e].state = "NONE" /\ rows'[e].state = "PENDING" /\ shown' = shown
           \/ rows[e].state = "PENDING" /\ rows'[e].state = "SENDING" /\ shown' = shown
           \/ /\ rows[e].state = "SENDING" /\ shown' = shown
              /\ rows'[e].state \in {"PENDING", "SENT", "FAILED", "UNKNOWN"}
           \/ rows[e].state = "UNKNOWN" /\ rows'[e].state = "SENT" /\ shown' = shown
  <1>1. CASE \E f \in Events : Enqueue(f) \/ Reconcile(f)
    BY <1>1, DataTyped DEF Enqueue, Reconcile
  <1>2. ASSUME NEW t \in Senders, Step(t)
        PROVE  /\ shown' = shown
               /\ \/ rows[e].state = "SENDING" /\ rows'[e].state \in Outcomes
                  \/ rows[e].state = "PENDING" /\ rows'[e].state = "SENDING"
    <2>1. CASE RecoverAbandoned(t)
      BY <2>1, DataTyped DEF RecoverAbandoned, RecoverTo, Outcomes
    <2>2. CASE Claim(t)
      BY <2>2, DataTyped DEF Claim, First, Due
    <2>3. CASE ClaimNothing(t) \/ Post(t)
      BY <2>3 DEF ClaimNothing, Post
    <2>4. CASE Finish(t)
      <3>1. sender[t].outcome \in Outcomes
        BY <2>4 DEF Finish, StoreOutcome, OutboxInv, SenderInv
      <3> QED
        BY <2>4, <3>1, DataTyped DEF Finish, StoreOutcome
    <2> QED
      BY <1>2, <2>1, <2>2, <2>3, <2>4 DEF Step
  <1>3. CASE \/ \E f \in Events : Arrive(f) \/ Vanish(f)
             \/ \E t \in Senders, c \in Commands : Acquire(t, c)
             \/ \E t \in Senders : Die(t)
             \/ Tick \/ UNCHANGED vars
    BY <1>3 DEF Arrive, Vanish, Acquire, AcquireAnyway, Die, Tick, vars
  <1> QED
    BY <1>1, <1>2, <1>3 DEF Next, Outcomes

(* No sender takes up what is recorded or in doubt.                         *)
THEOREM DoubtsAreNotRetried == Spec => DoubtIsNotRetried
  <1>1. ASSUME OutboxInv, OutboxInv', [Next]_vars, NEW e \in Events,
               rows[e].state \in {"SENT", "FAILED", "UNKNOWN"}
        PROVE  /\ ~Leaving(e) /\ ~Leaving(e)'
               /\ rows'[e].state \in {rows[e].state, "SENT"}
    <2>1. rows'[e].state \in {rows[e].state, "SENT"}
      BY <1>1, RowMoves
    <2>2. rows'[e].state # "SENDING"
      BY <1>1, <2>1
    <2>3. ~Leaving(e)'
      BY <1>1, <2>2 DEF OutboxInv, SenderInv, Leaving
    <2> QED
      BY <1>1, <2>1, <2>3, LeavingIsSending
  <1>2. OutboxInv /\ OutboxInv' /\ [Next]_vars => [\A e \in Events : rows[e].state \in {"SENT", "FAILED", "UNKNOWN"} =>
            /\ ~Leaving(e) /\ ~Leaving(e)'
            /\ rows'[e].state \in {rows[e].state, "SENT"}]_vars
    BY <1>1
  <1> QED
    BY <1>2, OutboxInvariant, PTL DEF Spec, DoubtIsNotRetried

(* A posting sender knows that every waiting retry is due.                  *)
THEOREM RateLimitsStopAll == Spec => RateLimitStopsAll
  <1>1. ASSUME OutboxInv, NEW t \in Senders, sender[t].at = "post",
               NEW e \in Events, rows[e].state = "PENDING"
        PROVE  rows[e].next <= now
    <2>1. cooldown <= now
      BY <1>1 DEF OutboxInv, SenderInv
    <2>2. RowInv(e) /\ rows[e].next \in Nat /\ cooldown \in Nat /\ now \in Nat
      BY <1>1, DataTyped
    <2> QED
      BY <1>1, <2>1, <2>2 DEF RowInv
  <1>2. OutboxInv => [\A t \in Senders : sender[t].at = "post" /\ sender'[t].at = "finish" =>
            \A e \in Events : rows[e].state = "PENDING" => rows[e].next <= now]_vars
    BY <1>1
  <1> QED
    BY <1>2, OutboxInvariant, PTL DEF RateLimitStopsAll
-----------------------------------------------------------------------------
(* Refinement: a step moves at most one row, or shows at most one message,  *)
(* or puts interrupted rows in doubt, which stay open.                      *)

(* The abstract step of a row that changes its state.                       *)
LEMMA StageMoves ==
    ASSUME OutboxInv, NEW e \in Events, NEW from, NEW to, from # to,
           StageOf(rows[e].state) = from, StageOf(rows'[e].state) = to,
           \A f \in Events : f # e => rows'[f] = rows[f]
    PROVE  Promise!Moved(e, from, to)
  <1>1. Stages[e] = from /\ Stages \in [Events -> {StageOf(rows[f].state) : f \in Events}]
    BY DEF Stages
  <1>2. Stages' = [Stages EXCEPT ![e] = to]
    BY DEF Stages
  <1> QED
    BY <1>1, <1>2 DEF Promise!Moved

(* Rows that keep their stage, and messages that stay, are a stutter.       *)
LEMMA StagesStay ==
    ASSUME \A f \in Events : StageOf(rows'[f].state) = StageOf(rows[f].state),
           shown' = shown
    PROVE  UNCHANGED Promise!deliveryVars
  BY DEF Stages, Visible, Promise!deliveryVars

(* A row is visible when it has a message; nothing else changes that.       *)
LEMMA VisibleStays ==
    ASSUME shown' = shown
    PROVE  UNCHANGED Visible
  BY DEF Visible

(* A message for an open attempt.                                           *)
LEMMA Appears ==
    ASSUME OutboxInv, NEW e \in Events, shown' = [shown EXCEPT ![e] = @ + 1],
           shown[e] = 0, rows[e].state \in {"SENDING", "UNKNOWN"}, rows' = rows
    PROVE  Promise!Show(e)
  <1>1. Stages' = Stages /\ Stages[e] = "open"
    BY DEF Stages, StageOf
  <1>2. Visible' = Visible \cup {e} /\ e \notin Visible
    BY DataTyped DEF Visible
  <1> QED
    BY <1>1, <1>2 DEF Promise!Show

(* Every step is a step of the promise or a stutter.                        *)
LEMMA StepKeepsPromise ==
    ASSUME OutboxInv, [Next]_vars
    PROVE  [Promise!DeliveryNext]_Promise!deliveryVars
  <1>1. ASSUME NEW e \in Events, Enqueue(e) PROVE Promise!Submit(e)
    <2>1. Promise!Moved(e, "new", "queued")
      BY <1>1, DataTyped, StageMoves DEF Enqueue, StageOf
    <2> QED
      BY <1>1, <2>1, VisibleStays DEF Enqueue, Promise!Submit
  <1>2. ASSUME NEW e \in Events, Reconcile(e) PROVE Promise!Close(e)
    <2>1. Promise!Moved(e, "open", "sent")
      BY <1>2, DataTyped, StageMoves DEF Reconcile, StageOf
    <2>2. e \in Visible
      BY <1>2 DEF Reconcile, Visible
    <2> QED
      BY <1>2, <2>1, <2>2, VisibleStays DEF Reconcile, Promise!Close
  <1>3. ASSUME NEW e \in Events, Arrive(e) PROVE Promise!Show(e)
    <2>1. shown[e] = 0 /\ rows[e].state \in {"SENDING", "UNKNOWN"}
      BY <1>3, DataTyped DEF Arrive, RowInv
    <2> QED
      BY <1>3, <2>1, Appears DEF Arrive
  <1>4. ASSUME NEW t \in Senders, RecoverAbandoned(t) PROVE UNCHANGED Promise!deliveryVars
    <2>1. \A f \in Events : StageOf(rows'[f].state) = StageOf(rows[f].state)
      BY <1>4, DataTyped DEF RecoverAbandoned, RecoverTo, StageOf
    <2> QED
      BY <1>4, <2>1, StagesStay DEF RecoverAbandoned, RecoverTo
  <1>5. ASSUME NEW t \in Senders, Claim(t) PROVE Promise!DeliveryNext
    <2>1. PICK e \in First : rows' = [rows EXCEPT ![e].state = "SENDING"]
      BY <1>5 DEF Claim
    <2>2. e \in Events /\ rows[e].state = "PENDING"
      BY DEF First, Due
    <2>3. Promise!Moved(e, "queued", "open")
      BY <2>1, <2>2, DataTyped, StageMoves DEF StageOf
    <2> QED
      BY <1>5, <2>2, <2>3, VisibleStays DEF Claim, Promise!Attempt, Promise!DeliveryNext
  <1>6. ASSUME NEW t \in Senders, Post(t)
        PROVE  Promise!DeliveryNext \/ UNCHANGED Promise!deliveryVars
    <2> DEFINE e == sender[t].event
    <2>1. e \in Events /\ rows[e].state = "SENDING" /\ shown[e] = 0
      BY <1>6 DEF Post, OutboxInv, SenderInv
    <2>2. rows' = rows
      BY <1>6 DEF Post
    <2>3. CASE shown' = [shown EXCEPT ![e] = @ + 1]
      BY <2>1, <2>2, <2>3, Appears DEF Promise!DeliveryNext
    <2>4. CASE shown' = shown
      BY <2>2, <2>4, StagesStay
    <2> QED
      BY <1>6, <2>3, <2>4 DEF Post
  <1>7. ASSUME NEW t \in Senders, Finish(t)
        PROVE  Promise!DeliveryNext \/ UNCHANGED Promise!deliveryVars
    <2> DEFINE e == sender[t].event
               o == sender[t].outcome
    <2>1. /\ e \in Events /\ rows[e].state = "SENDING" /\ o \in Outcomes
          /\ o = "SENT" => shown[e] = 1
          /\ o \in {"PENDING", "FAILED"} => shown[e] = 0
      BY <1>7 DEF Finish, StoreOutcome, OutboxInv, SenderInv
    <2>2. /\ rows'[e].state = o /\ \A f \in Events : f # e => rows'[f] = rows[f]
          /\ shown' = shown
      BY <1>7, <2>1, DataTyped DEF Finish, StoreOutcome
    <2>3. UNCHANGED Visible
      BY <2>2, VisibleStays
    <2>4. CASE o = "SENT"
      <3>1. Promise!Moved(e, "open", "sent")
        BY <2>1, <2>2, <2>4, StageMoves DEF StageOf
      <3>2. e \in Visible
        BY <2>1, <2>4 DEF Visible
      <3> QED
        BY <2>1, <2>3, <3>1, <3>2 DEF Promise!Close, Promise!DeliveryNext
    <2>5. CASE o = "FAILED"
      <3>1. Promise!Moved(e, "open", "failed")
        BY <2>1, <2>2, <2>5, StageMoves DEF StageOf
      <3>2. e \notin Visible
        BY <2>1, <2>5 DEF Visible
      <3> QED
        BY <2>1, <2>3, <3>1, <3>2 DEF Promise!Close, Promise!DeliveryNext
    <2>6. CASE o = "PENDING"
      <3>1. Promise!Moved(e, "open", "queued")
        BY <2>1, <2>2, <2>6, StageMoves DEF StageOf
      <3>2. e \notin Visible
        BY <2>1, <2>6 DEF Visible
      <3> QED
        BY <2>1, <2>3, <3>1, <3>2 DEF Promise!Postpone, Promise!DeliveryNext
    <2>7. CASE o = "UNKNOWN"
      <3>1. \A f \in Events : StageOf(rows'[f].state) = StageOf(rows[f].state)
        BY <2>1, <2>2, <2>7 DEF StageOf
      <3> QED
        BY <2>2, <3>1, StagesStay
    <2> QED
      BY <2>1, <2>4, <2>5, <2>6, <2>7 DEF Outcomes
  <1>8. CASE \/ \E e \in Events : Vanish(e)
             \/ \E t \in Senders, c \in Commands : Acquire(t, c)
             \/ \E t \in Senders : ClaimNothing(t) \/ Die(t)
             \/ Tick \/ UNCHANGED vars
    <2>1. rows' = rows /\ shown' = shown
      BY <1>8 DEF Vanish, Acquire, AcquireAnyway, ClaimNothing, Die, Tick, vars
    <2> QED
      BY <2>1, StagesStay
  <1> QED
    BY <1>1, <1>2, <1>3, <1>4, <1>5, <1>6, <1>7, <1>8
       DEF Next, Step, Promise!DeliveryNext

(* The senders implement the promise, whatever dies or arrives late.        *)
THEOREM DeliveryIsImplemented == Spec => KeepsPromise
  <1>1. OutboxInit => Promise!DeliveryInit
    BY DEF OutboxInit, Promise!DeliveryInit, Stages, Visible, StageOf
  <1>2. OutboxInv /\ [Next]_vars => [Promise!DeliveryNext]_Promise!deliveryVars
    BY StepKeepsPromise
  <1> QED
    BY <1>1, <1>2, OutboxInvariant, PTL DEF Spec, KeepsPromise, Promise!DeliverySpec
=============================================================================
