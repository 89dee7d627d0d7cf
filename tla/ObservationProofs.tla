------------------------- MODULE ObservationProofs -------------------------
(* Safety of the observation, proved for every number of threads, adapters, *)
(* events, versions and failures, and for any documents and conditions.     *)
EXTENDS Observation, TLAPS, FiniteSetTheorems

(* What a thread knows at each point of an event's way.                     *)
ThreadInv(t) ==
    LET w == thread[t]
    IN  /\ w.todo \subseteq Received
        /\ w.at # "idle" => w.job # "none"
        /\ w.event # 0 <=> w.at \in {"record", "report", "ack"}
        /\ w.event # 0 => w.event \in Received
        /\ w.at = "record" => /\ w.chosen # None
                              /\ w.chosen \in Adapters => Status(w.chosen) = "APPROVED"
        /\ w.at \in {"report", "ack"} => /\ w.job = "poll" /\ w.chosen # None
                                         /\ current[w.event] = w.chosen
        /\ w.at = "report" => w.chosen = Unknown
        /\ w.at = "ack" /\ w.chosen = Unknown => w.event \in cases

(* What the withdrawn adapter still interprets is what the thread has left. *)
RevokingInv(t) ==
    LET w == thread[t]
    IN  w.revokes # None =>
            /\ w.job = "reprocess" /\ Status(w.revokes) = "REVOKED"
            /\ w.at \in {"loop", "record"} =>
                 \A e \in Events : current[e] = w.revokes => e \in w.todo \cup {w.event}

(* Only received events are interpreted.                                    *)
EventInv == \A e \in Events : current[e] # None => e \in Received

(* What was withdrawn stays revoked and interprets nothing.                 *)
WithdrawnInv ==
    \A a \in withdrawn : Status(a) = "REVOKED" /\ \A e \in Events : current[e] # a

(* The stored authors are everyone who wrote, and never who approved.       *)
AuthorsInv ==
    \A a \in Adapters : Status(a) # "none" =>
        /\ wrote[a] = adapters[a].authors
        /\ Status(a) = "DRAFT" => adapters[a].approver = None
        /\ adapters[a].approver \notin wrote[a]

(* Active adapters for one version exclude each other.                      *)
SeparateInv ==
    \A a, b \in Adapters :
        a # b /\ Status(b) = "APPROVED" /\ Active(a, adapters[b].pinned) =>
            Separated(adapters[a].conditions, adapters[b].conditions)

ObservationInv ==
    /\ ObservationTypeOK
    /\ \A t \in Threads : ThreadInv(t)
    /\ \A t \in Threads : RevokingInv(t)
    /\ EventInv
    /\ WithdrawnInv
    /\ AuthorsInv
    /\ SeparateInv
-----------------------------------------------------------------------------
(* Conditions that are separated fit no document together.                    *)
LEMMA SeparatedFitNone ==
    ASSUME NEW c \in Contents, NEW d \in Contents, Separated(c, d),
           NEW document \in Contents
    PROVE  ~ (Matches(document, c) /\ Matches(document, d))
  BY DEF Separated, Matches

LEMMA ReceivedAreEvents == ObservationTypeOK => Received \subseteq Events /\ 0 \notin Events
  BY ObservationAssumption DEF ObservationTypeOK, Received, Events

(* A thread at work on an event holds the lock, so there is one at most.    *)
LEMMA OneAtWork ==
    ASSUME ObservationInv, NEW t \in Threads, lock \in {None, t}
    PROVE  \A u \in Threads : u # t => thread[u].event = 0
                                       /\ thread[u].at \notin {"record", "report", "ack"}
  BY ObservationAssumption DEF ObservationInv, ObservationTypeOK, ThreadInv

(* The interpretation is an active adapter or Unknown.                      *)
LEMMA InterpretationIsActive ==
    ASSUME NEW e
    PROVE  /\ Interpretation(e) \in Adapters \cup {Unknown}
           /\ Interpretation(e) \in Adapters => Status(Interpretation(e)) = "APPROVED"
  <1>1. CASE Cardinality(Fitting(e)) = 1
    <2>1. Fitting(e) # {}
      BY <1>1, FS_EmptySet
    <2>2. Interpretation(e) \in Fitting(e)
      BY <1>1, <2>1 DEF Interpretation
    <2> QED
      BY <2>2 DEF Fitting, Active
  <1>2. CASE Cardinality(Fitting(e)) # 1
    BY <1>2, ObservationAssumption DEF Interpretation
  <1> QED
    BY <1>1, <1>2

(* Steps of one thread that leave the adapters alone: it is enough to look  *)
(* at that thread and at what the step has done to its event.               *)
LEMMA OneThreadIsEnough ==
    ASSUME ObservationInv, NEW t \in Threads, NEW w \in ThreadRecords, Becomes(t, w),
           UNCHANGED <<received, review, version>>,
           lock' \in {lock, t, None}, lock \in {None, t} \/ lock' = lock,
           w.event # 0 => lock' = t, faults' \in Nat,
           ThreadInv(t)', RevokingInv(t)',
           cases \subseteq cases', cases' \subseteq Received,
           acked' \subseteq Received, withdrawn' \subseteq Adapters,
           current' \in [Events -> Adapters \cup {Unknown, None}],
           \A e \in Events : current'[e] # current[e] =>
               /\ lock = t /\ e \in Received
               /\ current'[e] \in Adapters => Status(current'[e]) = "APPROVED",
           \A a \in withdrawn' \ withdrawn :
               Status(a) = "REVOKED" /\ \A e \in Events : current[e] # a
    PROVE  ObservationInv'
  <1>1. \A u \in Threads : u # t => thread'[u] = thread[u]
    BY DEF ObservationInv, ObservationTypeOK, Becomes
  <1>2. thread' \in [Threads -> ThreadRecords] /\ thread'[t] = w
    BY DEF ObservationInv, ObservationTypeOK, Becomes
  <1>3. \A a : Status(a)' = Status(a) /\ Received' = Received
    BY DEF Status, review, Received
  <1>4. ASSUME NEW u \in Threads, u # t, thread[u].event # 0
        PROVE  lock = u /\ lock' = u /\ current' = current
    <2>1. lock = u /\ u # None
      BY <1>4, ObservationAssumption DEF ObservationInv, ObservationTypeOK
    <2>2. \A e \in Events : current'[e] = current[e]
      BY <1>4, <2>1
    <2> QED
      BY <1>4, <2>1, <2>2 DEF ObservationInv, ObservationTypeOK
  <1>5. ObservationTypeOK'
    <2>1. \A u \in Threads : thread'[u].event # 0 => lock' = u
      BY <1>1, <1>2, <1>4
    <2>2. lock' \in Threads \cup {None}
      BY DEF ObservationInv, ObservationTypeOK
    <2> QED
      BY <1>2, <2>1, <2>2 DEF ObservationInv, ObservationTypeOK, review, Received
  <1>6. ASSUME NEW u \in Threads PROVE ThreadInv(u)'
    <2>1. CASE u # t
      <3>1. ThreadInv(u)
        BY DEF ObservationInv
      <3> QED
        BY <1>1, <1>3, <1>4, <2>1, <3>1 DEF ThreadInv
    <2> QED
      BY <2>1
  <1>7. ASSUME NEW u \in Threads PROVE RevokingInv(u)'
    <2>1. CASE u # t
      <3>1. RevokingInv(u) /\ thread[u].revokes \in Adapters \cup {None}
        BY DEF ObservationInv, ObservationTypeOK, ThreadRecords
      <3>2. thread[u].revokes # None =>
               \A e \in Events : current'[e] = thread[u].revokes => current[e] = thread[u].revokes
        BY <3>1 DEF RevokingInv
      <3> QED
        BY <1>1, <1>3, <2>1, <3>1, <3>2 DEF RevokingInv
    <2> QED
      BY <2>1
  <1>8. EventInv'
    BY <1>3 DEF ObservationInv, EventInv
  <1>9. WithdrawnInv'
    <2>1. ASSUME NEW a \in withdrawn'
          PROVE  Status(a) = "REVOKED" /\ \A e \in Events : current[e] # a
      BY DEF ObservationInv, WithdrawnInv
    <2>2. ASSUME NEW a \in withdrawn', NEW e \in Events PROVE current'[e] # a
      BY <2>1
    <2> QED
      BY <1>3, <2>1, <2>2 DEF WithdrawnInv
  <1>10. AuthorsInv' /\ SeparateInv'
    BY <1>3 DEF ObservationInv, AuthorsInv, SeparateInv, Active, review
  <1> QED
    BY <1>5, <1>6, <1>7, <1>8, <1>9, <1>10 DEF ObservationInv

LEMMA IdleKnowsNothing ==
    ASSUME NEW t, thread'[t] = Idle
    PROVE  ThreadInv(t)' /\ RevokingInv(t)' /\ Idle \in ThreadRecords
  BY DEF ThreadInv, RevokingInv, Idle, ThreadRecords

LEMMA StartKeepsInv ==
    ASSUME ObservationInv, NEW t \in Threads, StartPoll(t) \/ StartReprocess(t)
    PROVE  ObservationInv'
  <1> USE DEF ObservationInv, ObservationTypeOK
  <1>1. PICK w \in ThreadRecords :
             /\ Becomes(t, w) /\ w.at \in {"loop", "snapshot"} /\ w.event = 0
             /\ w.revokes = None /\ w.todo \subseteq Received /\ w.job # "none"
    <2>1. CASE StartPoll(t)
      <3> DEFINE w == [Idle EXCEPT !.at = "loop", !.job = "poll", !.todo = Received \ acked]
      <3>1. Received \subseteq Events
        BY ReceivedAreEvents
      <3>2. w \in ThreadRecords
        BY <3>1 DEF Idle, ThreadRecords
      <3> QED
        BY <2>1, <3>2 DEF StartPoll, Idle
    <2>2. CASE StartReprocess(t)
      <3> DEFINE w == [Idle EXCEPT !.at = "snapshot", !.job = "reprocess"]
      <3>1. w \in ThreadRecords
        BY DEF Idle, ThreadRecords
      <3> QED
        BY <2>2, <3>1 DEF StartReprocess, Idle
    <2> QED
      BY <2>1, <2>2
  <1>2. thread'[t] = w
    BY <1>1 DEF Becomes
  <1>3. UNCHANGED <<events, review, version, faults, withdrawn>>
    BY DEF StartPoll, StartReprocess
  <1>4. ThreadInv(t)' /\ RevokingInv(t)'
    BY <1>1, <1>2, <1>3 DEF ThreadInv, RevokingInv, Received, events
  <1>5. lock' \in {lock, t, None} /\ (lock \in {None, t} \/ lock' = lock)
    BY DEF StartPoll, StartReprocess
  <1> QED
    BY <1>1, <1>3, <1>4, <1>5, OneThreadIsEnough DEF events

LEMMA SnapshotKeepsInv ==
    ASSUME ObservationInv, NEW t \in Threads, Snapshot(t)
    PROVE  ObservationInv'
  <1> DEFINE w == [thread[t] EXCEPT !.at = "loop", !.todo = Received]
  <1>1. thread[t] \in ThreadRecords /\ thread[t].at = "snapshot" /\ thread[t].event = 0
        /\ thread[t].job # "none"
    BY DEF ObservationInv, ObservationTypeOK, ThreadInv, Snapshot
  <1>2. Received \subseteq Events
    BY ReceivedAreEvents DEF ObservationInv
  <1>3. w \in ThreadRecords /\ w.event = 0 /\ w.at = "loop" /\ w.todo = Received
        /\ w.revokes = thread[t].revokes /\ w.job = thread[t].job
    BY <1>1, <1>2 DEF ThreadRecords
  <1>4. Becomes(t, w) /\ thread'[t] = w
        /\ UNCHANGED <<events, review, version, lock, faults, withdrawn>>
    BY DEF Snapshot, Becomes, ObservationInv, ObservationTypeOK
  <1>5. ThreadInv(t)'
    BY <1>1, <1>3, <1>4 DEF ThreadInv, Received, events
  <1>6. RevokingInv(t)'
    <2>1. RevokingInv(t) /\ w.revokes \in Adapters \cup {None}
      BY <1>3 DEF ObservationInv, ThreadRecords
    <2>2. w.revokes # None =>
             \A e \in Events : current'[e] = w.revokes => e \in w.todo
      BY <1>3, <1>4, <2>1 DEF ObservationInv, EventInv, events
    <2> QED
      BY <1>3, <1>4, <2>1, <2>2 DEF RevokingInv, Status, review
  <1> QED
    BY <1>3, <1>4, <1>5, <1>6, OneThreadIsEnough DEF events, ObservationInv, ObservationTypeOK

LEMMA ReadEventKeepsInv ==
    ASSUME ObservationInv, NEW t \in Threads, ReadEvent(t)
    PROVE  ObservationInv'
  <1>1. PICK e \in thread[t].todo :
             Becomes(t, [thread[t] EXCEPT !.at = "record", !.event = e,
                             !.chosen = Interpretation(e), !.todo = @ \ {e}])
    BY DEF ReadEvent, Read
  <1> DEFINE w == [thread[t] EXCEPT !.at = "record", !.event = e,
                       !.chosen = Interpretation(e), !.todo = @ \ {e}]
  <1>2. /\ thread[t] \in ThreadRecords /\ thread[t].at = "loop" /\ thread[t].event = 0
        /\ thread[t].todo \subseteq Received /\ thread[t].job # "none"
    BY DEF ObservationInv, ObservationTypeOK, ThreadInv, ReadEvent, Read
  <1>3. e \in Received /\ e \in Events /\ e # 0
    BY <1>2, ReceivedAreEvents DEF ObservationInv
  <1>4. /\ Interpretation(e) \in Adapters \cup {Unknown}
        /\ Interpretation(e) \in Adapters => Status(Interpretation(e)) = "APPROVED"
        /\ Interpretation(e) # None
    BY InterpretationIsActive, ObservationAssumption
  <1>5. /\ w \in ThreadRecords /\ w.at = "record" /\ w.event = e
        /\ w.chosen = Interpretation(e) /\ w.todo = thread[t].todo \ {e}
        /\ w.revokes = thread[t].revokes /\ w.job = thread[t].job
    BY <1>2, <1>3, <1>4 DEF ThreadRecords
  <1>6. /\ Becomes(t, w) /\ thread'[t] = w
        /\ lock \in {None, t} /\ lock' = t
        /\ UNCHANGED <<events, review, version, faults, withdrawn>>
    BY <1>1 DEF ReadEvent, Read, Becomes, ObservationInv, ObservationTypeOK
  <1>7. ThreadInv(t)'
    BY <1>2, <1>3, <1>4, <1>5, <1>6 DEF ThreadInv, Received, Status, events, review
  <1>8. RevokingInv(t)'
    <2>1. RevokingInv(t)
      BY DEF ObservationInv
    <2> QED
      BY <1>2, <1>3, <1>5, <1>6, <2>1, ReceivedAreEvents
         DEF ObservationInv, RevokingInv, Status, events, review
  <1> HIDE DEF w
  <1> QED
    BY <1>5, <1>6, <1>7, <1>8, OneThreadIsEnough DEF events, ObservationInv, ObservationTypeOK

LEMMA RecordEventKeepsInv ==
    ASSUME ObservationInv, NEW t \in Threads, RecordEvent(t)
    PROVE  ObservationInv'
  <1> DEFINE e == thread[t].event
             c == thread[t].chosen
             w == [thread[t] EXCEPT !.at = After(t),
                       !.event = IF After(t) = "loop" THEN 0 ELSE @,
                       !.chosen = IF After(t) = "loop" THEN None ELSE @]
  <1>1. /\ thread[t] \in ThreadRecords /\ thread[t].at = "record"
        /\ e # 0 /\ e \in Received /\ e \in Events /\ thread[t].todo \subseteq Received
        /\ c \in Adapters \cup {Unknown} /\ c # None
        /\ c \in Adapters => Status(c) = "APPROVED"
        /\ lock = t
    BY DEF ObservationInv, ObservationTypeOK, ThreadInv, RecordEvent, ThreadRecords
  <1>2. /\ After(t) = "loop" => thread[t].job = "reprocess"
        /\ After(t) # "loop" => thread[t].job = "poll"
        /\ After(t) \in {"loop", "report", "ack"}
        /\ After(t) = "report" => c = Unknown
        /\ After(t) = "ack" => c # Unknown
    <2>1. thread[t].job # "none"
      BY <1>1 DEF ObservationInv, ThreadInv
    <2> QED
      BY <1>1, <2>1 DEF After, ThreadRecords
  <1>3. /\ w \in ThreadRecords /\ w.at = After(t) /\ w.todo = thread[t].todo
        /\ w.revokes = thread[t].revokes /\ w.job = thread[t].job
        /\ w.event = (IF After(t) = "loop" THEN 0 ELSE e)
        /\ After(t) # "loop" => w.chosen = c
    BY <1>1, <1>2 DEF ThreadRecords
  <1>4. /\ Becomes(t, w) /\ thread'[t] = w
        /\ current' = [current EXCEPT ![e] = c]
        /\ lock' = IF thread[t].job = "reprocess" THEN None ELSE t
        /\ UNCHANGED <<received, cases, acked, review, version, faults, withdrawn>>
    BY <1>1 DEF RecordEvent, Becomes, ObservationInv, ObservationTypeOK
  <1>5. /\ current' \in [Events -> Adapters \cup {Unknown, None}]
        /\ current'[e] = c /\ \A x \in Events : x # e => current'[x] = current[x]
    BY <1>1, <1>4 DEF ObservationInv, ObservationTypeOK
  <1>6. ThreadInv(t)'
    BY <1>1, <1>2, <1>3, <1>4, <1>5, ReceivedAreEvents
       DEF ObservationInv, ThreadInv, Received, Status, review
  <1>7. RevokingInv(t)'
    <2>1. RevokingInv(t) /\ w.revokes \in Adapters \cup {None}
      BY <1>3 DEF ObservationInv, ThreadRecords
    <2>2. w.revokes # None => c # w.revokes /\ After(t) = "loop"
      BY <1>1, <1>2, <1>3, <2>1 DEF RevokingInv
    <2> QED
      BY <1>1, <1>3, <1>4, <1>5, <2>1, <2>2 DEF RevokingInv, Status, review
  <1> HIDE DEF w, e, c
  <1> QED
    BY <1>1, <1>2, <1>3, <1>4, <1>5, <1>6, <1>7, OneThreadIsEnough
       DEF ObservationInv, ObservationTypeOK

(* The finding and the acknowledgement, under the lock of the poll.         *)
LEMMA AfterRecordKeepsInv ==
    ASSUME ObservationInv, NEW t \in Threads, Report(t) \/ Acknowledge(t)
    PROVE  ObservationInv'
  <1> DEFINE e == thread[t].event
             w == IF thread[t].at = "report" THEN [thread[t] EXCEPT !.at = "ack"]
                  ELSE [thread[t] EXCEPT !.at = "loop", !.event = 0, !.chosen = None]
  <1>1. /\ thread[t] \in ThreadRecords /\ thread[t].at \in {"report", "ack"}
        /\ e # 0 /\ e \in Received /\ thread[t].todo \subseteq Received
        /\ thread[t].job = "poll" /\ lock = t
        /\ thread[t].chosen # None /\ current[e] = thread[t].chosen
    BY DEF ObservationInv, ObservationTypeOK, ThreadInv, Report, Acknowledge
  <1>2. thread[t].revokes = None
    BY <1>1 DEF ObservationInv, RevokingInv
  <1>3. /\ w \in ThreadRecords /\ w.todo = thread[t].todo /\ w.revokes = None
        /\ w.job = "poll"
        /\ thread[t].at = "report" => w.at = "ack" /\ w.event = e /\ w.chosen = thread[t].chosen
        /\ thread[t].at = "ack" => w.at = "loop" /\ w.event = 0
    BY <1>1, <1>2 DEF ThreadRecords
  <1>4. /\ Becomes(t, w) /\ thread'[t] = w
        /\ UNCHANGED <<received, current, review, version, lock, faults, withdrawn>>
        /\ thread[t].at = "report" => e \in cases'
        /\ cases \subseteq cases' /\ cases' \subseteq cases \cup {e}
        /\ acked' \subseteq acked \cup {e}
    BY <1>1 DEF Report, Acknowledge, Becomes, ObservationInv, ObservationTypeOK
  <1>5. ThreadInv(t)'
    BY <1>1, <1>3, <1>4 DEF ObservationInv, ThreadInv, Received
  <1>6. RevokingInv(t)'
    BY <1>3, <1>4 DEF RevokingInv
  <1> HIDE DEF w, e
  <1> QED
    BY <1>1, <1>3, <1>4, <1>5, <1>6, OneThreadIsEnough DEF ObservationInv, ObservationTypeOK

(* A request that ends, well or not.  Only now is a revocation done, and by *)
(* now nothing is left that the adapter interprets.                         *)
LEMMA EndKeepsInv ==
    ASSUME ObservationInv, NEW t \in Threads, Return(t) \/ AccessFails(t)
    PROVE  ObservationInv'
  <1>1. /\ Becomes(t, Idle) /\ thread'[t] = Idle
        /\ lock' = (IF lock = t THEN None ELSE lock)
        /\ UNCHANGED <<events, review, version>>
    BY DEF Return, AccessFails, Becomes, ObservationInv, ObservationTypeOK
  <1>2. faults' \in Nat
    BY DEF Return, AccessFails, ObservationInv, ObservationTypeOK
  <1>3. ASSUME NEW a \in withdrawn' \ withdrawn
        PROVE  a \in Adapters /\ Status(a) = "REVOKED" /\ \A e \in Events : current[e] # a
    <2>1. a = thread[t].revokes /\ a # None /\ thread[t].at = "loop" /\ thread[t].todo = {}
      BY <1>3 DEF Return, AccessFails
    <2>2. a \in Adapters /\ thread[t].event = 0
      BY <2>1 DEF ObservationInv, ObservationTypeOK, ThreadRecords, ThreadInv
    <2> QED
      BY <2>1, <2>2, ReceivedAreEvents DEF ObservationInv, RevokingInv
  <1>4. withdrawn' \subseteq Adapters
    BY <1>3 DEF ObservationInv, ObservationTypeOK
  <1>5. Idle.event = 0
    BY DEF Idle
  <1> QED
    BY <1>1, <1>2, <1>3, <1>4, <1>5, IdleKnowsNothing, OneThreadIsEnough
       DEF ObservationInv, ObservationTypeOK, events

LEMMA CrashKeepsInv ==
    ASSUME ObservationInv, Crash
    PROVE  ObservationInv'
  <1>1. /\ \A t \in Threads : thread'[t] = Idle
        /\ lock' = None /\ UNCHANGED <<events, review, version, withdrawn>>
    BY DEF Crash
  <1>2. ObservationTypeOK'
    <2>1. faults' \in Nat
      BY DEF ObservationInv, ObservationTypeOK, Crash
    <2>2. Idle \in ThreadRecords /\ Idle.event = 0
      BY DEF Idle, ThreadRecords
    <2>3. thread' \in [Threads -> ThreadRecords]
      BY <2>2 DEF Crash
    <2> QED
      BY <1>1, <2>1, <2>2, <2>3
         DEF ObservationInv, ObservationTypeOK, events, review, Received
  <1>3. \A t \in Threads : ThreadInv(t)' /\ RevokingInv(t)'
    BY <1>1, IdleKnowsNothing
  <1>4. EventInv' /\ WithdrawnInv' /\ AuthorsInv' /\ SeparateInv'
    BY <1>1 DEF ObservationInv, EventInv, WithdrawnInv, AuthorsInv, SeparateInv, Active, Status,
                events, review, Received
  <1> QED
    BY <1>2, <1>3, <1>4 DEF ObservationInv

(* Evidence and registrations.                                              *)
LEMMA WorldKeepsInv ==
    ASSUME ObservationInv, RegisterService \/ \E d \in Documents : Ingest(d)
    PROVE  ObservationInv'
  <1>1. /\ received' \in Seq(Documents) /\ Len(received') <= MaxEvents
        /\ Received \subseteq Received' /\ version' \in Nat
        /\ UNCHANGED <<current, cases, acked, review, lock, thread, faults, withdrawn>>
    <2>1. CASE RegisterService
      BY <2>1 DEF RegisterService, ObservationInv, ObservationTypeOK, events, Received
    <2>2. CASE \E d \in Documents : Ingest(d)
      <3>1. PICK d \in Documents : Ingest(d)
        BY <2>2
      <3>2. received' = Append(received, d) /\ Len(received') = Len(received) + 1
        BY <3>1 DEF Ingest, ObservationInv, ObservationTypeOK
      <3> QED
        BY <3>1, <3>2, ObservationAssumption
           DEF Ingest, ObservationInv, ObservationTypeOK, Received
    <2> QED
      BY <2>1, <2>2
  <1>2. ObservationTypeOK'
    BY <1>1 DEF ObservationInv, ObservationTypeOK, review
  <1>3. \A t \in Threads : ThreadInv(t)' /\ RevokingInv(t)'
    BY <1>1 DEF ObservationInv, ThreadInv, RevokingInv, Status, review
  <1>4. EventInv' /\ WithdrawnInv' /\ AuthorsInv' /\ SeparateInv'
    BY <1>1 DEF ObservationInv, EventInv, WithdrawnInv, AuthorsInv, SeparateInv, Active, Status,
                review
  <1> QED
    BY <1>2, <1>3, <1>4 DEF ObservationInv

(* Steps of the review: what is approved or revoked stays so, except that a *)
(* revocation needs the lock that a thread at work on an event has.         *)
LEMMA ReviewIsEnough ==
    ASSUME ObservationInv, UNCHANGED <<events, version, lock, thread, faults, withdrawn>>,
           adapters' \in [Adapters -> Rows \cup {None}],
           wrote' \in [Adapters -> SUBSET (People \cup {Agent})],
           \A a \in Adapters : Status(a) \in {"APPROVED", "REVOKED"} => Status(a)' = Status(a),
           AuthorsInv', SeparateInv'
    PROVE  ObservationInv'
  <1>1. ObservationTypeOK'
    BY DEF ObservationInv, ObservationTypeOK, events, Received
  <1>2. ASSUME NEW t \in Threads PROVE ThreadInv(t)' /\ RevokingInv(t)'
    <2>1. thread[t].revokes \in Adapters \cup {None}
      BY DEF ObservationInv, ObservationTypeOK, ThreadRecords
    <2> QED
      BY <2>1 DEF ObservationInv, ThreadInv, RevokingInv, events, Received
  <1>3. EventInv' /\ WithdrawnInv'
    BY DEF ObservationInv, ObservationTypeOK, EventInv, WithdrawnInv, events, Received
  <1> QED
    BY <1>1, <1>2, <1>3 DEF ObservationInv

(* Where nothing becomes active, what is active stays separated.            *)
LEMMA FewerAreSeparated ==
    ASSUME SeparateInv,
           \A a \in Adapters : Status(a)' = "APPROVED" =>
               /\ Status(a) = "APPROVED" /\ adapters'[a].pinned = adapters[a].pinned
               /\ adapters'[a].conditions = adapters[a].conditions
    PROVE  SeparateInv'
  BY DEF SeparateInv, Active, Separated

(* A row that is changed or new, and no other.                              *)
LEMMA OneRow ==
    ASSUME ObservationTypeOK, NEW a \in Adapters, NEW row \in Rows,
           adapters' = [adapters EXCEPT ![a] = row]
    PROVE  /\ adapters' \in [Adapters -> Rows \cup {None}]
           /\ adapters'[a] = row /\ Status(a)' = row.status
           /\ \A b \in Adapters : b # a => adapters'[b] = adapters[b] /\ Status(b)' = Status(b)
  BY NoneAssumption DEF ObservationTypeOK, Status

LEMMA DraftIsRow ==
    ASSUME ObservationTypeOK, NEW a \in Adapters, Status(a) # "none"
    PROVE  adapters[a] \in Rows /\ Status(a) = adapters[a].status
  BY DEF ObservationTypeOK, Status

LEMMA ProposeKeepsInv ==
    ASSUME ObservationInv, NEW a \in Adapters, NEW c \in Definitions,
           NEW who \in People \cup {Agent}, ProposeAdapter(a, c, who)
    PROVE  ObservationInv'
  <1> DEFINE row == [pinned |-> version, conditions |-> c, authors |-> {who},
                     approver |-> None, status |-> "DRAFT"]
  <1>1. row \in Rows
    BY DEF Rows, ObservationInv, ObservationTypeOK
  <1>2. /\ adapters' \in [Adapters -> Rows \cup {None}]
        /\ adapters'[a] = row /\ Status(a)' = "DRAFT"
        /\ \A b \in Adapters : b # a => adapters'[b] = adapters[b] /\ Status(b)' = Status(b)
    <2>1. adapters' = [adapters EXCEPT ![a] = row] /\ ObservationTypeOK
      BY DEF ProposeAdapter, ObservationInv
    <2>2. row.status = "DRAFT"
      OBVIOUS
    <2> HIDE DEF row
    <2> QED
      BY <1>1, <2>1, <2>2, OneRow
  <1>3. /\ wrote' \in [Adapters -> SUBSET (People \cup {Agent})]
        /\ wrote'[a] = {who} /\ \A b \in Adapters : b # a => wrote'[b] = wrote[b]
    BY DEF ProposeAdapter, ObservationInv, ObservationTypeOK
  <1>4. Status(a) = "none"
    BY DEF ProposeAdapter, Status
  <1>5. AuthorsInv'
    <2>1. row.authors = {who} /\ row.approver = None /\ None # who
      BY ObservationAssumption
    <2> HIDE DEF row
    <2>2. ASSUME NEW b \in Adapters, Status(b)' # "none"
          PROVE  /\ wrote'[b] = adapters'[b].authors
                 /\ Status(b)' = "DRAFT" => adapters'[b].approver = None
                 /\ adapters'[b].approver \notin wrote'[b]
      BY <1>2, <1>3, <2>1, <2>2 DEF ObservationInv, AuthorsInv
    <2> QED
      BY <2>2 DEF AuthorsInv
  <1>6. SeparateInv'
    BY <1>2, FewerAreSeparated DEF ObservationInv
  <1> HIDE DEF row
  <1> QED
    BY <1>2, <1>3, <1>4, <1>5, <1>6, ReviewIsEnough DEF ProposeAdapter

LEMMA ExplainKeepsInv ==
    ASSUME ObservationInv, NEW a \in Adapters, NEW who \in People, UpdateExplanation(a, who)
    PROVE  ObservationInv'
  <1> DEFINE row == [adapters[a] EXCEPT !.authors = @ \cup {who}]
  <1>1. adapters[a] \in Rows /\ Status(a) = "DRAFT" /\ adapters[a].status = "DRAFT"
    BY DraftIsRow DEF ObservationInv, UpdateExplanation
  <1>2. /\ row \in Rows /\ row.status = "DRAFT" /\ row.approver = adapters[a].approver
        /\ row.authors = adapters[a].authors \cup {who}
    BY <1>1 DEF Rows
  <1>3. /\ adapters' \in [Adapters -> Rows \cup {None}]
        /\ adapters'[a] = row /\ Status(a)' = "DRAFT"
        /\ \A b \in Adapters : b # a => adapters'[b] = adapters[b] /\ Status(b)' = Status(b)
    <2>1. adapters' = [adapters EXCEPT ![a] = row] /\ ObservationTypeOK
      BY DEF UpdateExplanation, ObservationInv, ObservationTypeOK
    <2> HIDE DEF row
    <2> QED
      BY <1>2, <2>1, OneRow
  <1>4. /\ wrote' \in [Adapters -> SUBSET (People \cup {Agent})]
        /\ wrote'[a] = wrote[a] \cup {who} /\ \A b \in Adapters : b # a => wrote'[b] = wrote[b]
    BY DEF UpdateExplanation, ObservationInv, ObservationTypeOK
  <1> HIDE DEF row
  <1>5. AuthorsInv'
    <2>1. wrote[a] = adapters[a].authors /\ adapters[a].approver = None /\ None \notin wrote'[a]
      BY <1>1, <1>4, ObservationAssumption DEF ObservationInv, AuthorsInv
    <2>2. ASSUME NEW b \in Adapters, Status(b)' # "none"
          PROVE  /\ wrote'[b] = adapters'[b].authors
                 /\ Status(b)' = "DRAFT" => adapters'[b].approver = None
                 /\ adapters'[b].approver \notin wrote'[b]
      BY <1>2, <1>3, <1>4, <2>1, <2>2, ZenonT(30) DEF ObservationInv, AuthorsInv
    <2> QED
      BY <2>2 DEF AuthorsInv
  <1>6. SeparateInv'
    BY <1>3, FewerAreSeparated DEF ObservationInv
  <1> QED
    BY <1>1, <1>3, <1>4, <1>5, <1>6, ReviewIsEnough DEF UpdateExplanation

LEMMA ApproveKeepsInv ==
    ASSUME ObservationInv, NEW a \in Adapters, NEW who \in People, ApproveAdapter(a, who)
    PROVE  ObservationInv'
  <1> DEFINE row == [adapters[a] EXCEPT !.status = "APPROVED", !.approver = who]
  <1>1. adapters[a] \in Rows /\ Status(a) = "DRAFT" /\ adapters[a].status = "DRAFT"
    BY DraftIsRow DEF ObservationInv, ApproveAdapter
  <1>2. /\ row \in Rows /\ row.status = "APPROVED" /\ row.approver = who
        /\ row.authors = adapters[a].authors /\ row.pinned = adapters[a].pinned
        /\ row.conditions = adapters[a].conditions
    BY <1>1 DEF Rows
  <1>3. /\ adapters' \in [Adapters -> Rows \cup {None}]
        /\ adapters'[a] = row /\ Status(a)' = "APPROVED"
        /\ \A b \in Adapters : b # a => adapters'[b] = adapters[b] /\ Status(b)' = Status(b)
    <2>1. adapters' = [adapters EXCEPT ![a] = row] /\ ObservationTypeOK
      BY DEF ApproveAdapter, ObservationInv, ObservationTypeOK
    <2> HIDE DEF row
    <2> QED
      BY <1>2, <2>1, OneRow
  <1> HIDE DEF row
  <1>4. AuthorsInv'
    BY <1>1, <1>2, <1>3 DEF ObservationInv, AuthorsInv, ApproveAdapter
  <1>5. SeparateInv'
    <2>1. ASSUME NEW b \in Adapters, Active(b, adapters[a].pinned)
          PROVE  Separated(adapters[b].conditions, adapters[a].conditions)
      BY <2>1 DEF ApproveAdapter, Overlaps
    <2>2. ASSUME NEW b \in Adapters, NEW d \in Adapters, b # d,
                 Status(d)' = "APPROVED", Active(b, adapters[d].pinned)'
          PROVE  Separated(adapters'[b].conditions, adapters'[d].conditions)
      <3>1. CASE b # a /\ d # a
        BY <1>3, <2>2, <3>1 DEF ObservationInv, SeparateInv, Active
      <3>2. CASE d = a
        BY <1>2, <1>3, <2>1, <2>2, <3>2 DEF Active
      <3>3. CASE b = a
        <4>1. Separated(adapters[d].conditions, adapters[a].conditions)
          BY <1>2, <1>3, <2>1, <2>2, <3>3 DEF Active
        <4> QED
          BY <1>2, <1>3, <2>2, <3>3, <4>1 DEF Separated
      <3> QED
        BY <3>1, <3>2, <3>3
    <2> QED
      BY <2>2 DEF SeparateInv
  <1> QED
    BY <1>1, <1>3, <1>4, <1>5, ReviewIsEnough
       DEF ApproveAdapter, ObservationInv, ObservationTypeOK

LEMMA SupersedeKeepsInv ==
    ASSUME ObservationInv, NEW a \in Adapters, Supersede(a)
    PROVE  ObservationInv'
  <1> DEFINE row == [adapters[a] EXCEPT !.status = "REVOKED"]
  <1>1. adapters[a] \in Rows /\ Status(a) = "DRAFT"
    BY DraftIsRow DEF ObservationInv, Supersede
  <1>2. /\ row \in Rows /\ row.status = "REVOKED" /\ row.approver = adapters[a].approver
        /\ row.authors = adapters[a].authors
    BY <1>1 DEF Rows
  <1>3. /\ adapters' \in [Adapters -> Rows \cup {None}]
        /\ adapters'[a] = row /\ Status(a)' = "REVOKED"
        /\ \A b \in Adapters : b # a => adapters'[b] = adapters[b] /\ Status(b)' = Status(b)
    <2>1. adapters' = [adapters EXCEPT ![a] = row] /\ ObservationTypeOK
      BY DEF Supersede, ObservationInv, ObservationTypeOK
    <2> HIDE DEF row
    <2> QED
      BY <1>2, <2>1, OneRow
  <1> HIDE DEF row
  <1>4. AuthorsInv'
    BY <1>1, <1>2, <1>3 DEF ObservationInv, AuthorsInv, Supersede
  <1>5. SeparateInv'
    BY <1>3, FewerAreSeparated DEF ObservationInv
  <1> QED
    BY <1>1, <1>3, <1>4, <1>5, ReviewIsEnough DEF Supersede, ObservationInv, ObservationTypeOK

LEMMA RevokeKeepsInv ==
    ASSUME ObservationInv, NEW t \in Threads, NEW a \in Adapters, RevokeAdapter(t, a)
    PROVE  ObservationInv'
  <1> DEFINE row == [adapters[a] EXCEPT !.status = "REVOKED"]
             w == [Idle EXCEPT !.at = "snapshot", !.job = "reprocess", !.revokes = a]
  <1>1. adapters[a] \in Rows /\ Status(a) # "none"
    BY DraftIsRow DEF ObservationInv, RevokeAdapter
  <1>2. /\ row \in Rows /\ row.status = "REVOKED" /\ row.approver = adapters[a].approver
        /\ row.authors = adapters[a].authors
    BY <1>1 DEF Rows
  <1>3. /\ adapters' \in [Adapters -> Rows \cup {None}]
        /\ adapters'[a] = row /\ Status(a)' = "REVOKED"
        /\ \A b \in Adapters : b # a => adapters'[b] = adapters[b] /\ Status(b)' = Status(b)
    <2>1. adapters' = [adapters EXCEPT ![a] = row] /\ ObservationTypeOK
      BY DEF RevokeAdapter, ObservationInv, ObservationTypeOK
    <2> HIDE DEF row
    <2> QED
      BY <1>2, <2>1, OneRow
  <1> HIDE DEF row
  <1>4. /\ w \in ThreadRecords /\ w.at = "snapshot" /\ w.job = "reprocess" /\ w.revokes = a
        /\ w.event = 0 /\ w.todo = {}
    BY DEF Idle, ThreadRecords
  <1>5. /\ thread' = [thread EXCEPT ![t] = w] /\ lock = None
        /\ UNCHANGED <<events, wrote, version, lock, faults, withdrawn>>
    BY DEF RevokeAdapter
  <1> HIDE DEF w
  <1>6. /\ thread' \in [Threads -> ThreadRecords] /\ thread'[t] = w
        /\ \A u \in Threads : u # t => thread'[u] = thread[u]
    BY <1>4, <1>5 DEF ObservationInv, ObservationTypeOK
  <1>7. ObservationTypeOK'
    BY <1>3, <1>4, <1>5, <1>6 DEF ObservationInv, ObservationTypeOK, events, Received
  <1>8. ASSUME NEW u \in Threads PROVE ThreadInv(u)'
    <2>1. CASE u = t
      BY <1>4, <1>6, <2>1 DEF ThreadInv
    <2>2. CASE u # t
      <3>1. thread[u].event = 0 /\ ThreadInv(u)
        BY <1>5, ObservationAssumption DEF ObservationInv, ObservationTypeOK
      <3> QED
        BY <1>5, <1>6, <2>2, <3>1 DEF ThreadInv, events, Received
    <2> QED
      BY <2>1, <2>2
  <1>9. ASSUME NEW u \in Threads PROVE RevokingInv(u)'
    <2>1. thread[u].revokes \in Adapters \cup {None}
      BY DEF ObservationInv, ObservationTypeOK, ThreadRecords
    <2> QED
      BY <1>3, <1>4, <1>5, <1>6, <2>1 DEF ObservationInv, RevokingInv, events
  <1>10. EventInv' /\ WithdrawnInv'
    BY <1>3, <1>5 DEF ObservationInv, ObservationTypeOK, EventInv, WithdrawnInv, events, Received
  <1>11. AuthorsInv' /\ SeparateInv'
    BY <1>1, <1>2, <1>3, <1>5, FewerAreSeparated DEF ObservationInv, AuthorsInv
  <1> QED
    BY <1>7, <1>8, <1>9, <1>10, <1>11 DEF ObservationInv
-----------------------------------------------------------------------------
LEMMA InitIsObservationInv == ObservationInit => ObservationInv
  <1> SUFFICES ASSUME ObservationInit PROVE ObservationInv
    OBVIOUS
  <1> USE DEF ObservationInit
  <1>1. /\ \A t \in Threads : thread[t] = Idle
        /\ \A a \in Adapters : Status(a) = "none"
        /\ Received = {}
    BY DEF Status, Received
  <1>2. Idle \in ThreadRecords /\ Idle.event = 0
    BY DEF Idle, ThreadRecords
  <1>3. ObservationTypeOK
    BY <1>1, <1>2, ObservationAssumption DEF ObservationTypeOK
  <1>4. \A t \in Threads : ThreadInv(t) /\ RevokingInv(t)
    BY <1>1 DEF ThreadInv, RevokingInv, Idle
  <1>5. EventInv /\ WithdrawnInv /\ AuthorsInv /\ SeparateInv
    BY <1>1 DEF EventInv, WithdrawnInv, AuthorsInv, SeparateInv
  <1> QED
    BY <1>3, <1>4, <1>5 DEF ObservationInv

LEMMA StutterKeepsInv == ObservationInv /\ UNCHANGED vars => ObservationInv'
  BY DEF ObservationInv, ObservationTypeOK, ThreadInv, RevokingInv, EventInv, WithdrawnInv,
         AuthorsInv, SeparateInv, Active, Status, Received, vars, events, review

LEMMA NextKeepsInv == ObservationInv /\ Next => ObservationInv'
  <1> SUFFICES ASSUME ObservationInv, Next PROVE ObservationInv'
    OBVIOUS
  <1>1. CASE RegisterService \/ \E d \in Documents : Ingest(d)
    BY <1>1, WorldKeepsInv
  <1>2. CASE Review
    <2>1. PICK a \in Adapters :
             \/ \E c \in Definitions, who \in People \cup {Agent} : ProposeAdapter(a, c, who)
             \/ \E who \in People : UpdateExplanation(a, who) \/ ApproveAdapter(a, who)
             \/ Supersede(a)
             \/ \E t \in Threads : RevokeAdapter(t, a)
      BY <1>2 DEF Review
    <2> QED
      BY <2>1, ProposeKeepsInv, ExplainKeepsInv, ApproveKeepsInv, SupersedeKeepsInv,
         RevokeKeepsInv
  <1>3. CASE Crash
    BY <1>3, CrashKeepsInv
  <1>4. CASE \E t \in Threads : StartPoll(t) \/ StartReprocess(t) \/ Work(t) \/ AccessFails(t)
    BY <1>4, StartKeepsInv, SnapshotKeepsInv, ReadEventKeepsInv, RecordEventKeepsInv,
       AfterRecordKeepsInv, EndKeepsInv DEF Work
  <1> QED
    BY <1>1, <1>2, <1>3, <1>4 DEF Next

THEOREM ObservationInvariant == Spec => []ObservationInv
  <1>1. ObservationInv /\ [Next]_vars => ObservationInv'
    BY NextKeepsInv, StutterKeepsInv
  <1> QED
    BY <1>1, InitIsObservationInv, PTL DEF Spec

(* The types of the state, and that only who holds the lock works on an     *)
(* event.                                                                   *)
THEOREM ObservationTypes == Spec => []ObservationTypeOK
  BY ObservationInvariant, PTL DEF ObservationInv

(* What is acknowledged has been interpreted, and reported if that failed.  *)
THEOREM AcknowledgedIsProcessed == Spec => AckedIsProcessed
  <1> DEFINE A == \A e \in acked' \ acked : /\ current[e] # None
                                            /\ current[e] = Unknown => e \in cases
  <1>1. ASSUME ObservationInv, Next PROVE A
    <2>1. ASSUME NEW e \in acked' \ acked
          PROVE  \E t \in Threads : Acknowledge(t) /\ e = thread[t].event
      BY <1>1, <2>1 DEF Next, Ingest, RegisterService, Review, ProposeAdapter, UpdateExplanation,
         ApproveAdapter, Supersede, RevokeAdapter, Crash, StartPoll, StartReprocess, Work,
         Snapshot, ReadEvent, Read, RecordEvent, Report, Acknowledge, Return, AccessFails, events
    <2>2. ASSUME NEW e \in acked' \ acked
          PROVE  current[e] # None /\ (current[e] = Unknown => e \in cases)
      <3>1. PICK t \in Threads : Acknowledge(t) /\ e = thread[t].event
        BY <2>1, <2>2
      <3>2. ThreadInv(t) /\ thread[t].at = "ack"
        BY <1>1, <3>1 DEF ObservationInv, Acknowledge
      <3> QED
        BY <3>1, <3>2 DEF ThreadInv
    <2> QED
      BY <2>2
  <1>2. ASSUME ObservationInv, UNCHANGED vars PROVE A
    BY <1>2 DEF vars, events
  <1>3. ObservationInv /\ [Next]_vars => [A]_vars
    BY <1>1, <1>2
  <1> QED
    BY <1>3, ObservationInvariant, PTL DEF Spec, AckedIsProcessed

(* An adapter whose revocation was reported as done interprets nothing.     *)
THEOREM RevokedAdaptersAreNotUsed == Spec => []RevokedIsNotUsed
  <1>1. ObservationInv => RevokedIsNotUsed
    BY DEF ObservationInv, WithdrawnInv, RevokedIsNotUsed
  <1> QED
    BY <1>1, ObservationInvariant, PTL

(* Nobody approves their own words, and approved adapters fit no document   *)
(* together, whatever documents may come.                                   *)
THEOREM ApprovalsAreSound == Spec => []ApprovalIsSound
  <1>1. ASSUME ObservationInv PROVE ApprovalIsSound
    <2>1. ASSUME NEW a \in Adapters, NEW b \in Adapters, a # b, Status(b) = "APPROVED",
                 Active(a, adapters[b].pinned), NEW d \in Contents
          PROVE  ~ (Matches(d, adapters[a].conditions) /\ Matches(d, adapters[b].conditions))
      <3>1. Separated(adapters[a].conditions, adapters[b].conditions)
        BY <1>1, <2>1 DEF ObservationInv, SeparateInv
      <3>2. adapters[a] \in Rows /\ adapters[b] \in Rows
        BY <1>1, <2>1, DraftIsRow DEF ObservationInv, Active
      <3>3. adapters[a].conditions \in Contents /\ adapters[b].conditions \in Contents
        BY <3>2, ObservationAssumption DEF Rows
      <3> QED
        BY <3>1, <3>3, SeparatedFitNone
    <2> QED
      BY <1>1, <2>1 DEF ObservationInv, AuthorsInv, ApprovalIsSound
  <1>2. ObservationInv => ApprovalIsSound
    BY <1>1
  <1> QED
    BY <1>2, ObservationInvariant, PTL
=============================================================================
