---------------------------- MODULE TasksProofs ----------------------------
(* Proofs about Tasks: what holds in all transactions on the task table and *)
(* the groups, however many groups one round of scheduling goes through.    *)
EXTENDS Tasks, TLAPS, FiniteSetTheorems, WellFoundedInduction

(* The inductive invariant, on tables that a transaction may have changed.  *)

ProposalsIn(ts, f) == {i \in 1 .. Len(ts) : ts[i].case = f /\ ts[i].role = "adapter"}
AllAutomatic(ts, f) == \A k \in ProposalsIn(ts, f) : ts[k].automatic

\* Tasks that have spent an attempt of the group.
Counted(ts, f, g) ==
    {i \in ProposalsIn(ts, f) : /\ ts[i].pinned
                                /\ ts[i].attempts > 0 \/ (i = g.task /\ i # g.refunded)}
CountedAlone(ts, f, g) == {i \in Counted(ts, f, g) : ts[i].automatic}

TaskInv(t) ==
    /\ t.attempts <= 1
    /\ t.status \in {"PENDING", "BLOCKED"} <=> t.attempts = 0
    /\ t.draft # "none" => t.attempts = 1
    /\ t.automatic => t.pinned
    /\ t.pinned => t.role = "adapter"

(* One open task of a kind for a case.                                      *)
OpenInv(ts, f) ==
    \A i, j \in 1 .. Len(ts) :
        ts[i].case = f /\ ts[j].case = f /\ ts[i].role = ts[j].role
        /\ ts[i].status \in Open /\ ts[j].status \in Open => i = j

(* Whatever follows a proposal that was started has more evidence and was   *)
(* made after the waiting time.                                             *)
RetryInv(ts, f, st, time) ==
    \A i, k \in ProposalsIn(ts, f) :
        i < k /\ ts[i].attempts > 0 /\ AllAutomatic(ts, f) =>
            /\ ts[i].evidence < ts[k].evidence
            /\ \A s \in st : s.task = i =>
                  /\ s.at + RetryDelay <= time
                  /\ \A r \in st : r.task = k => s.at + RetryDelay <= r.at

(* A group points to its last pinned task, and to the one that is open. One *)
(* that a person asked for before there was a group is older than all.      *)
PointerInv(ts, f, g) ==
    /\ {g.task, g.adapter, g.refunded} \subseteq ProposalsIn(ts, f) \cup {0}
    /\ g.refunded # 0 => Unsent(ts[g.refunded])
    /\ \A i \in ProposalsIn(ts, f) : ts[i].pinned =>
          /\ i <= g.task /\ ts[g.task].pinned
          /\ ts[i].status \in Open => i = g.task
          /\ \A k \in ProposalsIn(ts, f) : ts[k].status \in Open => ts[k].pinned

(* What a group knows of its pinned task, and since when it may be due.     *)
EvidenceInv(ts, g, st) ==
    /\ g.asked <= g.events
    /\ g.task # 0 /\ ts[g.task].pinned =>
          /\ g.asked = ts[g.task].evidence
          /\ ts[g.task].status \in Open => g.next = None
          /\ g.next # None => \A s \in st : s.task = g.task => s.at + RetryDelay <= g.next

CountInv(ts, f, g) ==
    /\ Cardinality(Counted(ts, f, g)) <= g.attempts
    /\ Cardinality(CountedAlone(ts, f, g)) <= MaxAttempts

GroupInv(ts, f, g, st) == PointerInv(ts, f, g) /\ EvidenceInv(ts, g, st) /\ CountInv(ts, f, g)

FormatInv(ts, f, g, st, time) ==
    /\ OpenInv(ts, f) /\ RetryInv(ts, f, st, time)
    /\ IF g = None THEN \A i \in ProposalsIn(ts, f) : ~ ts[i].pinned
       ELSE GroupInv(ts, f, g, st)

(* The history of starts is that of the tasks.                              *)
StartsInv(ts, st, time) ==
    /\ IsFiniteSet(st)
    /\ \A s \in st : s \in [task : 1 .. Len(ts), at : Nat] /\ s.at <= time
    /\ \A s, r \in st : s.task = r.task => s = r
    /\ \A i \in 1 .. Len(ts) : ts[i].attempts > 0 <=> \E s \in st : s.task = i

AllTables == [tasks : Seq(TaskRecords), groups : [Formats -> GroupRecords \cup {None}]]

TablesInv(db, st, time) ==
    /\ db \in AllTables
    /\ \A i \in 1 .. Len(db.tasks) : TaskInv(db.tasks[i])
    /\ StartsInv(db.tasks, st, time)
    /\ \A f \in Formats : FormatInv(db.tasks, f, db.groups[f], st, time)

BudgetInv ==
    \A d \in 0 .. Day(MaxTime) :
        /\ Cardinality({s \in started : Day(s.at) = d}) <= calls[d]
        /\ calls[d] <= DailyLimit

(* What the worker knows of its task.                                       *)
WorkerInv ==
    /\ IF worker.at \in {"ask", "propose", "finish"} THEN worker.task \in Ids
       ELSE worker.task = 0
    /\ worker.at = "propose" => tasks[worker.task].role = "adapter"
    /\ worker.at = "finish" => worker.result # "none"

TasksInv ==
    /\ TasksTypeOK /\ now <= MaxTime
    /\ TablesInv(Tables, started, now)
    /\ BudgetInv /\ WorkerInv
-----------------------------------------------------------------------------
(* Choices, rows and recursion.                                             *)

LEMMA HasMin ==
    ASSUME NEW T \in SUBSET Nat, T # {}
    PROVE  /\ Min(T) \in T
           /\ \A j \in T : Min(T) <= j
  <1>1. \E x \in T : \A y \in T : ~ (<<y, x>> \in OpToRel(<,Nat))
    BY NatLessThanWellFounded, WFMin
  <1>2. PICK x \in T : \A y \in T : ~ (y < x)
    BY <1>1 DEF OpToRel
  <1>3. \A y \in T : x <= y
    BY <1>2
  <1> QED
    BY <1>3 DEF Min

LEMMA MaxOfTwo ==
    ASSUME NEW a \in Nat, NEW b \in Nat
    PROVE  Max({a, b}) \in Nat /\ Max({a, b}) >= a
  <1>1. \E x \in {a, b} : \A y \in {a, b} : x >= y
    BY SMT
  <1> QED
    BY <1>1 DEF Max

LEMMA Appended ==
    ASSUME NEW S, NEW s \in Seq(S), NEW x \in S
    PROVE  /\ Len(s) \in Nat /\ Append(s, x) \in Seq(S) /\ Len(Append(s, x)) = Len(s) + 1
           /\ \A i \in 1 .. Len(s) : Append(s, x)[i] = s[i]
           /\ Append(s, x)[Len(s) + 1] = x
  OBVIOUS

LEMMA Replaced ==
    ASSUME NEW S, NEW s \in Seq(S), NEW i \in 1 .. Len(s), NEW x \in S
    PROVE  /\ [s EXCEPT ![i] = x] \in Seq(S) /\ Len([s EXCEPT ![i] = x]) = Len(s)
           /\ [s EXCEPT ![i] = x][i] = x
           /\ \A j \in 1 .. Len(s) : j # i => [s EXCEPT ![i] = x][j] = s[j]
  OBVIOUS

LEMMA ByRow ==
    ASSUME NEW S, NEW n \in Nat, NEW F, F = [i \in 1 .. n |-> F[i]],
           \A i \in 1 .. n : F[i] \in S
    PROVE  F \in Seq(S) /\ Len(F) = n
  OBVIOUS

LEMMA Turn ==
    ASSUME order \in Seq(Formats), NEW on
    PROVE  \E after : 
       /\ after[0] = Tables
       /\ \A n \in 1 .. Len(order) : after[n] = ScheduleOne(after[n - 1], order[n], on)
       /\ Scheduled(on) = after[Len(order)]
  <1> DEFINE Step(db, n) == ScheduleOne(db, order[n], on)
             Is(a, m) == a = [n \in 0 .. m |-> IF n = 0 THEN Tables ELSE Step(a[n - 1], n)]
  <1> HIDE DEF Step
  <1>1. \E a : Is(a, 0)
    <2>1. Is([n \in 0 .. 0 |-> Tables], 0)
      OBVIOUS
    <2> QED BY <2>1
  <1>2. ASSUME NEW m \in Nat, \E a : Is(a, m) PROVE \E a : Is(a, m + 1)
    <2>1. PICK a : Is(a, m)
      BY <1>2
    <2> DEFINE b == [n \in 0 .. m + 1 |-> IF n = m + 1 THEN Step(a[m], m + 1) ELSE a[n]]
    <2>2. ASSUME NEW n \in 0 .. m + 1 
          PROVE b[n] = IF n = 0 THEN Tables ELSE Step(b[n - 1], n)
      <3>1. CASE n = m + 1
        <4>1. n # 0 /\ n - 1 = m /\ b[n - 1] = a[m] /\ b[n] = Step(a[m], m + 1)
          BY <3>1
        <4> QED BY <4>1, <3>1
      <3>2. CASE n # m + 1
        <4>1. n \in 0 .. m /\ b[n] = a[n] /\ (n # 0 => b[n - 1] = a[n - 1])
          BY <3>2
        <4>2. a[n] = IF n = 0 THEN Tables ELSE Step(a[n - 1], n)
          BY <2>1, <4>1
        <4> QED BY <4>1, <4>2
      <3> QED BY <3>1, <3>2
    <2>3. Is(b, m + 1)
      BY <2>2
    <2> QED BY <2>3
  <1> HIDE DEF Is
  <1>3. \A m \in Nat : \E a : Is(a, m)
    <2> DEFINE D == {m \in Nat : ~ \E a : Is(a, m)}
    <2> SUFFICES ASSUME D # {} PROVE FALSE
      OBVIOUS
    <2>1. Min(D) \in D /\ \A j \in D : Min(D) <= j
      BY HasMin
    <2>2. Min(D) # 0
      BY <1>1, <2>1
    <2>3. Min(D) - 1 \in Nat /\ Min(D) - 1 \notin D
      <3> DEFINE m == Min(D)
      <3>1. m \in Nat /\ m # 0 /\ \A j \in D : m <= j
        BY <2>1, <2>2
      <3> HIDE DEF m
      <3>2. m - 1 \in Nat /\ ~ (m <= m - 1)
        BY <3>1
      <3> QED
        BY <3>1, <3>2 DEF m
    <2>4. \E a : Is(a, Min(D) - 1)
      BY <2>3
    <2>5. \E a : Is(a, Min(D) - 1 + 1)
      BY <2>3, <2>4, <1>2
    <2>6. Min(D) - 1 + 1 = Min(D)
      BY <2>1
    <2> QED BY <2>1, <2>5, <2>6
  <1> DEFINE after == CHOOSE a : Is(a, Len(order))
  <1>4. Is(after, Len(order))
    <2>1. Len(order) \in Nat
      OBVIOUS
    <2> QED
      BY <1>3, <2>1
  <1>5. Scheduled(on) = after[Len(order)]
    BY DEF Scheduled, Step, Is
  <1>6. \A n \in 0 .. Len(order) : after[n] = IF n = 0 THEN Tables ELSE Step(after[n - 1], n)
    BY <1>4 DEF Is
  <1> HIDE DEF after
  <1>7. /\ after[0] = Tables
        /\ \A n \in 1 .. Len(order) : after[n] = Step(after[n - 1], n)
    BY <1>6
  <1> QED
    BY <1>5, <1>7 DEF Step
-----------------------------------------------------------------------------
(* Changes of the tables that keep what holds of a format.                  *)

Keeps(t, u) ==
    /\ u.case = t.case /\ u.role = t.role /\ u.pinned = t.pinned
    /\ u.evidence = t.evidence /\ u.attempts = t.attempts
    /\ u.automatic => t.automatic
    /\ u.status \in Open => t.status \in Open
    /\ Unsent(t) => Unsent(u)

LEMMA ProposalsFinite ==
    ASSUME NEW ts \in Seq(TaskRecords), NEW f
    PROVE  /\ IsFiniteSet(ProposalsIn(ts, f))
           /\ ProposalsIn(ts, f) \subseteq 1 .. Len(ts) /\ Len(ts) \in Nat
  <1>1. IsFiniteSet(1 .. Len(ts)) /\ Len(ts) \in Nat
    BY FS_Interval
  <1>2. ProposalsIn(ts, f) \subseteq 1 .. Len(ts)
    BY DEF ProposalsIn
  <1> QED
    BY <1>1, <1>2, FS_Subset

LEMMA CountedFinite ==
    ASSUME NEW ts \in Seq(TaskRecords), NEW f, NEW g
    PROVE  /\ Counted(ts, f, g) \subseteq ProposalsIn(ts, f)
           /\ CountedAlone(ts, f, g) \subseteq Counted(ts, f, g)
           /\ IsFiniteSet(Counted(ts, f, g)) /\ IsFiniteSet(CountedAlone(ts, f, g))
           /\ Cardinality(Counted(ts, f, g)) \in Nat
           /\ Cardinality(CountedAlone(ts, f, g)) \in Nat
  <1>1. /\ Counted(ts, f, g) \subseteq ProposalsIn(ts, f)
        /\ CountedAlone(ts, f, g) \subseteq Counted(ts, f, g)
    BY DEF Counted, CountedAlone
  <1>2. IsFiniteSet(Counted(ts, f, g))
    BY <1>1, ProposalsFinite, FS_Subset
  <1>3. IsFiniteSet(CountedAlone(ts, f, g))
    BY <1>1, <1>2, FS_Subset
  <1> QED
    BY <1>1, <1>2, <1>3, FS_CardinalityType

(* A step that keeps the tasks of a case and adds only to others.           *)
LEMMA FormatKept ==
    ASSUME NEW ts \in Seq(TaskRecords), NEW us \in Seq(TaskRecords), NEW f \in Formats,
           NEW g \in GroupRecords \cup {None}, NEW st, NEW time,
           Len(ts) <= Len(us),
           \A i \in 1 .. Len(ts) : IF ts[i].case = f THEN Keeps(ts[i], us[i]) ELSE us[i].case # f,
           \A i \in 1 .. Len(us) : i > Len(ts) => us[i].case # f,
           FormatInv(ts, f, g, st, time)
    PROVE  FormatInv(us, f, g, st, time)
  <1>1. Len(ts) \in Nat /\ Len(us) \in Nat
    OBVIOUS
  <1>2. \A i \in 1 .. Len(us) : us[i].case = f =>
           i \in 1 .. Len(ts) /\ ts[i].case = f /\ Keeps(ts[i], us[i])
    BY <1>1
  <1>3. ProposalsIn(us, f) = ProposalsIn(ts, f)
    <2>1. ASSUME NEW i \in ProposalsIn(ts, f) PROVE i \in ProposalsIn(us, f)
      BY <1>1, <2>1 DEF ProposalsIn, Keeps
    <2>2. ASSUME NEW i \in ProposalsIn(us, f) PROVE i \in ProposalsIn(ts, f)
      BY <1>2, <2>2 DEF ProposalsIn, Keeps
    <2> QED
      BY <2>1, <2>2
  <1> DEFINE P == ProposalsIn(ts, f)
  <1>4. \A i \in P : Keeps(ts[i], us[i])
    BY DEF ProposalsIn
  <1>5. OpenInv(us, f)
    <2>1. OpenInv(ts, f)
      BY DEF FormatInv
    <2> SUFFICES ASSUME NEW i \in 1 .. Len(us), NEW j \in 1 .. Len(us),
                        us[i].case = f, us[j].case = f, us[i].role = us[j].role,
                        us[i].status \in Open, us[j].status \in Open
                 PROVE  i = j
      BY DEF OpenInv
    <2> QED
      BY <1>2, <2>1 DEF OpenInv, Keeps
  <1> HIDE DEF P
  <1>6. AllAutomatic(us, f) => AllAutomatic(ts, f)
    BY <1>3, <1>4 DEF AllAutomatic, P, Keeps
  <1>7. RetryInv(us, f, st, time)
    <2>1. RetryInv(ts, f, st, time)
      BY DEF FormatInv
    <2> SUFFICES ASSUME NEW i \in P, NEW k \in P, i < k, us[i].attempts > 0, AllAutomatic(us, f)
                 PROVE  /\ us[i].evidence < us[k].evidence
                        /\ \A s \in st : s.task = i =>
                              /\ s.at + RetryDelay <= time
                              /\ \A r \in st : r.task = k => s.at + RetryDelay <= r.at
      BY <1>3 DEF RetryInv, P
    <2>2. Keeps(ts[i], us[i]) /\ Keeps(ts[k], us[k])
      BY <1>4
    <2>3. /\ us[i].attempts = ts[i].attempts /\ us[i].evidence = ts[i].evidence
          /\ us[k].evidence = ts[k].evidence
      BY <2>2 DEF Keeps
    <2> QED
      BY <1>6, <2>1, <2>3 DEF RetryInv, P
  <1>8. CASE g = None
    <2>1. \A i \in P : ~ ts[i].pinned
      BY <1>8 DEF FormatInv, P
    <2>2. \A i \in P : ~ us[i].pinned
      BY <1>4, <2>1 DEF Keeps
    <2> QED
      BY <1>3, <1>5, <1>7, <1>8, <2>2 DEF FormatInv, P
  <1>9. CASE g # None
    <2>1. PointerInv(ts, f, g) /\ EvidenceInv(ts, g, st) /\ CountInv(ts, f, g)
      BY <1>9 DEF FormatInv, GroupInv
    <2>2. g.task # 0 => g.task \in P
      BY <2>1 DEF PointerInv, P
    <2>3. \A i \in P : /\ us[i].pinned = ts[i].pinned /\ us[i].attempts = ts[i].attempts
                       /\ us[i].automatic => ts[i].automatic
                       /\ us[i].evidence = ts[i].evidence
                       /\ us[i].status \in Open => ts[i].status \in Open
                       /\ Unsent(ts[i]) => Unsent(us[i])
      BY <1>4 DEF Keeps
    <2>4. PointerInv(us, f, g)
      <3>1. /\ {g.task, g.adapter, g.refunded} \subseteq P \cup {0}
            /\ g.refunded # 0 => Unsent(ts[g.refunded])
            /\ \A i \in P : ts[i].pinned =>
                  /\ i <= g.task /\ ts[g.task].pinned
                  /\ ts[i].status \in Open => i = g.task
                  /\ \A k \in P : ts[k].status \in Open => ts[k].pinned
        BY <2>1 DEF PointerInv, P
      <3>2. P \subseteq 1 .. Len(ts)
        BY DEF P, ProposalsIn
      <3>3. \A i \in P : ts[i].pinned => g.task \in P
        BY <2>2, <3>1, <3>2
      <3>4. \A i \in P : us[i].pinned =>
                  /\ i <= g.task /\ us[g.task].pinned
                  /\ us[i].status \in Open => i = g.task
                  /\ \A k \in P : us[k].status \in Open => us[k].pinned
        BY <2>3, <3>1, <3>3
      <3>5. g.refunded # 0 => Unsent(us[g.refunded])
        BY <2>3, <3>1
      <3> QED
        BY <1>3, <3>1, <3>4, <3>5 DEF PointerInv, P
    <2>5. EvidenceInv(us, g, st)
      BY <2>1, <2>2, <2>3 DEF EvidenceInv
    <2>6. CountInv(us, f, g)
      <3>1. Counted(us, f, g) = Counted(ts, f, g)
        BY <1>3, <2>3 DEF Counted, P
      <3>2. CountedAlone(us, f, g) \subseteq CountedAlone(ts, f, g)
        BY <2>3, <3>1, CountedFinite DEF CountedAlone, P
      <3>3. Cardinality(CountedAlone(us, f, g)) <= Cardinality(CountedAlone(ts, f, g))
        BY <3>2, CountedFinite, FS_Subset
      <3>4. /\ Cardinality(CountedAlone(us, f, g)) \in Nat
            /\ Cardinality(CountedAlone(ts, f, g)) \in Nat
        BY CountedFinite
      <3> QED
        BY <2>1, <3>1, <3>3, <3>4, TasksAssumption DEF CountInv
    <2> QED
      BY <1>5, <1>7, <1>9, <2>4, <2>5, <2>6 DEF FormatInv, GroupInv
  <1> QED
    BY <1>8, <1>9

\* What no part of a transaction undoes.
Follows(db, e) ==
    /\ Len(db.tasks) <= Len(e.tasks)
    /\ \A i \in 1 .. Len(db.tasks) :
          /\ e.tasks[i].role = db.tasks[i].role
          /\ db.tasks[i].status = "RUNNING" => e.tasks[i].status = "RUNNING"
    /\ \A f \in Formats : e.groups[f] = None <=> db.groups[f] = None

LEMMA FollowsOn ==
    ASSUME NEW a \in AllTables, NEW b \in AllTables, NEW c \in AllTables,
           Follows(a, b), Follows(b, c)
    PROVE  Follows(a, c)
  <1>1. Len(a.tasks) \in Nat /\ Len(b.tasks) \in Nat /\ Len(c.tasks) \in Nat
    BY DEF AllTables
  <1> QED
    BY <1>1 DEF Follows

LEMMA TablesParts ==
    ASSUME NEW db \in AllTables
    PROVE  /\ db.tasks \in Seq(TaskRecords) /\ db.groups \in [Formats -> GroupRecords \cup {None}]
           /\ Len(db.tasks) \in Nat /\ DOMAIN db.tasks = 1 .. Len(db.tasks)
           /\ \A i \in 1 .. Len(db.tasks) : db.tasks[i] \in TaskRecords
           /\ db = [tasks |-> db.tasks, groups |-> db.groups]
  BY DEF AllTables

(* Tasks end, are blocked or become manual; drafts are decided.             *)
LEMMA TasksChanged ==
    ASSUME NEW db, NEW st, NEW time, TablesInv(db, st, time),
           NEW us \in Seq(TaskRecords), Len(us) = Len(db.tasks),
           \A i \in 1 .. Len(us) : Keeps(db.tasks[i], us[i]) /\ TaskInv(us[i])
    PROVE  TablesInv([tasks |-> us, groups |-> db.groups], st, time)
  <1> DEFINE ts == db.tasks
             e == [tasks |-> us, groups |-> db.groups]
  <1>1. /\ ts \in Seq(TaskRecords) /\ Len(ts) \in Nat
        /\ db.groups \in [Formats -> GroupRecords \cup {None}]
    BY TablesParts DEF TablesInv
  <1>2. e \in AllTables
    BY <1>1 DEF AllTables
  <1>3. ASSUME NEW f \in Formats PROVE FormatInv(us, f, db.groups[f], st, time)
    <2>1. FormatInv(ts, f, db.groups[f], st, time)
      BY DEF TablesInv
    <2>2. \A i \in 1 .. Len(ts) :
             IF ts[i].case = f THEN Keeps(ts[i], us[i]) ELSE us[i].case # f
      BY DEF Keeps
    <2>3. \A i \in 1 .. Len(us) : i > Len(ts) => us[i].case # f
      BY <1>1
    <2>4. db.groups[f] \in GroupRecords \cup {None} /\ Len(ts) <= Len(us)
      BY <1>1
    <2> HIDE DEF ts
    <2> QED
      BY <1>1, <2>1, <2>2, <2>3, <2>4, FormatKept
  <1>4. StartsInv(us, st, time)
    <2>1. StartsInv(ts, st, time)
      BY DEF TablesInv
    <2>2. \A i \in 1 .. Len(us) : us[i].attempts = ts[i].attempts
      BY DEF Keeps
    <2> QED
      BY <2>1, <2>2 DEF StartsInv
  <1> QED
    BY <1>2, <1>3, <1>4 DEF TablesInv

(* A group changes and nothing else.                                        *)
LEMMA GroupChanged ==
    ASSUME NEW db, NEW st, NEW time, TablesInv(db, st, time),
           NEW f \in Formats, NEW g \in GroupRecords,
           GroupInv(db.tasks, f, g, st)
    PROVE  TablesInv([tasks |-> db.tasks, groups |-> [db.groups EXCEPT ![f] = g]], st, time)
  <1> DEFINE e == [tasks |-> db.tasks, groups |-> [db.groups EXCEPT ![f] = g]]
  <1>1. /\ db.tasks \in Seq(TaskRecords)
        /\ db.groups \in [Formats -> GroupRecords \cup {None}]
    BY TablesParts DEF TablesInv
  <1>2. e \in AllTables
    BY <1>1 DEF AllTables
  <1>3. g # None
    BY NoneAssumption
  <1>4. ASSUME NEW h \in Formats PROVE FormatInv(db.tasks, h, e.groups[h], st, time)
    <2>1. FormatInv(db.tasks, h, db.groups[h], st, time)
      BY DEF TablesInv
    <2>2. CASE h = f
      BY <1>1, <1>3, <2>1, <2>2 DEF FormatInv
    <2>3. CASE h # f
      BY <1>1, <2>1, <2>3
    <2> QED
      BY <2>2, <2>3
  <1> QED
    BY <1>2, <1>4 DEF TablesInv

(* A new task, for which nothing was started.                               *)
LEMMA TaskAdded ==
    ASSUME NEW db, NEW st, NEW time, TablesInv(db, st, time),
           NEW t \in TaskRecords, TaskInv(t), t.attempts = 0,
           NEW g \in GroupRecords \cup {None},
           FormatInv(Append(db.tasks, t), t.case, g, st, time)
    PROVE  TablesInv([tasks |-> Append(db.tasks, t), groups |-> [db.groups EXCEPT ![t.case] = g]],
                     st, time)
  <1> DEFINE ts == db.tasks
             us == Append(ts, t)
             f == t.case
             e == [tasks |-> us, groups |-> [db.groups EXCEPT ![f] = g]]
  <1>1. /\ ts \in Seq(TaskRecords) /\ Len(ts) \in Nat /\ f \in Formats
        /\ db.groups \in [Formats -> GroupRecords \cup {None}]
    BY TablesParts DEF TablesInv, TaskRecords
  <1>2. /\ us \in Seq(TaskRecords) /\ Len(us) = Len(ts) + 1
        /\ \A i \in 1 .. Len(ts) : us[i] = ts[i]
        /\ us[Len(ts) + 1] = t
    BY <1>1
  <1> HIDE DEF us, ts
  <1>3. e \in AllTables
    BY <1>1, <1>2 DEF AllTables
  <1>4. \A i \in 1 .. Len(us) : i \in 1 .. Len(ts) \/ i = Len(ts) + 1
    BY <1>1, <1>2
  <1>5. \A i \in 1 .. Len(us) : TaskInv(us[i])
    <2>1. \A i \in 1 .. Len(ts) : TaskInv(ts[i])
      BY DEF TablesInv, ts
    <2> QED
      BY <1>2, <1>4, <2>1
  <1>6. StartsInv(us, st, time)
    <2>1. StartsInv(ts, st, time)
      BY DEF TablesInv, ts
    <2>2. Len(ts) + 1 \notin 1 .. Len(ts) /\ 1 .. Len(ts) \subseteq 1 .. Len(us)
      BY <1>1, <1>2
    <2>3. \A i \in 1 .. Len(us) : us[i].attempts > 0 <=> \E s \in st : s.task = i
      <3>1. ASSUME NEW i \in 1 .. Len(ts) PROVE us[i].attempts > 0 <=> \E s \in st : s.task = i
        BY <1>2, <2>1 DEF StartsInv
      <3>2. ~ \E s \in st : s.task = Len(ts) + 1
        BY <2>1, <2>2 DEF StartsInv
      <3>3. ~ (us[Len(ts) + 1].attempts > 0)
        BY <1>2
      <3> QED
        BY <1>4, <3>1, <3>2, <3>3
    <2> QED
      BY <2>1, <2>2, <2>3 DEF StartsInv
  <1>7. ASSUME NEW h \in Formats PROVE FormatInv(us, h, e.groups[h], st, time)
    <2>1. CASE h = f
      BY <1>1, <2>1 DEF us, ts
    <2>2. CASE h # f
      <3>1. FormatInv(ts, h, db.groups[h], st, time)
        BY DEF TablesInv, ts
      <3>2. \A i \in 1 .. Len(ts) :
               IF ts[i].case = h THEN Keeps(ts[i], us[i]) ELSE us[i].case # h
        BY <1>2 DEF Keeps
      <3>3. \A i \in 1 .. Len(us) : i > Len(ts) => us[i].case # h
        BY <1>1, <1>2, <1>4, <2>2
      <3>4. db.groups[h] \in GroupRecords \cup {None} /\ Len(ts) <= Len(us)
        BY <1>1, <1>2
      <3>5. FormatInv(us, h, db.groups[h], st, time)
        BY <1>1, <1>2, <3>1, <3>2, <3>3, <3>4, FormatKept DEF ts
      <3> QED
        BY <1>1, <2>2, <3>5
    <2> QED
      BY <2>1, <2>2
  <1> QED
    BY <1>3, <1>5, <1>6, <1>7 DEF TablesInv, us, ts

-----------------------------------------------------------------------------
(* Parts of a transaction.                                                  *)

\* What a part leaves, and the tables it is given.
Part(db, e) == TablesInv(e, started, now) /\ Follows(db, e)
Given(db, f) == f \in Formats /\ TablesInv(db, started, now) /\ db.groups[f] # None

LEMMA GivenGroup ==
    ASSUME NEW db, NEW f, Given(db, f)
    PROVE  /\ db \in AllTables /\ db.groups[f] \in GroupRecords
           /\ GroupInv(db.tasks, f, db.groups[f], started)
           /\ OpenInv(db.tasks, f) /\ RetryInv(db.tasks, f, started, now)
           /\ db.groups[f].task # 0 =>
                 /\ db.groups[f].task \in ProposalsIn(db.tasks, f)
                 /\ db.groups[f].task \in 1 .. Len(db.tasks)
                 /\ db.tasks[db.groups[f].task] \in TaskRecords
                 /\ TaskInv(db.tasks[db.groups[f].task])
  <1>1. /\ db \in AllTables /\ f \in Formats /\ db.groups[f] # None
        /\ FormatInv(db.tasks, f, db.groups[f], started, now)
        /\ \A i \in 1 .. Len(db.tasks) : TaskInv(db.tasks[i])
    BY DEF Given, TablesInv
  <1>2. /\ GroupInv(db.tasks, f, db.groups[f], started)
        /\ OpenInv(db.tasks, f) /\ RetryInv(db.tasks, f, started, now)
    BY <1>1 DEF FormatInv
  <1>3. ASSUME db.groups[f].task # 0
        PROVE  /\ db.groups[f].task \in ProposalsIn(db.tasks, f)
               /\ db.groups[f].task \in 1 .. Len(db.tasks)
    BY <1>2, <1>3 DEF GroupInv, PointerInv, ProposalsIn
  <1> QED
    BY <1>1, <1>2, <1>3, TablesParts

LEMMA FollowsTask ==
    ASSUME NEW db \in AllTables, NEW us \in Seq(TaskRecords), Len(us) = Len(db.tasks),
           \A i \in 1 .. Len(us) : us[i].role = db.tasks[i].role
                                   /\ (db.tasks[i].status = "RUNNING" => us[i].status = "RUNNING")
    PROVE  Follows(db, [tasks |-> us, groups |-> db.groups])
  <1>1. Len(us) \in Nat
    OBVIOUS
  <1> QED
    BY <1>1 DEF Follows

LEMMA FollowsGroup ==
    ASSUME NEW db \in AllTables, NEW f \in Formats, NEW g \in GroupRecords, db.groups[f] # None
    PROVE  Follows(db, [tasks |-> db.tasks, groups |-> [db.groups EXCEPT ![f] = g]])
  <1>1. db.groups \in [Formats -> GroupRecords \cup {None}] /\ Len(db.tasks) \in Nat
    BY TablesParts
  <1>2. g # None
    BY NoneAssumption
  <1> QED
    BY <1>1, <1>2 DEF Follows

LEMMA BlockIsPart ==
    ASSUME NEW db, NEW f, Given(db, f)
    PROVE  Part(db, Block(db, f)) /\ Block(db, f).groups = db.groups
  <1> DEFINE t == db.groups[f].task
             u == [db.tasks[t] EXCEPT !.status = "BLOCKED"]
             us == [db.tasks EXCEPT ![t] = u]
  <1>1. db \in AllTables /\ TablesInv(db, started, now)
    BY GivenGroup DEF Given
  <1>2. CASE t # 0 /\ db.tasks[t].status = "PENDING"
    <2>1. t \in 1 .. Len(db.tasks) /\ db.tasks[t] \in TaskRecords /\ TaskInv(db.tasks[t])
      BY <1>2, GivenGroup
    <2>2. u \in TaskRecords /\ Keeps(db.tasks[t], u) /\ TaskInv(u) /\ u.role = db.tasks[t].role
      BY <1>2, <2>1 DEF TaskRecords, Statuses, Open, Keeps, TaskInv, Unsent
    <2>3. us \in Seq(TaskRecords) /\ Len(us) = Len(db.tasks)
          /\ us[t] = u /\ \A i \in 1 .. Len(us) : i # t => us[i] = db.tasks[i]
      BY <1>1, <2>1, <2>2, TablesParts, Replaced
    <2>4. Block(db, f) = [tasks |-> us, groups |-> db.groups]
      BY <1>1, <1>2, TablesParts DEF Block
    <2> HIDE DEF us, u
    <2>5. \A i \in 1 .. Len(us) : Keeps(db.tasks[i], us[i]) /\ TaskInv(us[i])
      BY <1>1, <2>2, <2>3 DEF Keeps, TablesInv
    <2>6. \A i \in 1 .. Len(us) : us[i].role = db.tasks[i].role
                                   /\ (db.tasks[i].status = "RUNNING" => us[i].status = "RUNNING")
      BY <1>2, <2>2, <2>3
    <2>7. TablesInv([tasks |-> us, groups |-> db.groups], started, now)
      BY <1>1, <2>3, <2>5, TasksChanged
    <2>8. Follows(db, [tasks |-> us, groups |-> db.groups])
      BY <1>1, <2>3, <2>6, FollowsTask
    <2> QED
      BY <2>4, <2>7, <2>8 DEF Part
  <1>3. CASE ~ (t # 0 /\ db.tasks[t].status = "PENDING")
    <2>1. Block(db, f) = db
      BY <1>3 DEF Block
    <2> QED
      BY <1>1, <2>1 DEF Part, Follows, AllTables
  <1> QED
    BY <1>2, <1>3

LEMMA SupersedeIsPart ==
    ASSUME NEW db, NEW f, Given(db, f), db.groups[f].task # 0
    PROVE  Part(db, Supersede(db, f))
  <1> DEFINE g == db.groups[f]
             old == g.adapter
             u == [db.tasks[old] EXCEPT !.draft = "REVOKED"]
             us == IF old \notin {0, g.task} /\ db.tasks[old].draft = "DRAFT"
                   THEN [db.tasks EXCEPT ![old] = u] ELSE db.tasks
             h == [g EXCEPT !.adapter = g.task, !.next = None]
             e == [tasks |-> us, groups |-> db.groups]
  <1>1. /\ db \in AllTables /\ TablesInv(db, started, now) /\ f \in Formats /\ g # None
        /\ g \in GroupRecords /\ GroupInv(db.tasks, f, g, started)
    BY GivenGroup DEF Given
  <1>2. /\ us \in Seq(TaskRecords) /\ Len(us) = Len(db.tasks)
        /\ \A i \in 1 .. Len(us) : /\ Keeps(db.tasks[i], us[i]) /\ TaskInv(us[i])
                                   /\ us[i].role = db.tasks[i].role
                                   /\ us[i].status = db.tasks[i].status
    <2>1. CASE old \notin {0, g.task} /\ db.tasks[old].draft = "DRAFT"
      <3>1. old \in 1 .. Len(db.tasks)
        BY <1>1, <2>1 DEF GroupInv, PointerInv, ProposalsIn
      <3>2. db.tasks[old] \in TaskRecords /\ TaskInv(db.tasks[old])
        BY <1>1, <3>1, TablesParts DEF TablesInv
      <3>3. /\ u \in TaskRecords /\ Keeps(db.tasks[old], u) /\ TaskInv(u)
            /\ u.role = db.tasks[old].role /\ u.status = db.tasks[old].status
        BY <2>1, <3>2 DEF TaskRecords, Drafts, Keeps, TaskInv, Unsent
      <3>4. us = [db.tasks EXCEPT ![old] = u]
        BY <2>1
      <3> HIDE DEF u, us
      <3>5. us \in Seq(TaskRecords) /\ Len(us) = Len(db.tasks)
            /\ us[old] = u /\ \A i \in 1 .. Len(us) : i # old => us[i] = db.tasks[i]
        BY <1>1, <3>1, <3>3, <3>4, TablesParts, Replaced
      <3> QED
        BY <1>1, <3>3, <3>5 DEF Keeps, TablesInv
    <2>2. CASE ~ (old \notin {0, g.task} /\ db.tasks[old].draft = "DRAFT")
      <3>1. us = db.tasks
        BY <2>2
      <3> HIDE DEF us
      <3> QED
        BY <1>1, <3>1, TablesParts DEF Keeps, TablesInv
    <2> QED
      BY <2>1, <2>2
  <1> HIDE DEF us
  <1>3. TablesInv(e, started, now)
    BY <1>1, <1>2, TasksChanged
  <1>4. Follows(db, e)
    BY <1>1, <1>2, FollowsTask
  <1>5. e.tasks = us /\ e.groups = db.groups
    OBVIOUS
  <1>6. Given(e, f) /\ e \in AllTables
    BY <1>1, <1>3, <1>5, GivenGroup DEF Given
  <1>7. GroupInv(us, f, g, started) /\ (g.task # 0 => g.task \in ProposalsIn(us, f))
    BY <1>5, <1>6, GivenGroup
  <1>8. h \in GroupRecords /\ h.task = g.task /\ h.refunded = g.refunded /\ h.attempts = g.attempts
        /\ h.asked = g.asked /\ h.events = g.events /\ h.next = None /\ h.adapter = g.task
    BY <1>1 DEF GroupRecords
  <1> HIDE DEF h, e
  <1>9. GroupInv(us, f, h, started)
    <2>1. PointerInv(us, f, h)
      BY <1>7, <1>8 DEF GroupInv, PointerInv
    <2>2. EvidenceInv(us, h, started)
      BY <1>7, <1>8 DEF GroupInv, EvidenceInv
    <2>3. CountInv(us, f, h)
      BY <1>7, <1>8 DEF GroupInv, CountInv, CountedAlone, Counted
    <2> QED
      BY <2>1, <2>2, <2>3 DEF GroupInv
  <1>10. Supersede(db, f) = [tasks |-> e.tasks, groups |-> [e.groups EXCEPT ![f] = h]]
    <2>1. /\ db.groups \in [Formats -> GroupRecords \cup {None}]
          /\ db.tasks \in Seq(TaskRecords)
      BY <1>1, TablesParts
    <2> QED
      BY <1>1, <1>5, <2>1 DEF Supersede, us, h
  <1>11. TablesInv(Supersede(db, f), started, now)
    BY <1>1, <1>3, <1>5, <1>8, <1>9, <1>10, GroupChanged
  <1>12. Follows(e, Supersede(db, f))
    BY <1>1, <1>5, <1>6, <1>8, <1>10, FollowsGroup
  <1> QED
    BY <1>1, <1>4, <1>6, <1>11, <1>12, FollowsOn DEF Part, TablesInv


(* A refund takes an attempt that is counted, or there is none to count.    *)
LEMMA Refunded ==
    ASSUME NEW ts \in Seq(TaskRecords), NEW f, NEW g \in GroupRecords, NEW h \in GroupRecords,
           PointerInv(ts, f, g), CountInv(ts, f, g), g.task \in ProposalsIn(ts, f),
           h.task = g.task,
           \/ h.refunded = g.refunded /\ h.attempts = g.attempts
           \/ /\ Unsent(ts[g.task]) /\ g.refunded # g.task /\ h.refunded = g.task
              /\ h.attempts = IF g.attempts > 0 THEN g.attempts - 1 ELSE g.attempts
    PROVE  CountInv(ts, f, h)
  <1> DEFINE C == Counted(ts, f, g)
             D == Counted(ts, f, h)
             A == CountedAlone(ts, f, g)
             B == CountedAlone(ts, f, h)
  <1>1. /\ IsFiniteSet(C) /\ IsFiniteSet(D) /\ IsFiniteSet(A) /\ IsFiniteSet(B)
        /\ Cardinality(C) \in Nat /\ Cardinality(D) \in Nat
        /\ Cardinality(A) \in Nat /\ Cardinality(B) \in Nat
    BY CountedFinite
  <1>2. D \subseteq C
    BY DEF Counted, Unsent
  <1>3. B \subseteq A
    BY <1>2 DEF CountedAlone
  <1>4. Cardinality(B) <= MaxAttempts
    <2>1. Cardinality(B) <= Cardinality(A)
      BY <1>1, <1>3, FS_Subset
    <2>2. Cardinality(A) <= MaxAttempts
      BY DEF CountInv
    <2> HIDE DEF A, B
    <2> QED
      BY <1>1, <2>1, <2>2, TasksAssumption
  <1>5. Cardinality(D) <= h.attempts
    <2>1. CASE h.refunded = g.refunded /\ h.attempts = g.attempts
      <3>1. D = C
        BY <2>1 DEF Counted
      <3> QED
        BY <2>1, <3>1 DEF CountInv
    <2>2. CASE /\ Unsent(ts[g.task]) /\ g.refunded # g.task /\ h.refunded = g.task
               /\ h.attempts = IF g.attempts > 0 THEN g.attempts - 1 ELSE g.attempts
      <3>1. g.attempts \in Nat
        BY DEF GroupRecords
      <3>2. CASE ts[g.task].pinned
        <4>1. g.task \in C /\ g.task \notin D
          BY <2>2, <3>2 DEF Counted, Unsent
        <4>2. D \subseteq C \ {g.task}
          BY <1>2, <4>1
        <4>3. IsFiniteSet(C \ {g.task}) /\ Cardinality(C \ {g.task}) = Cardinality(C) - 1
          BY <1>1, <4>1, FS_RemoveElement
        <4>4. Cardinality(D) <= Cardinality(C \ {g.task})
          BY <4>2, <4>3, FS_Subset
        <4>5. Cardinality(C) <= g.attempts
          BY DEF CountInv
        <4> HIDE DEF C, D
        <4> QED
          BY <1>1, <2>2, <3>1, <4>3, <4>4, <4>5
      <3>3. CASE ~ ts[g.task].pinned
        <4>1. \A i \in ProposalsIn(ts, f) : ~ ts[i].pinned
          BY <3>3 DEF PointerInv
        <4>2. D = {}
          BY <4>1 DEF Counted
        <4> QED
          BY <2>2, <3>1, <4>2, FS_EmptySet
      <3> QED
        BY <3>2, <3>3
    <2> QED
      BY <2>1, <2>2
  <1> QED
    BY <1>4, <1>5 DEF CountInv

LEMMA RetryIsPart ==
    ASSUME NEW db, NEW f, Given(db, f), now \in Nat, db.groups[f].task # 0,
           db.tasks[db.groups[f].task].status \notin Open
    PROVE  Part(db, Retry(db, f))
  <1> DEFINE g == db.groups[f]
             t == db.tasks[g.task]
             disposition == <<g.task, IF t.draft = "none" THEN t.status ELSE t.draft>>
             midnight == (Day(now) + 1) * DayLength
             wait == IF Unsent(t) /\ t.limit THEN Max({now + RetryDelay, midnight})
                     ELSE now + RetryDelay
             attempts == IF Refunds(g, t) /\ g.attempts > 0 THEN g.attempts - 1 ELSE g.attempts
             refunded == IF Unsent(t) THEN g.task ELSE g.refunded
             next == IF g.disposition = disposition THEN g.next ELSE wait
             h == [g EXCEPT !.attempts = attempts, !.refunded = refunded,
                            !.disposition = disposition, !.next = next]
  <1>1. /\ db \in AllTables /\ TablesInv(db, started, now) /\ f \in Formats /\ g # None
        /\ g \in GroupRecords /\ GroupInv(db.tasks, f, g, started)
        /\ g.task \in ProposalsIn(db.tasks, f) /\ g.task \in 1 .. Len(db.tasks)
        /\ t \in TaskRecords
    BY GivenGroup DEF Given
  <1>2. wait \in Nat /\ wait >= now + RetryDelay
    <2>1. DayLength \in Nat /\ DayLength > 0 /\ RetryDelay \in Nat /\ now + RetryDelay \in Nat
      BY TasksAssumption
    <2>2. Day(now) + 1 \in Nat
      BY <2>1 DEF Day
    <2>3. midnight \in Nat
      <3> HIDE DEF Day
      <3>1. ASSUME NEW n \in Nat PROVE n * DayLength \in Nat
        BY <2>1
      <3> QED
        BY <2>2, <3>1
    <2> HIDE DEF midnight
    <2>4. /\ Max({now + RetryDelay, midnight}) \in Nat
          /\ Max({now + RetryDelay, midnight}) >= now + RetryDelay
      BY <2>1, <2>3, MaxOfTwo
    <2> QED
      BY <2>1, <2>4
  <1> HIDE DEF wait
  <1>3. /\ attempts \in Nat /\ refunded \in Nat
        /\ next \in Nat \cup {None}
        /\ disposition \in Nat \X (Statuses \cup Drafts)
    <2>1. /\ g.attempts \in Nat /\ g.refunded \in Nat /\ g.task \in Nat
          /\ g.next \in Nat \cup {None}
      BY <1>1 DEF GroupRecords
    <2>2. t.status \in Statuses /\ t.draft \in Drafts
      BY <1>1 DEF TaskRecords
    <2>3. attempts \in Nat
      BY <2>1
    <2>4. refunded \in Nat
      BY <2>1
    <2>5. next \in Nat \cup {None}
      BY <1>2, <2>1
    <2>6. disposition \in Nat \X (Statuses \cup Drafts)
      BY <2>1, <2>2
    <2> QED
      BY <2>3, <2>4, <2>5, <2>6
  <1> HIDE DEF attempts, refunded, next, disposition
  <1>4. /\ h \in GroupRecords /\ h.task = g.task /\ h.refunded = refunded /\ h.attempts = attempts
        /\ h.asked = g.asked /\ h.events = g.events /\ h.next = next /\ h.adapter = g.adapter
    BY <1>1, <1>3 DEF GroupRecords
  <1> HIDE DEF h
  <1>5. PointerInv(db.tasks, f, g) /\ EvidenceInv(db.tasks, g, started) /\ CountInv(db.tasks, f, g)
    BY <1>1 DEF GroupInv
  <1>6. PointerInv(db.tasks, f, h)
    <2>1. /\ refunded \in ProposalsIn(db.tasks, f) \cup {0}
          /\ refunded # 0 => Unsent(db.tasks[refunded])
      BY <1>1, <1>5 DEF PointerInv, refunded
    <2> QED
      BY <1>4, <1>5, <2>1 DEF PointerInv
  <1>7. EvidenceInv(db.tasks, h, started)
    <2>1. next = g.next \/ next = wait
      BY DEF next
    <2>2. \A s \in started : s.at \in Nat /\ s.at <= now
      BY <1>1 DEF TablesInv, StartsInv
    <2>3. CASE next = g.next
      BY <1>4, <1>5, <2>3 DEF EvidenceInv
    <2>4. CASE next = wait
      <3>1. \A s \in started : s.at + RetryDelay <= wait
        BY <1>2, <2>2, TasksAssumption
      <3> QED
        BY <1>4, <1>5, <2>4, <3>1 DEF EvidenceInv
    <2> QED
      BY <2>1, <2>3, <2>4
  <1>8. CountInv(db.tasks, f, h)
    <2>1. \/ h.refunded = g.refunded /\ h.attempts = g.attempts
          \/ /\ Unsent(t) /\ g.refunded # g.task /\ h.refunded = g.task
             /\ h.attempts = IF g.attempts > 0 THEN g.attempts - 1 ELSE g.attempts
      BY <1>4 DEF attempts, refunded, Refunds
    <2>2. db.tasks \in Seq(TaskRecords)
      BY <1>1, TablesParts
    <2> QED
      BY <1>1, <1>4, <1>5, <2>1, <2>2, Refunded
  <1>9. GroupInv(db.tasks, f, h, started)
    BY <1>6, <1>7, <1>8 DEF GroupInv
  <1>10. Retry(db, f) = [tasks |-> db.tasks, groups |-> [db.groups EXCEPT ![f] = h]]
    <2>1. db = [tasks |-> db.tasks, groups |-> db.groups]
      BY <1>1, TablesParts
    <2>2. db.groups \in [Formats -> GroupRecords \cup {None}]
      BY <1>1, TablesParts
    <2>3. Retry(db, f) = [db EXCEPT !.groups[f] = h]
      BY DEF Retry, h, attempts, refunded, disposition, next, wait
    <2> QED
      BY <1>1, <2>1, <2>2, <2>3
  <1>11. TablesInv(Retry(db, f), started, now)
    BY <1>1, <1>4, <1>9, <1>10, GroupChanged
  <1>12. Follows(db, Retry(db, f))
    BY <1>1, <1>4, <1>10, FollowsGroup
  <1> QED
    BY <1>11, <1>12 DEF Part

LEMMA RefreshIsPart ==
    ASSUME NEW db, NEW f, Given(db, f), now \in Nat
    PROVE  Part(db, Refresh(db, f)) /\ Given(Refresh(db, f), f)
  <1>1. db \in AllTables /\ TablesInv(db, started, now) /\ f \in Formats
    BY GivenGroup DEF Given
  <1>2. Part(db, Refresh(db, f))
    <2>1. CASE Status(db, f) \in {"AWAITING_APPROVAL", "COVERED"}
      <3>1. db.groups[f].task # 0
        BY <2>1 DEF Status
      <3> QED
        BY <2>1, <3>1, SupersedeIsPart DEF Refresh
    <2>2. CASE Status(db, f) \notin {"AWAITING_APPROVAL", "COVERED"} /\ ~current
      BY <2>2, BlockIsPart DEF Refresh
    <2>3. CASE /\ Status(db, f) \notin {"AWAITING_APPROVAL", "COVERED"} /\ current
               /\ Status(db, f) \in {"COLLECTING", "QUEUED"}
      <3>1. Refresh(db, f) = db
        BY <2>3 DEF Refresh
      <3> QED
        BY <1>1, <3>1 DEF Part, Follows, AllTables
    <2>4. CASE /\ Status(db, f) \notin {"AWAITING_APPROVAL", "COVERED"} /\ current
               /\ Status(db, f) \notin {"COLLECTING", "QUEUED"}
      <3>1. db.groups[f].task # 0 /\ db.tasks[db.groups[f].task].status \notin Open
        BY <2>4 DEF Status
      <3>2. Refresh(db, f) = Retry(db, f)
        BY <2>4 DEF Refresh
      <3> QED
        BY <3>1, <3>2, RetryIsPart
    <2> QED
      BY <2>1, <2>2, <2>3, <2>4
  <1> QED
    BY <1>1, <1>2 DEF Given, Part, Follows

\* _queue when it finds a task that is open.
LEMMA JoinIsPart ==
    ASSUME NEW db, NEW f, Given(db, f), NEW i \in OpenTasks(db, f, "adapter"),
           NEW us \in Seq(TaskRecords),
           us = db.tasks \/ /\ db.tasks[i].status = "PENDING"
                            /\ us = [db.tasks EXCEPT ![i].automatic = FALSE]
    PROVE  Part(db, [tasks |-> us, groups |-> [db.groups EXCEPT ![f].task = i]])
  <1> DEFINE g == db.groups[f]
             u == [db.tasks[i] EXCEPT !.automatic = FALSE]
             e == [tasks |-> us, groups |-> db.groups]
             h == [g EXCEPT !.task = i]
  <1>1. /\ db \in AllTables /\ TablesInv(db, started, now) /\ f \in Formats /\ g # None
        /\ g \in GroupRecords /\ GroupInv(db.tasks, f, g, started)
    BY GivenGroup DEF Given
  <1>2. /\ i \in 1 .. Len(db.tasks) /\ i \in ProposalsIn(db.tasks, f)
        /\ db.tasks[i] \in TaskRecords /\ TaskInv(db.tasks[i]) /\ db.tasks[i].status \in Open
    BY <1>1, TablesParts DEF OpenTasks, ProposalsIn, TablesInv
  <1>3. /\ Len(us) = Len(db.tasks)
        /\ \A j \in 1 .. Len(us) : /\ Keeps(db.tasks[j], us[j]) /\ TaskInv(us[j])
                                   /\ us[j].role = db.tasks[j].role
                                   /\ us[j].status = db.tasks[j].status
                                   /\ us[j].case = db.tasks[j].case
                                   /\ us[j].pinned = db.tasks[j].pinned
    <2>1. CASE us = db.tasks
      BY <1>1, <2>1, TablesParts DEF Keeps, TablesInv
    <2>2. CASE us = [db.tasks EXCEPT ![i].automatic = FALSE]
      <3>1. /\ u \in TaskRecords /\ Keeps(db.tasks[i], u) /\ TaskInv(u)
            /\ u.role = db.tasks[i].role /\ u.status = db.tasks[i].status
            /\ u.case = db.tasks[i].case /\ u.pinned = db.tasks[i].pinned
        BY <1>2 DEF TaskRecords, Keeps, TaskInv, Unsent
      <3>2. us = [db.tasks EXCEPT ![i] = u]
        BY <2>2
      <3> HIDE DEF u
      <3>3. Len(us) = Len(db.tasks)
            /\ us[i] = u /\ \A j \in 1 .. Len(us) : j # i => us[j] = db.tasks[j]
        BY <1>1, <1>2, <3>1, <3>2, TablesParts, Replaced
      <3> QED
        BY <1>1, <3>1, <3>3 DEF Keeps, TablesInv
    <2> QED
      BY <2>1, <2>2
  <1>4. TablesInv(e, started, now)
    BY <1>1, <1>3, TasksChanged
  <1>5. Follows(db, e)
    BY <1>1, <1>3, FollowsTask
  <1>6. e.tasks = us /\ e.groups = db.groups
    OBVIOUS
  <1>7. Given(e, f) /\ e \in AllTables
    BY <1>1, <1>4, <1>6, GivenGroup DEF Given
  <1>8. PointerInv(us, f, g) /\ EvidenceInv(us, g, started) /\ CountInv(us, f, g)
    BY <1>6, <1>7, GivenGroup DEF GroupInv
  <1>9. h \in GroupRecords /\ h.task = i /\ h.refunded = g.refunded /\ h.attempts = g.attempts
        /\ h.asked = g.asked /\ h.events = g.events /\ h.next = g.next /\ h.adapter = g.adapter
        /\ (g.task = i => h = g)
    <2>1. i \in Nat
      BY <1>2
    <2>2. h \in GroupRecords
      BY <1>1, <2>1 DEF GroupRecords
    <2>3. g.task = i => h = g
      BY <1>1 DEF GroupRecords
    <2> QED
      BY <1>1, <2>2, <2>3 DEF GroupRecords
  <1>10. i \in ProposalsIn(us, f) /\ us[i].status \in Open
    BY <1>2, <1>3 DEF ProposalsIn
  <1> HIDE DEF h, e
  <1>11. GroupInv(us, f, h, started)
    <2>1. CASE \E p \in ProposalsIn(us, f) : us[p].pinned
      <3>1. us[i].pinned
        BY <1>8, <1>10, <2>1 DEF PointerInv
      <3>2. i = g.task
        BY <1>8, <1>10, <3>1 DEF PointerInv
      <3> QED
        BY <1>8, <1>9, <3>2 DEF GroupInv
    <2>2. CASE \A p \in ProposalsIn(us, f) : ~ us[p].pinned
      <3>1. PointerInv(us, f, h)
        BY <1>8, <1>9, <1>10, <2>2 DEF PointerInv
      <3>2. EvidenceInv(us, h, started)
        BY <1>8, <1>9, <1>10, <2>2 DEF EvidenceInv
      <3>3. Counted(us, f, h) = {} /\ CountedAlone(us, f, h) = {}
        BY <2>2 DEF Counted, CountedAlone
      <3>4. h.attempts \in Nat /\ MaxAttempts \in Nat
        BY <1>9, TasksAssumption DEF GroupRecords
      <3>5. CountInv(us, f, h)
        BY <3>3, <3>4, FS_EmptySet DEF CountInv
      <3> QED
        BY <3>1, <3>2, <3>5 DEF GroupInv
    <2> QED
      BY <2>1, <2>2
  <1>12. [tasks |-> us, groups |-> [db.groups EXCEPT ![f].task = i]]
         = [tasks |-> e.tasks, groups |-> [e.groups EXCEPT ![f] = h]]
    BY <1>6 DEF h
  <1>13. /\ TablesInv([tasks |-> e.tasks, groups |-> [e.groups EXCEPT ![f] = h]], started, now)
         /\ Follows(e, [tasks |-> e.tasks, groups |-> [e.groups EXCEPT ![f] = h]])
    BY <1>1, <1>4, <1>6, <1>7, <1>9, <1>11, GroupChanged, FollowsGroup
  <1> QED
    BY <1>1, <1>5, <1>7, <1>12, <1>13, FollowsOn DEF Part, TablesInv

\* When a group may have another task without anybody asking for it.
Earned(db, f) ==
    LET g == db.groups[f]
    IN  /\ g.attempts < MaxAttempts /\ g.next # None /\ g.next <= now
        /\ g.task = 0 \/ Unsent(db.tasks[g.task]) \/ g.events > g.asked

(* The task that _queue makes when none is open, and the group that points  *)
(* to it.                                                                   *)
LEMMA NewIsCounted ==
    ASSUME NEW ts \in Seq(TaskRecords), NEW us \in Seq(TaskRecords),
           NEW f, NEW g \in GroupRecords, NEW h \in GroupRecords,
           Len(us) = Len(ts) + 1, \A i \in 1 .. Len(ts) : us[i] = ts[i],
           h.task = Len(ts) + 1, h.attempts = g.attempts + 1,
           us[Len(ts) + 1].automatic => g.attempts < MaxAttempts,
           CountInv(ts, f, g)
    PROVE  CountInv(us, f, h)
  <1> DEFINE n == Len(ts) + 1
             C == Counted(ts, f, g)
             D == Counted(us, f, h)
             A == CountedAlone(ts, f, g)
             B == CountedAlone(us, f, h)
  <1>1. /\ IsFiniteSet(C) /\ IsFiniteSet(D) /\ IsFiniteSet(A) /\ IsFiniteSet(B)
        /\ Cardinality(C) \in Nat /\ Cardinality(D) \in Nat
        /\ Cardinality(A) \in Nat /\ Cardinality(B) \in Nat /\ B \subseteq D
    BY CountedFinite
  <1>2. Len(ts) \in Nat /\ g.attempts \in Nat /\ MaxAttempts \in Nat
    BY TasksAssumption DEF GroupRecords
  <1>3. \A i \in ProposalsIn(us, f) : i = n \/ (i \in ProposalsIn(ts, f) /\ us[i] = ts[i])
    BY <1>2 DEF ProposalsIn
  <1>4. n \notin ProposalsIn(ts, f)
    BY <1>2 DEF ProposalsIn
  <1> HIDE DEF n
  <1>5. D \subseteq C \cup {n} /\ n \notin C
    BY <1>3, <1>4 DEF Counted, n
  <1>6. B \subseteq A \cup {n} /\ n \notin A
    <2>1. \A i \in B : i \in D /\ us[i].automatic
      BY DEF CountedAlone
    <2>2. \A i \in D : i = n \/ (i \in C /\ us[i] = ts[i])
      BY <1>3, <1>5 DEF Counted
    <2>3. \A i \in B : i = n \/ i \in A
      BY <2>1, <2>2 DEF CountedAlone
    <2> QED
      BY <1>1, <1>5, <2>3 DEF CountedAlone
  <1>7. IsFiniteSet(C \cup {n}) /\ Cardinality(C \cup {n}) = Cardinality(C) + 1
    BY <1>1, <1>5, FS_AddElement
  <1>8. Cardinality(D) <= Cardinality(C) + 1
    BY <1>5, <1>7, FS_Subset
  <1>9. Cardinality(C) <= g.attempts /\ Cardinality(A) <= MaxAttempts
    BY DEF CountInv
  <1>10. Cardinality(D) <= h.attempts
    <2> HIDE DEF C, D
    <2> QED
      BY <1>1, <1>2, <1>8, <1>9
  <1>11. Cardinality(B) <= MaxAttempts
    <2>1. CASE us[n].automatic
      <3>1. Cardinality(B) <= Cardinality(D)
        BY <1>1, FS_Subset
      <3>2. g.attempts < MaxAttempts
        BY <2>1 DEF n
      <3> HIDE DEF B, D
      <3> QED
        BY <1>1, <1>2, <1>10, <3>1, <3>2
    <2>2. CASE ~ us[n].automatic
      <3>1. B \subseteq A
        BY <1>6, <2>2 DEF CountedAlone
      <3>2. Cardinality(B) <= Cardinality(A)
        BY <1>1, <3>1, FS_Subset
      <3> HIDE DEF A, B
      <3> QED
        BY <1>1, <1>2, <1>9, <3>2
    <2> QED
      BY <2>1, <2>2
  <1> QED
    BY <1>10, <1>11 DEF CountInv

LEMMA NewIsPart ==
    ASSUME NEW db, NEW f, Given(db, f), OpenTasks(db, f, "adapter") = {},
           NEW automatic \in BOOLEAN, automatic => Earned(db, f), now \in Nat,
           NEW h \in GroupRecords, NEW t \in TaskRecords,
           t.case = f, t.role = "adapter", t.automatic <=> automatic, t.status = "PENDING",
           t.attempts = 0, t.evidence = db.groups[f].events, t.pinned, t.draft = "none",
           h.task = Len(db.tasks) + 1, h.attempts = db.groups[f].attempts + 1, h.next = None,
           h.asked = db.groups[f].events, h.events = db.groups[f].events,
           h.adapter = db.groups[f].adapter, h.refunded = db.groups[f].refunded
    PROVE  Part(db, [tasks |-> Append(db.tasks, t), groups |-> [db.groups EXCEPT ![f] = h]])
  <1> DEFINE g == db.groups[f]
             ts == db.tasks
             us == Append(ts, t)
             n == Len(ts) + 1
             P == ProposalsIn(ts, f)
  <1>1. /\ db \in AllTables /\ TablesInv(db, started, now) /\ f \in Formats /\ g # None
        /\ g \in GroupRecords /\ GroupInv(ts, f, g, started)
        /\ OpenInv(ts, f) /\ RetryInv(ts, f, started, now) /\ ts \in Seq(TaskRecords)
    BY GivenGroup, TablesParts DEF Given
  <1>2. /\ Len(ts) \in Nat /\ n \in Nat /\ us \in Seq(TaskRecords) /\ Len(us) = n
        /\ \A i \in 1 .. Len(ts) : us[i] = ts[i]
        /\ us[n] = t
    BY <1>1, Appended
  <1>3. /\ t.case = f /\ t.role = "adapter" /\ (t.automatic <=> automatic) /\ t.status = "PENDING"
        /\ t.attempts = 0 /\ t.evidence = g.events /\ t.pinned /\ t.draft = "none"
    OBVIOUS
  <1>4. /\ h.task = n /\ h.attempts = g.attempts + 1 /\ h.asked = g.events /\ h.next = None
        /\ h.events = g.events /\ h.adapter = g.adapter /\ h.refunded = g.refunded
    OBVIOUS
  <1>5. TaskInv(t)
    BY <1>3 DEF TaskInv
  <1>6. PointerInv(ts, f, g) /\ EvidenceInv(ts, g, started) /\ CountInv(ts, f, g)
    BY <1>1 DEF GroupInv
  <1>7. \A i \in 1 .. Len(ts) : TaskInv(ts[i])
    BY <1>1 DEF TablesInv
  <1>8. \A i \in P : i \in 1 .. Len(ts) /\ i < n /\ ts[i].status \notin Open
    BY <1>1, <1>2, TablesParts DEF OpenTasks, ProposalsIn
  <1>9. \A s \in started : s.task \in 1 .. Len(ts) /\ s.at \in Nat
    BY <1>1 DEF TablesInv, StartsInv
  <1> HIDE DEF us, ts, n, P, g
  <1>10. ProposalsIn(us, f) = P \cup {n}
    <2>1. \A i : i \in 1 .. Len(us) <=> i \in 1 .. Len(ts) \/ i = n
      BY <1>2 DEF n
    <2> QED
      BY <1>2, <1>3, <2>1 DEF ProposalsIn, P
  <1>11. \A i \in P : us[i] = ts[i]
    BY <1>2, <1>8
  <1>12. OpenInv(us, f)
    <2> SUFFICES ASSUME NEW i \in 1 .. Len(us), NEW j \in 1 .. Len(us),
                        us[i].case = f, us[j].case = f, us[i].role = us[j].role,
                        us[i].status \in Open, us[j].status \in Open
                 PROVE  i = j
      BY DEF OpenInv
    <2>1. /\ i \in 1 .. Len(ts) \/ i = n
          /\ j \in 1 .. Len(ts) \/ j = n
      BY <1>2 DEF n
    <2>2. \A k \in 1 .. Len(us) : k \in 1 .. Len(ts) /\ us[k].case = f /\ us[k].role = "adapter"
                                  => us[k].status \notin Open
      BY <1>2, <1>8 DEF P, ProposalsIn
    <2>3. CASE i = n \/ j = n
      BY <1>2, <1>3, <2>1, <2>2, <2>3
    <2>4. CASE i # n /\ j # n
      BY <1>1, <1>2, <2>1, <2>4 DEF OpenInv
    <2> QED
      BY <2>3, <2>4
  <1>13. RetryInv(us, f, started, now)
    <2> SUFFICES ASSUME NEW i \in P \cup {n}, NEW k \in P \cup {n}, i < k,
                        us[i].attempts > 0, AllAutomatic(us, f)
                 PROVE  /\ us[i].evidence < us[k].evidence
                        /\ \A s \in started : s.task = i =>
                              /\ s.at + RetryDelay <= now
                              /\ \A r \in started : r.task = k => s.at + RetryDelay <= r.at
      BY <1>10 DEF RetryInv
    <2>1. i \in P /\ us[i] = ts[i]
      BY <1>2, <1>3, <1>8, <1>11
    <2>2. AllAutomatic(ts, f) /\ automatic
      BY <1>2, <1>3, <1>10, <1>11 DEF AllAutomatic, P
    <2>3. CASE k \in P
      <3>1. us[k] = ts[k]
        BY <1>11, <2>3
      <3> QED
        BY <1>1, <2>1, <2>2, <2>3, <3>1 DEF RetryInv, P
    <2>4. CASE k = n
      <3>1. us[k].evidence = g.events /\ \A r \in started : r.task # k
        <4>1. n \notin 1 .. Len(ts)
          BY <1>2 DEF n
        <4> QED
          BY <1>2, <1>3, <1>9, <2>4, <4>1
      <3>2. ts[i].automatic /\ ts[i].pinned
        BY <1>7, <1>8, <2>1, <2>2 DEF AllAutomatic, TaskInv, P
      <3>3. /\ i <= g.task /\ g.task \in P \cup {0} /\ g.task # 0 /\ ts[g.task].pinned
        BY <1>2, <1>6, <1>8, <2>1, <3>2 DEF PointerInv, P
      <3>4. /\ g.asked = ts[g.task].evidence /\ g.asked <= g.events
            /\ g.next # None => \A s \in started : s.task = g.task => s.at + RetryDelay <= g.next
        BY <1>6, <3>3 DEF EvidenceInv
      <3>5. /\ g.next # None /\ g.next <= now /\ g.next \in Nat
            /\ Unsent(ts[g.task]) \/ g.events > g.asked
        BY <1>1, <2>2, <3>3 DEF Earned, g, ts, GroupRecords
      <3>6. /\ g.asked \in Nat /\ g.events \in Nat /\ i \in Nat /\ g.task \in Nat
            /\ ts[i].evidence \in Nat /\ ts[g.task].evidence \in Nat
        <4>1. ts[i] \in TaskRecords /\ ts[g.task] \in TaskRecords
          BY <1>1, <1>8, <2>1, <3>3
        <4>2. ts[i].evidence \in Nat /\ ts[g.task].evidence \in Nat
          BY <4>1 DEF TaskRecords
        <4>3. g.asked \in Nat /\ g.events \in Nat /\ g.task \in Nat
          BY <1>1 DEF GroupRecords
        <4> QED
          BY <1>8, <2>1, <4>2, <4>3
      <3>7. CASE i = g.task
        <4>1. g.events > g.asked
          BY <2>1, <3>5, <3>7 DEF Unsent
        <4>2. ASSUME NEW s \in started, s.task = i PROVE s.at + RetryDelay <= now
          <5>1. s.at + RetryDelay <= g.next
            BY <3>4, <3>5, <3>7, <4>2
          <5>2. s.at \in Nat /\ RetryDelay \in Nat
            BY <1>9, TasksAssumption
          <5> QED
            BY <3>5, <5>1, <5>2
        <4> QED
          BY <2>1, <3>1, <3>4, <3>6, <3>7, <4>1, <4>2
      <3>8. CASE i # g.task
        <4>1. i < g.task /\ g.task \in P
          BY <3>3, <3>6, <3>8
        <4>2. /\ ts[i].evidence < ts[g.task].evidence
              /\ \A s \in started : s.task = i => s.at + RetryDelay <= now
          BY <1>1, <2>1, <2>2, <4>1 DEF RetryInv, P
        <4> QED
          BY <2>1, <3>1, <3>4, <3>6, <4>2
      <3> QED
        BY <3>7, <3>8
    <2> QED
      BY <2>3, <2>4
  <1>14. PointerInv(us, f, h)
    <2>1. /\ {h.task, h.adapter, h.refunded} \subseteq ProposalsIn(us, f) \cup {0}
          /\ h.refunded # 0 => Unsent(us[h.refunded])
      BY <1>4, <1>6, <1>10, <1>11 DEF PointerInv, P
    <2>2. \A i \in P : us[i].status \notin Open /\ i <= n
      BY <1>2, <1>8, <1>11
    <2>3. us[n].pinned /\ n <= n
      BY <1>2, <1>3
    <2> QED
      BY <1>4, <1>10, <2>1, <2>2, <2>3 DEF PointerInv
  <1>15. EvidenceInv(us, h, started)
    <2>1. g.events \in Nat
      BY <1>1 DEF GroupRecords
    <2> QED
      BY <1>2, <1>3, <1>4, <2>1 DEF EvidenceInv
  <1>16. CountInv(us, f, h)
    <2>1. us[n].automatic => g.attempts < MaxAttempts
      BY <1>2, <1>3 DEF Earned, g
    <2> QED
      BY <1>1, <1>2, <1>4, <1>6, <2>1, NewIsCounted DEF n
  <1>17. FormatInv(us, f, h, started, now)
    BY <1>12, <1>13, <1>14, <1>15, <1>16, NoneAssumption DEF FormatInv, GroupInv
  <1> DEFINE e == [tasks |-> us, groups |-> [db.groups EXCEPT ![f] = h]]
  <1>18. TablesInv(e, started, now)
    BY <1>1, <1>3, <1>5, <1>17, TaskAdded DEF us, ts
  <1>19. Follows(db, e)
    <2>1. db.groups \in [Formats -> GroupRecords \cup {None}] /\ e.tasks = us
      BY <1>1, TablesParts
    <2>2. \A k \in Formats : e.groups[k] = None <=> db.groups[k] = None
      BY <1>1, <2>1, NoneAssumption DEF g
    <2>3. \A i \in 1 .. Len(ts) : us[i].role = ts[i].role
                                  /\ (ts[i].status = "RUNNING" => us[i].status = "RUNNING")
      BY <1>2
    <2>4. Len(ts) <= Len(us)
      BY <1>2 DEF n
    <2> QED
      BY <2>1, <2>2, <2>3, <2>4 DEF Follows, ts
  <1> QED
    BY <1>18, <1>19 DEF Part, us, ts

LEMMA QueueIsPart ==
    ASSUME NEW db, NEW f, Given(db, f), NEW automatic \in BOOLEAN,
           automatic => Earned(db, f), now \in Nat
    PROVE  Part(db, Queue(db, f, automatic))
  <1> DEFINE g == db.groups[f]
             open == OpenTasks(db, f, "adapter")
             i == Min(open)
             us == IF automatic \/ db.tasks[i].status # "PENDING" THEN db.tasks
                   ELSE [db.tasks EXCEPT ![i].automatic = FALSE]
             Joined == [tasks |-> us, groups |-> [db.groups EXCEPT ![f].task = i]]
             t == NewTask(f, "adapter", automatic, g.events, TRUE)
             h == [g EXCEPT !.task = Len(db.tasks) + 1, !.attempts = @ + 1,
                            !.asked = g.events, !.next = None]
  <1>1. /\ db \in AllTables /\ TablesInv(db, started, now) /\ f \in Formats /\ g # None
        /\ g \in GroupRecords /\ db.tasks \in Seq(TaskRecords) /\ Len(db.tasks) \in Nat
        /\ DOMAIN db.tasks = 1 .. Len(db.tasks)
    BY GivenGroup, TablesParts DEF Given
  <1>2. CASE open # {}
    <2>1. open \in SUBSET Nat
      BY <1>1 DEF OpenTasks
    <2>2. i \in open
      BY <1>2, <2>1, HasMin
    <2>3. us = db.tasks \/ /\ db.tasks[i].status = "PENDING"
                           /\ us = [db.tasks EXCEPT ![i].automatic = FALSE]
      OBVIOUS
    <2>4. us \in Seq(TaskRecords)
      <3>1. i \in 1 .. Len(db.tasks)
        BY <1>1, <2>2 DEF OpenTasks
      <3>2. db.tasks[i] \in TaskRecords
        BY <1>1, <3>1
      <3>3. [db.tasks[i] EXCEPT !.automatic = FALSE] \in TaskRecords
        BY <3>2 DEF TaskRecords
      <3> QED
        BY <1>1, <3>1, <3>3
    <2>5. Queue(db, f, automatic) = Refresh(Joined, f)
      BY <1>2 DEF Queue
    <2> HIDE DEF us, i
    <2>6. Part(db, Joined)
      BY <1>1, <2>2, <2>3, <2>4, JoinIsPart
    <2> HIDE DEF Joined
    <2>7. Given(Joined, f)
      BY <1>1, <2>6 DEF Part, Follows, Given
    <2>8. Part(Joined, Refresh(Joined, f))
      BY <2>7, RefreshIsPart
    <2> QED
      BY <1>1, <2>5, <2>6, <2>8, FollowsOn DEF Part, TablesInv
  <1>3. CASE open = {}
    <2>1. t \in TaskRecords
      BY <1>1 DEF NewTask, TaskRecords, GroupRecords, Statuses, Open, Drafts
    <2>2. /\ t.case = f /\ t.role = "adapter" /\ (t.automatic <=> automatic)
          /\ t.status = "PENDING" /\ t.attempts = 0 /\ t.evidence = g.events
          /\ t.pinned /\ t.draft = "none"
      BY DEF NewTask
    <2>3. h \in GroupRecords
      <3>1. g.attempts + 1 \in Nat /\ g.events \in Nat /\ Len(db.tasks) + 1 \in Nat
        <4>1. g.attempts \in Nat /\ g.events \in Nat
          BY <1>1 DEF GroupRecords
        <4> QED
          BY <1>1, <4>1
      <3> QED
        BY <1>1, <3>1 DEF GroupRecords
    <2>4. /\ h.task = Len(db.tasks) + 1 /\ h.attempts = g.attempts + 1 /\ h.next = None
          /\ h.asked = g.events /\ h.events = g.events
          /\ h.adapter = g.adapter /\ h.refunded = g.refunded
      BY <1>1 DEF GroupRecords
    <2>5. Queue(db, f, automatic)
          = [tasks |-> Append(db.tasks, t), groups |-> [db.groups EXCEPT ![f] = h]]
      BY <1>3 DEF Queue
    <2> HIDE DEF t, h
    <2>6. Part(db, [tasks |-> Append(db.tasks, t), groups |-> [db.groups EXCEPT ![f] = h]])
      BY <1>3, <2>1, <2>2, <2>3, <2>4, NewIsPart
    <2> QED
      BY <2>5, <2>6
  <1> QED
    BY <1>2, <1>3

LEMMA ScheduleOneIsPart ==
    ASSUME NEW db, NEW f, Given(db, f), NEW on \in BOOLEAN, now \in Nat
    PROVE  Part(db, ScheduleOne(db, f, on))
  <1> DEFINE fresh == Refresh(db, f)
  <1>1. Part(db, fresh) /\ Given(fresh, f)
    BY RefreshIsPart
  <1>2. CASE on /\ Ready(fresh, f)
    <2>1. Earned(fresh, f)
      BY <1>2 DEF Ready, IsDue, Status, Earned
    <2>2. Part(fresh, Queue(fresh, f, TRUE))
      BY <1>1, <2>1, QueueIsPart
    <2>3. db \in AllTables
      BY GivenGroup
    <2>4. ScheduleOne(db, f, on) = Queue(fresh, f, TRUE)
      BY <1>2 DEF ScheduleOne
    <2> QED
      BY <1>1, <2>2, <2>3, <2>4, FollowsOn DEF Part, TablesInv
  <1>3. CASE ~ (on /\ Ready(fresh, f))
    BY <1>1, <1>3 DEF ScheduleOne
  <1> QED
    BY <1>2, <1>3

(* A round of scheduling, by induction over the turns of the groups.        *)
LEMMA ScheduledIsPart ==
    ASSUME TasksTypeOK, TablesInv(Tables, started, now), NEW on \in BOOLEAN
    PROVE  Part(Tables, Scheduled(on))
  <1>1. /\ order \in Seq(Formats) /\ Len(order) \in Nat /\ now \in Nat
        /\ \A n \in 1 .. Len(order) : order[n] \in Formats /\ Tables.groups[order[n]] # None
    BY DEF TasksTypeOK, Tables
  <1>2. PICK after : /\ after[0] = Tables
                     /\ \A n \in 1 .. Len(order) :
                           after[n] = ScheduleOne(after[n - 1], order[n], on)
                     /\ Scheduled(on) = after[Len(order)]
    BY <1>1, Turn
  <1> DEFINE Bad == {n \in 0 .. Len(order) : ~ Part(Tables, after[n])}
             m == Min(Bad)
  <1>3. Bad = {}
    <2> SUFFICES ASSUME Bad # {} PROVE FALSE
      OBVIOUS
    <2>1. Bad \in SUBSET Nat
      OBVIOUS
    <2>2. m \in Bad /\ \A n \in Bad : m <= n
      BY <2>1, HasMin
    <2>3. m \in 0 .. Len(order) /\ ~ Part(Tables, after[m])
          /\ \A n \in 0 .. Len(order) : n < m => Part(Tables, after[n])
      <3> HIDE DEF m
      <3>1. m \in 0 .. Len(order) /\ ~ Part(Tables, after[m])
        BY <2>2
      <3>2. ASSUME NEW n \in 0 .. Len(order), n < m PROVE n \notin Bad
        <4> HIDE DEF Bad
        <4>1. ~ (m <= n)
          BY <3>1, <3>2
        <4> QED
          BY <2>2, <4>1
      <3> QED
        BY <3>1, <3>2
    <2> HIDE DEF m, Bad
    <2>4. m # 0
      BY <1>2, <2>3 DEF Part, Follows, TablesInv, AllTables
    <2>5. m \in 1 .. Len(order) /\ m - 1 \in 0 .. Len(order) /\ m - 1 < m
      BY <1>1, <2>3, <2>4
    <2>6. Part(Tables, after[m - 1])
      BY <2>3, <2>5
    <2>7. Given(after[m - 1], order[m])
      BY <1>1, <2>5, <2>6 DEF Given, Part, Follows
    <2>8. Part(after[m - 1], after[m])
      BY <1>1, <1>2, <2>5, <2>7, ScheduleOneIsPart
    <2>9. Part(Tables, after[m])
      BY <2>6, <2>8, FollowsOn DEF Part, TablesInv
    <2> QED
      BY <2>3, <2>9
  <1> QED
    BY <1>1, <1>2, <1>3
-----------------------------------------------------------------------------
(* Steps.                                                                   *)

WorkerOK ==
    /\ worker \in Workers
    /\ worker.task # 0 => tasks[worker.task].status = "RUNNING"
    /\ WorkerInv

\* What a step leaves of the tables.
After == [tasks |-> tasks', groups |-> groups']

LEMMA Pointers ==
    ASSUME NEW db, NEW st, NEW time, TablesInv(db, st, time)
    PROVE  \A f \in Formats : db.groups[f] # None =>
              {db.groups[f].task, db.groups[f].adapter, db.groups[f].refunded}
                 \subseteq ProposalsIn(db.tasks, f) \cup {0}
  BY DEF TablesInv, FormatInv, GroupInv, PointerInv

LEMMA Assembled ==
    ASSUME TablesInv(After, started', now'),
           order' \in Seq(Formats),
           \A f \in Formats : groups'[f] # None <=> \E n \in 1 .. Len(order') : order'[n] = f,
           calls' \in [0 .. Day(MaxTime) -> Nat], BudgetInv',
           cases' \subseteq Formats, {now', faults', changes'} \subseteq Nat, now' <= MaxTime,
           current' \in BOOLEAN, auto' \in BOOLEAN, WorkerOK'
    PROVE  TasksInv'
  <1>1. After \in AllTables /\ After.tasks = tasks' /\ After.groups = groups'
    BY DEF TablesInv, After
  <1>2. tasks' \in Seq(TaskRecords) /\ groups' \in [Formats -> GroupRecords \cup {None}]
    BY <1>1, TablesParts
  <1>3. \A f \in Formats : groups'[f] # None =>
           {groups'[f].task, groups'[f].adapter, groups'[f].refunded} \subseteq Proposals(f)' \cup {0}
    <2>1. \A f \in Formats : Proposals(f)' = ProposalsIn(tasks', f)
      BY DEF ProposalsIn, Proposals, Ids
    <2>2. \A f \in Formats : After.groups[f] # None =>
             {After.groups[f].task, After.groups[f].adapter, After.groups[f].refunded}
                \subseteq ProposalsIn(After.tasks, f) \cup {0}
      BY Pointers
    <2> QED
      BY <1>1, <2>1, <2>2
  <1>4. TasksTypeOK'
    BY <1>2, <1>3 DEF TasksTypeOK, WorkerOK
  <1>5. TablesInv(Tables, started, now)'
    BY DEF After, Tables
  <1> QED
    BY <1>4, <1>5 DEF TasksInv, WorkerOK

LEMMA TablesStep ==
    ASSUME TasksInv, TablesInv(After, started', now'),
           \A f \in Formats : groups'[f] = None <=> groups[f] = None,
           UNCHANGED <<order, calls, started>>,
           cases' \subseteq Formats, {now', faults', changes'} \subseteq Nat, now' <= MaxTime,
           current' \in BOOLEAN, auto' \in BOOLEAN, WorkerOK'
    PROVE  TasksInv'
  <1>1. /\ order' \in Seq(Formats)
        /\ \A f \in Formats : groups'[f] # None <=> \E n \in 1 .. Len(order') : order'[n] = f
        /\ calls' \in [0 .. Day(MaxTime) -> Nat]
    BY DEF TasksInv, TasksTypeOK
  <1>2. BudgetInv'
    BY DEF TasksInv, BudgetInv, Day
  <1> QED
    BY <1>1, <1>2, Assembled

LEMMA WorkerKept ==
    ASSUME TasksInv, NEW db, Follows(Tables, db), tasks' = db.tasks, worker' = worker
    PROVE  WorkerOK'
  <1>1. /\ worker \in Workers /\ WorkerInv
        /\ worker.task # 0 => tasks[worker.task].status = "RUNNING"
        /\ tasks \in Seq(TaskRecords)
    BY DEF TasksInv, TasksTypeOK
  <1>2. /\ Len(tasks) <= Len(tasks')
        /\ \A i \in 1 .. Len(tasks) : /\ tasks'[i].role = tasks[i].role
                                      /\ tasks[i].status = "RUNNING" => tasks'[i].status = "RUNNING"
    BY DEF Follows, Tables
  <1>3. 1 .. Len(tasks) \subseteq 1 .. Len(tasks')
    <2>1. Len(tasks) \in Nat
      BY <1>1
    <2> QED
      BY <1>2, <2>1
  <1> QED
    BY <1>1, <1>2, <1>3 DEF WorkerOK, WorkerInv, Ids, Workers

LEMMA WorkerRests ==
    ASSUME worker' \in Workers, worker'.task = 0, worker'.at \notin {"ask", "propose", "finish"}
    PROVE  WorkerOK'
  BY DEF WorkerOK, WorkerInv

(* A transaction of another thread, on the tables only.                     *)
LEMMA Saved ==
    ASSUME TasksInv, NEW db, Part(Tables, db), Save(db), UNCHANGED <<order, calls, env, started>>,
           WorkerOK'
    PROVE  TasksInv'
  <1>1. After = db
    BY TablesParts DEF Part, TablesInv, Save, After
  <1>2. TablesInv(After, started', now')
    BY <1>1 DEF Part, env
  <1>3. \A f \in Formats : groups'[f] = None <=> groups[f] = None
    BY DEF Part, Follows, Save, Tables
  <1>4. /\ cases' \subseteq Formats /\ {now', faults', changes'} \subseteq Nat /\ now' <= MaxTime
        /\ current' \in BOOLEAN /\ auto' \in BOOLEAN
    BY DEF TasksInv, TasksTypeOK, env
  <1> QED
    BY <1>2, <1>3, <1>4, TablesStep

(* Nothing changes that the tables hold.                                    *)
LEMMA SameTables ==
    ASSUME TasksInv, UNCHANGED <<tasks, groups>>
    PROVE  /\ After = Tables /\ After \in AllTables
           /\ \A f \in Formats : groups'[f] = None <=> groups[f] = None
           /\ Follows(Tables, After)
  <1>1. After = Tables /\ Tables \in AllTables
    BY DEF After, Tables, TasksInv, TablesInv
  <1>2. Len(Tables.tasks) \in Nat
    BY <1>1, TablesParts
  <1> QED
    BY <1>1, <1>2 DEF Follows

LEMMA FindKeeps == ASSUME TasksInv, NEW f \in Formats, Find(f) PROVE TasksInv'
  <1>1. /\ TablesInv(After, started', now')
        /\ \A h \in Formats : groups'[h] = None <=> groups[h] = None
        /\ UNCHANGED <<order, calls, started>>
    BY SameTables DEF Find, TasksInv
  <1>2. WorkerOK'
    BY SameTables, WorkerKept DEF Find, After
  <1>3. /\ cases' \subseteq Formats /\ {now', faults', changes'} \subseteq Nat /\ now' <= MaxTime
        /\ current' \in BOOLEAN /\ auto' \in BOOLEAN
    BY DEF Find, TasksInv, TasksTypeOK
  <1> QED
    BY <1>1, <1>2, <1>3, TablesStep

LEMMA RegisterKeeps == ASSUME TasksInv, Register PROVE TasksInv'
  <1>1. /\ TablesInv(After, started', now')
        /\ \A h \in Formats : groups'[h] = None <=> groups[h] = None
        /\ UNCHANGED <<order, calls, started>>
    BY SameTables DEF Register, TasksInv
  <1>2. WorkerOK'
    BY SameTables, WorkerKept DEF Register, After
  <1>3. /\ cases' \subseteq Formats /\ {now', faults', changes'} \subseteq Nat /\ now' <= MaxTime
        /\ current' \in BOOLEAN /\ auto' \in BOOLEAN
    BY DEF Register, TasksInv, TasksTypeOK
  <1> QED
    BY <1>1, <1>2, <1>3, TablesStep

\* With time, what had to be over at a time stays over.
LEMMA TickKeeps == ASSUME TasksInv, Tick PROVE TasksInv'
  <1>1. now \in Nat /\ MaxTime \in Nat /\ now' = now + 1
    BY TasksAssumption DEF TasksInv, TasksTypeOK, Tick
  <1>2. /\ After = Tables /\ After \in AllTables /\ started' = started
        /\ \A h \in Formats : groups'[h] = None <=> groups[h] = None
        /\ UNCHANGED <<order, calls, started>>
    BY SameTables DEF Tick
  <1>3. TablesInv(Tables, started, now)
    BY DEF TasksInv
  <1>4. TablesInv(Tables, started, now')
    <2>1. StartsInv(Tables.tasks, started, now) => StartsInv(Tables.tasks, started, now')
      BY <1>1 DEF StartsInv
    <2>2. ASSUME NEW f \in Formats
          PROVE RetryInv(Tables.tasks, f, started, now) => RetryInv(Tables.tasks, f, started, now')
      <3>1. \A s \in started : s.at \in Nat
        BY <1>3 DEF TablesInv, StartsInv
      <3>2. \A s \in started : s.at + RetryDelay <= now => s.at + RetryDelay <= now'
        BY <1>1, <3>1, TasksAssumption
      <3> QED
        BY <3>2 DEF RetryInv
    <2> QED
      BY <1>3, <2>1, <2>2 DEF TablesInv, FormatInv
  <1>5. WorkerOK'
    BY SameTables, WorkerKept DEF Tick, After
  <1>6. /\ cases' \subseteq Formats /\ {now', faults', changes'} \subseteq Nat /\ now' <= MaxTime
        /\ current' \in BOOLEAN /\ auto' \in BOOLEAN
    BY <1>1 DEF Tick, TasksInv, TasksTypeOK
  <1> QED
    BY <1>2, <1>4, <1>5, <1>6, TablesStep

LEMMA ScheduleKeeps == ASSUME TasksInv, Schedule PROVE TasksInv'
  <1>1. Part(Tables, Scheduled(auto))
    BY ScheduledIsPart DEF TasksInv, TasksTypeOK
  <1>2. WorkerOK'
    BY <1>1, WorkerKept DEF Part, Schedule, Save
  <1> QED
    BY <1>1, <1>2, Saved DEF Schedule

LEMMA BeginKeeps == ASSUME TasksInv, Begin PROVE TasksInv'
  <1>1. Part(Tables, Scheduled(auto))
    BY ScheduledIsPart DEF TasksInv, TasksTypeOK
  <1>2. WorkerOK'
    BY WorkerRests DEF Begin, Idle, Workers
  <1> QED
    BY <1>1, <1>2, Saved DEF Begin

LEMMA EndKeeps == ASSUME TasksInv, End PROVE TasksInv'
  <1>1. Part(Tables, Scheduled(FALSE))
    BY ScheduledIsPart DEF TasksInv
  <1>2. WorkerOK'
    BY WorkerRests DEF End, Idle, Workers
  <1> QED
    BY <1>1, <1>2, Saved DEF End

\* A group starts with nothing that it would have to know of earlier proposals.
LEMMA ObserveKeeps == ASSUME TasksInv, NEW f \in Formats, Observe(f) PROVE TasksInv'
  <1>1. /\ TablesInv(Tables, started, now) /\ FormatInv(tasks, f, groups[f], started, now)
        /\ groups \in [Formats -> GroupRecords \cup {None}] /\ tasks \in Seq(TaskRecords)
        /\ now \in Nat /\ order \in Seq(Formats) /\ MaxAttempts \in Nat /\ Coalesce \in Nat
        /\ \A h \in Formats : groups[h] # None <=> \E n \in 1 .. Len(order) : order[n] = h
    BY TasksAssumption DEF TasksInv, TablesInv, TasksTypeOK, Tables
  <1>2. Tables.tasks = tasks /\ Tables.groups = groups
    BY DEF Tables
  <1>3. WorkerOK'
    <2>1. UNCHANGED <<tasks, worker>>
      BY DEF Observe
    <2> QED
      BY <2>1 DEF TasksInv, TasksTypeOK, WorkerOK, WorkerInv, Ids, Workers
  <1>4. /\ cases' \subseteq Formats /\ {now', faults', changes'} \subseteq Nat /\ now' <= MaxTime
        /\ current' \in BOOLEAN /\ auto' \in BOOLEAN /\ UNCHANGED <<tasks, calls, started, now>>
    BY DEF TasksInv, TasksTypeOK, Observe, env
  <1>5. CASE /\ groups[f] = None
             /\ groups' = [groups EXCEPT ![f] =
                  [events |-> 1, task |-> 0, adapter |-> 0, attempts |-> 0,
                   asked |-> 0, next |-> now + Coalesce, disposition |-> None, refunded |-> 0]]
             /\ order' = Append(order, f)
    <2> DEFINE g == [events |-> 1, task |-> 0, adapter |-> 0, attempts |-> 0,
                     asked |-> 0, next |-> now + Coalesce, disposition |-> None, refunded |-> 0]
    <2>1. g \in GroupRecords
      BY <1>1 DEF GroupRecords
    <2>2. g.task = 0 /\ g.adapter = 0 /\ g.refunded = 0 /\ g.asked <= g.events /\ g.attempts = 0
      OBVIOUS
    <2>3. groups' = [groups EXCEPT ![f] = g]
      BY <1>5
    <2> HIDE DEF g
    <2>4. \A i \in ProposalsIn(tasks, f) : ~ tasks[i].pinned
      BY <1>1, <1>5 DEF FormatInv
    <2>5. GroupInv(tasks, f, g, started)
      <3>1. Counted(tasks, f, g) = {} /\ CountedAlone(tasks, f, g) = {}
        BY <2>4 DEF Counted, CountedAlone
      <3>2. CountInv(tasks, f, g)
        BY <1>1, <2>2, <3>1, FS_EmptySet DEF CountInv
      <3> QED
        BY <2>2, <2>4, <3>2 DEF GroupInv, PointerInv, EvidenceInv
    <2>6. TablesInv(After, started', now')
      BY <1>1, <1>2, <1>4, <2>1, <2>3, <2>5, GroupChanged DEF After
    <2>7. /\ order' \in Seq(Formats) /\ Len(order) \in Nat /\ Len(order') = Len(order) + 1
          /\ \A n \in 1 .. Len(order) : order'[n] = order[n]
          /\ order'[Len(order) + 1] = f
      BY <1>1, <1>5, Appended
    <2>8. ASSUME NEW h \in Formats
          PROVE  groups'[h] # None <=> \E n \in 1 .. Len(order') : order'[n] = h
      <3>1. CASE h = f
        <4>1. groups'[h] # None
          BY <1>1, <2>1, <2>3, <3>1, NoneAssumption
        <4>2. Len(order) + 1 \in 1 .. Len(order')
          BY <2>7
        <4> QED
          BY <2>7, <3>1, <4>1, <4>2
      <3>2. CASE h # f
        <4>1. groups'[h] = groups[h]
          BY <1>1, <2>3, <3>2
        <4>2. 1 .. Len(order) \subseteq 1 .. Len(order')
          BY <2>7
        <4>3. \A n \in 1 .. Len(order') : n \in 1 .. Len(order) \/ n = Len(order) + 1
          BY <2>7
        <4> QED
          BY <1>1, <2>7, <3>2, <4>1, <4>2, <4>3
      <3> QED
        BY <3>1, <3>2
    <2>9. calls' \in [0 .. Day(MaxTime) -> Nat] /\ BudgetInv'
      BY <1>4 DEF TasksInv, TasksTypeOK, BudgetInv, Day
    <2> QED
      BY <1>3, <1>4, <2>6, <2>7, <2>8, <2>9, Assembled
  <1>6. CASE /\ groups[f] # None /\ groups' = [groups EXCEPT ![f].events = @ + 1]
             /\ UNCHANGED order
    <2> DEFINE g == [groups[f] EXCEPT !.events = @ + 1]
    <2>1. groups[f] \in GroupRecords /\ GroupInv(tasks, f, groups[f], started)
      BY <1>1, <1>6 DEF FormatInv
    <2>2. /\ g \in GroupRecords /\ g.task = groups[f].task /\ g.refunded = groups[f].refunded
          /\ g.attempts = groups[f].attempts /\ g.asked = groups[f].asked
          /\ g.events = groups[f].events + 1 /\ g.next = groups[f].next
          /\ g.adapter = groups[f].adapter
      BY <2>1 DEF GroupRecords
    <2>3. groups' = [groups EXCEPT ![f] = g]
      BY <1>1, <1>6
    <2>4. groups[f].asked \in Nat /\ groups[f].events \in Nat
      BY <2>1 DEF GroupRecords
    <2> HIDE DEF g
    <2>5. GroupInv(tasks, f, g, started)
      <3>1. PointerInv(tasks, f, g)
        BY <2>1, <2>2 DEF GroupInv, PointerInv
      <3>2. EvidenceInv(tasks, g, started)
        BY <2>1, <2>2, <2>4 DEF GroupInv, EvidenceInv
      <3>3. CountInv(tasks, f, g)
        BY <2>1, <2>2 DEF GroupInv, CountInv, CountedAlone, Counted
      <3> QED
        BY <3>1, <3>2, <3>3 DEF GroupInv
    <2>6. TablesInv(After, started', now')
      BY <1>1, <1>2, <1>4, <2>2, <2>3, <2>5, GroupChanged DEF After
    <2>7. \A h \in Formats : groups'[h] = None <=> groups[h] = None
      BY <1>1, <1>6, <2>2, <2>3, NoneAssumption
    <2> QED
      BY <1>3, <1>4, <1>6, <2>6, <2>7, TablesStep
  <1> QED
    BY <1>5, <1>6 DEF Observe

\* A task that a person asked for belongs to no group, and no retry was earned for it.
LEMMA EnqueueIsPart ==
    ASSUME TasksInv, NEW f \in Formats, NEW role \in {"operator", "adapter"}, Enqueue(f, role),
           UNCHANGED groups, role = "operator" \/ groups[f] = None
    PROVE  Part(Tables, After)
  <1> DEFINE t == NewTask(f, role, FALSE, 0, FALSE)
             us == Append(tasks, t)
             n == Len(tasks) + 1
             P == ProposalsIn(tasks, f)
             g == groups[f]
  <1>1. /\ TablesInv(Tables, started, now) /\ FormatInv(tasks, f, g, started, now)
        /\ g \in GroupRecords \cup {None} /\ tasks \in Seq(TaskRecords)
        /\ groups \in [Formats -> GroupRecords \cup {None}]
        /\ Tables \in AllTables /\ Tables.tasks = tasks /\ Tables.groups = groups
    BY DEF TasksInv, TablesInv, TasksTypeOK, Tables
  <1>2. t \in TaskRecords
    BY DEF NewTask, TaskRecords, Statuses, Open, Drafts
  <1>3. /\ t.case = f /\ t.role = role /\ ~ t.automatic /\ t.status = "PENDING"
        /\ t.attempts = 0 /\ ~ t.pinned /\ t.draft = "none"
    BY DEF NewTask
  <1>4. tasks' = us
    BY DEF Enqueue
  <1> HIDE DEF t
  <1>5. TaskInv(t)
    BY <1>3 DEF TaskInv
  <1>6. /\ Len(tasks) \in Nat /\ us \in Seq(TaskRecords) /\ Len(us) = n /\ us[n] = t
        /\ \A i \in 1 .. Len(tasks) : us[i] = tasks[i]
    BY <1>1, <1>2, Appended
  <1>7. \A i \in 1 .. Len(tasks) : tasks[i].case = f /\ tasks[i].role = role
                                   => tasks[i].status \notin Open
    BY <1>1, TablesParts DEF Enqueue, OpenTasks
  <1> HIDE DEF us, P, g
  <1>8. \A i \in 1 .. Len(us) : i \in 1 .. Len(tasks) \/ i = n
    BY <1>6
  <1>9. OpenInv(us, f)
    <2> SUFFICES ASSUME NEW i \in 1 .. Len(us), NEW j \in 1 .. Len(us),
                        us[i].case = f, us[j].case = f, us[i].role = us[j].role,
                        us[i].status \in Open, us[j].status \in Open
                 PROVE  i = j
      BY DEF OpenInv
    <2>1. /\ i \in 1 .. Len(tasks) \/ i = n
          /\ j \in 1 .. Len(tasks) \/ j = n
      BY <1>8
    <2>2. OpenInv(tasks, f)
      BY <1>1 DEF FormatInv
    <2> QED
      BY <1>3, <1>6, <1>7, <2>1, <2>2 DEF OpenInv
  <1>10. FormatInv(us, f, g, started, now)
    <2>1. CASE role = "operator"
      <3>1. n \in Nat /\ n \notin 1 .. Len(tasks) /\ 1 .. Len(tasks) \subseteq 1 .. Len(us)
        BY <1>6
      <3>2. ProposalsIn(us, f) = P
        BY <1>3, <1>6, <1>8, <2>1, <3>1 DEF P, ProposalsIn
      <3>3. \A i \in P : us[i] = tasks[i]
        BY <1>6 DEF P, ProposalsIn
      <3>4. RetryInv(us, f, started, now)
        <4>1. RetryInv(tasks, f, started, now)
          BY <1>1 DEF FormatInv
        <4>2. AllAutomatic(us, f) => AllAutomatic(tasks, f)
          BY <3>2, <3>3 DEF AllAutomatic, P
        <4> QED
          BY <3>2, <3>3, <4>1, <4>2 DEF RetryInv, P
      <3>5. CASE g = None
        BY <1>1, <1>9, <3>2, <3>3, <3>4, <3>5 DEF FormatInv, P
      <3>6. CASE g # None
        <4>1. PointerInv(tasks, f, g) /\ EvidenceInv(tasks, g, started) /\ CountInv(tasks, f, g)
          BY <1>1, <3>6 DEF FormatInv, GroupInv
        <4>2. {g.task, g.refunded} \subseteq P \cup {0}
          BY <4>1 DEF PointerInv, P
        <4>3. \A i \in P : i \in 1 .. Len(tasks)
          BY DEF P, ProposalsIn
        <4>4. PointerInv(us, f, g)
          <5>1. \A i \in P : us[i].pinned => g.task \in P /\ us[g.task].pinned
            BY <1>6, <3>3, <4>1, <4>2, <4>3 DEF PointerInv, P
          <5> QED
            BY <3>2, <3>3, <4>1, <4>2, <5>1 DEF PointerInv, P
        <4>5. EvidenceInv(us, g, started)
          BY <3>3, <4>1, <4>2 DEF EvidenceInv
        <4>6. Counted(us, f, g) = Counted(tasks, f, g)
          BY <3>2, <3>3 DEF Counted, P
        <4>7. CountedAlone(us, f, g) = CountedAlone(tasks, f, g)
          BY <3>3, <4>6 DEF CountedAlone, Counted, P
        <4>8. CountInv(us, f, g)
          BY <4>1, <4>6, <4>7 DEF CountInv
        <4> QED
          BY <1>9, <3>4, <3>6, <4>4, <4>5, <4>8 DEF FormatInv, GroupInv
      <3> QED
        BY <3>5, <3>6
    <2>2. CASE role = "adapter" /\ g = None
      <3>1. n \in ProposalsIn(us, f)
        BY <1>3, <1>6, <2>2 DEF ProposalsIn
      <3>2. RetryInv(us, f, started, now)
        BY <1>3, <1>6, <3>1 DEF RetryInv, AllAutomatic
      <3>3. \A i \in ProposalsIn(us, f) : ~ us[i].pinned
        BY <1>1, <1>3, <1>6, <1>8, <2>2 DEF FormatInv, ProposalsIn
      <3> QED
        BY <1>9, <2>2, <3>2, <3>3 DEF FormatInv
    <2> QED
      BY <2>1, <2>2 DEF g
  <1>11. groups' = [groups EXCEPT ![f] = g]
    BY <1>1 DEF g
  <1>12. TablesInv(After, started, now)
    BY <1>1, <1>2, <1>3, <1>4, <1>5, <1>10, <1>11, TaskAdded DEF After, us
  <1>13. Follows(Tables, After)
    <2>1. After.tasks = us /\ After.groups = groups
      BY <1>4 DEF After
    <2>2. Len(tasks) <= Len(us)
      BY <1>6
    <2> QED
      BY <1>1, <1>6, <2>1, <2>2 DEF Follows
  <1> QED
    BY <1>12, <1>13 DEF Part

LEMMA InvestigateKeeps == ASSUME TasksInv, NEW f \in Formats, Investigate(f) PROVE TasksInv'
  <1>1. Part(Tables, After)
    BY EnqueueIsPart DEF Investigate
  <1>2. Save(After) /\ After.tasks = tasks'
    BY DEF Save, After
  <1>3. WorkerOK'
    BY <1>1, <1>2, WorkerKept DEF Part, Investigate
  <1> QED
    BY <1>1, <1>2, <1>3, Saved DEF Investigate

LEMMA RequestKeeps == ASSUME TasksInv, NEW f \in Formats, Request(f) PROVE TasksInv'
  <1>1. UNCHANGED <<order, calls, env, worker, started>>
    BY DEF Request
  <1>2. CASE groups[f] # None /\ Save(Queue(Refresh(Tables, f), f, FALSE))
    <2>1. Given(Tables, f) /\ now \in Nat /\ Tables \in AllTables
      BY <1>2 DEF Given, TasksInv, TasksTypeOK, TablesInv, Tables
    <2>2. Part(Tables, Refresh(Tables, f)) /\ Given(Refresh(Tables, f), f)
      BY <2>1, RefreshIsPart
    <2>3. Part(Refresh(Tables, f), Queue(Refresh(Tables, f), f, FALSE))
      BY <2>1, <2>2, QueueIsPart
    <2>4. Part(Tables, Queue(Refresh(Tables, f), f, FALSE))
      BY <2>1, <2>2, <2>3, FollowsOn DEF Part, TablesInv
    <2>5. WorkerOK'
      BY <1>1, <1>2, <2>4, WorkerKept DEF Part, Save
    <2> QED
      BY <1>1, <1>2, <2>4, <2>5, Saved
  <1>3. CASE groups[f] = None /\ Enqueue(f, "adapter") /\ UNCHANGED groups
    <2>1. Part(Tables, After)
      BY <1>3, EnqueueIsPart
    <2>2. Save(After) /\ After.tasks = tasks'
      BY DEF Save, After
    <2>3. WorkerOK'
      BY <1>1, <2>1, <2>2, WorkerKept DEF Part
    <2> QED
      BY <1>1, <2>1, <2>2, <2>3, Saved
  <1> QED
    BY <1>2, <1>3 DEF Request

LEMMA DecideKeeps == ASSUME TasksInv, NEW i \in Ids, Decide(i) PROVE TasksInv'
  <1>1. /\ TablesInv(Tables, started, now) /\ tasks \in Seq(TaskRecords) /\ i \in 1 .. Len(tasks)
        /\ Tables \in AllTables /\ Tables.tasks = tasks /\ Tables.groups = groups
        /\ tasks[i] \in TaskRecords /\ TaskInv(tasks[i])
    BY DEF TasksInv, TablesInv, TasksTypeOK, Tables, Ids
  <1>2. PICK d \in {"APPROVED", "REVOKED"} :
           tasks[i].draft # "none" /\ tasks' = [tasks EXCEPT ![i].draft = d]
    BY DEF Decide
  <1> DEFINE u == [tasks[i] EXCEPT !.draft = d]
  <1>3. /\ u \in TaskRecords /\ Keeps(tasks[i], u) /\ TaskInv(u)
        /\ u.role = tasks[i].role /\ u.status = tasks[i].status
    BY <1>1, <1>2 DEF TaskRecords, Drafts, Keeps, TaskInv, Unsent
  <1>4. tasks' = [tasks EXCEPT ![i] = u]
    BY <1>2
  <1> HIDE DEF u
  <1>5. tasks' \in Seq(TaskRecords) /\ Len(tasks') = Len(tasks)
        /\ tasks'[i] = u /\ \A j \in 1 .. Len(tasks') : j # i => tasks'[j] = tasks[j]
    BY <1>1, <1>3, <1>4, Replaced
  <1>6. \A j \in 1 .. Len(tasks') : /\ Keeps(tasks[j], tasks'[j]) /\ TaskInv(tasks'[j])
                                    /\ tasks'[j].role = tasks[j].role
                                    /\ tasks'[j].status = tasks[j].status
    BY <1>1, <1>3, <1>5 DEF Keeps, TablesInv
  <1>7. After = [tasks |-> tasks', groups |-> Tables.groups]
    BY <1>1 DEF After, Decide
  <1>8. TablesInv(After, started, now)
    BY <1>1, <1>5, <1>6, <1>7, TasksChanged
  <1>9. Follows(Tables, After)
    BY <1>1, <1>5, <1>6, <1>7, FollowsTask
  <1>10. Save(After) /\ After.tasks = tasks'
    BY DEF Save, After
  <1>11. WorkerOK'
    BY <1>9, <1>10, WorkerKept DEF Decide
  <1> QED
    BY <1>8, <1>9, <1>10, <1>11, Saved DEF Part, Decide
-----------------------------------------------------------------------------
(* The worker.                                                              *)

LEMMA TasksStep ==
    ASSUME TasksInv, tasks' \in Seq(TaskRecords), Len(tasks') = Len(tasks),
           \A i \in 1 .. Len(tasks) : Keeps(tasks[i], tasks'[i]) /\ TaskInv(tasks'[i]),
           UNCHANGED <<groups, order, calls, cases, current, now, changes, started>>,
           faults' \in Nat, auto' \in BOOLEAN, WorkerOK'
    PROVE  TasksInv'
  <1>1. TablesInv(Tables, started, now) /\ Tables.tasks = tasks /\ Tables.groups = groups
    BY DEF TasksInv, Tables
  <1>2. After = [tasks |-> tasks', groups |-> Tables.groups]
    BY <1>1 DEF After
  <1>3. TablesInv(After, started', now')
    BY <1>1, <1>2, TasksChanged
  <1>4. /\ cases' \subseteq Formats /\ {now', faults', changes'} \subseteq Nat /\ now' <= MaxTime
        /\ current' \in BOOLEAN /\ auto' \in BOOLEAN
    BY DEF TasksInv, TasksTypeOK
  <1> QED
    BY <1>3, <1>4, TablesStep

LEMMA SweptKept ==
    ASSUME NEW i \in Ids, NEW expired, tasks[i] \in TaskRecords, TaskInv(tasks[i])
    PROVE  /\ Swept(i, expired) \in TaskRecords
           /\ Keeps(tasks[i], Swept(i, expired)) /\ TaskInv(Swept(i, expired))
  <1>1. CASE Allowed(tasks[i])
    <2> DEFINE u == [tasks[i] EXCEPT !.status = "BLOCKED", !.limit = ~HasBudget]
    <2>1. Swept(i, expired) = u
      BY <1>1 DEF Swept
    <2>2. (~HasBudget) \in BOOLEAN /\ tasks[i].status = "PENDING"
      BY <1>1 DEF Allowed
    <2>3. u \in TaskRecords
      BY <2>2 DEF TaskRecords, Statuses
    <2>4. Keeps(tasks[i], u) /\ TaskInv(u)
      BY <2>2 DEF TaskRecords, Keeps, TaskInv, Unsent, Open
    <2> QED
      BY <2>1, <2>3, <2>4
  <1>2. CASE ~ Allowed(tasks[i]) /\ tasks[i].status = "RUNNING" /\ i \in expired
    <2> DEFINE u == [tasks[i] EXCEPT !.status = "FAILED"]
    <2>1. Swept(i, expired) = u
      BY <1>2 DEF Swept
    <2>2. u \in TaskRecords /\ Keeps(tasks[i], u) /\ TaskInv(u)
      BY <1>2 DEF TaskRecords, Keeps, TaskInv, Unsent, Open, Statuses
    <2> QED
      BY <2>1, <2>2
  <1>3. CASE ~ Allowed(tasks[i]) /\ ~ (tasks[i].status = "RUNNING" /\ i \in expired)
    BY <1>3 DEF Swept, Keeps
  <1> QED
    BY <1>1, <1>2, <1>3

(* A task is started: its start is added to the history.                    *)
LEMMA TaskStarted ==
    ASSUME NEW db, NEW st, NEW time \in Nat, TablesInv(db, st, time),
           NEW c \in 1 .. Len(db.tasks), db.tasks[c].status = "PENDING",
           NEW us \in Seq(TaskRecords), Len(us) = Len(db.tasks),
           us[c].status = "RUNNING", us[c].attempts = 1, us[c].draft = "none",
           us[c].case = db.tasks[c].case, us[c].role = db.tasks[c].role,
           us[c].pinned <=> db.tasks[c].pinned, us[c].evidence = db.tasks[c].evidence,
           us[c].automatic <=> db.tasks[c].automatic,
           \A i \in 1 .. Len(us) : i # c => us[i] = db.tasks[i]
    PROVE  TablesInv([tasks |-> us, groups |-> db.groups], st \cup {[task |-> c, at |-> time]}, time)
  <1> DEFINE ts == db.tasks
             new == [task |-> c, at |-> time]
             all == st \cup {new}
  <1>1. /\ ts \in Seq(TaskRecords) /\ Len(ts) \in Nat
        /\ db.groups \in [Formats -> GroupRecords \cup {None}]
        /\ \A i \in 1 .. Len(ts) : TaskInv(ts[i])
        /\ StartsInv(ts, st, time)
        /\ \A f \in Formats : FormatInv(ts, f, db.groups[f], st, time)
    BY TablesParts DEF TablesInv
  <1>2. ts[c].attempts = 0 /\ TaskInv(us[c])
    BY <1>1 DEF TaskInv
  <1>3. /\ new.task = c /\ new.at = time /\ new \in [task : 1 .. Len(ts), at : Nat]
        /\ \A s \in all : s = new \/ s \in st
        /\ \A s \in st : s.task # c /\ s.at \in Nat /\ s.at <= time
    BY <1>1, <1>2 DEF StartsInv
  <1> HIDE DEF ts, new, all
  <1>4. /\ \A i \in 1 .. Len(ts) : /\ us[i].case = ts[i].case /\ us[i].role = ts[i].role
                                   /\ us[i].pinned <=> ts[i].pinned
                                   /\ us[i].automatic <=> ts[i].automatic
                                   /\ us[i].evidence = ts[i].evidence
                                   /\ us[i].status \in Open <=> ts[i].status \in Open
                                   /\ i # c => us[i] = ts[i]
        /\ Len(us) = Len(ts) /\ c \in 1 .. Len(ts) /\ ts[c].status = "PENDING"
    BY DEF ts, Open
  <1>5. StartsInv(us, all, time)
    <2>1. IsFiniteSet(all)
      BY <1>1, FS_AddElement DEF StartsInv, all
    <2>2. \A s \in all : s \in [task : 1 .. Len(us), at : Nat] /\ s.at <= time
      BY <1>1, <1>3, <1>4 DEF StartsInv
    <2>3. \A s, r \in all : s.task = r.task => s = r
      BY <1>1, <1>3 DEF StartsInv
    <2>4. ASSUME NEW i \in 1 .. Len(us) PROVE us[i].attempts > 0 <=> \E s \in all : s.task = i
      <3>1. CASE i = c
        BY <1>3, <3>1 DEF all
      <3>2. CASE i # c
        <4>1. us[i] = ts[i] /\ (ts[i].attempts > 0 <=> \E s \in st : s.task = i)
          BY <1>1, <1>4, <3>2 DEF StartsInv
        <4>2. (\E s \in all : s.task = i) <=> (\E s \in st : s.task = i)
          BY <1>3, <3>2 DEF all
        <4> QED
          BY <4>1, <4>2
      <3> QED
        BY <3>1, <3>2
    <2> QED
      BY <2>1, <2>2, <2>3, <2>4 DEF StartsInv
  <1>6. ASSUME NEW f \in Formats PROVE FormatInv(us, f, db.groups[f], all, time)
    <2> DEFINE g == db.groups[f]
               P == ProposalsIn(ts, f)
    <2>1. FormatInv(ts, f, g, st, time) /\ g \in GroupRecords \cup {None}
      BY <1>1
    <2> HIDE DEF g
    <2>2. ProposalsIn(us, f) = P /\ P \subseteq 1 .. Len(ts)
      BY <1>4 DEF ProposalsIn
    <2>3. AllAutomatic(us, f) <=> AllAutomatic(ts, f)
      BY <1>4, <2>2 DEF AllAutomatic
    <2> HIDE DEF P
    <2>4. OpenInv(us, f)
      BY <1>4, <2>1 DEF FormatInv, OpenInv
    <2>5. \A i \in P : i = c /\ ts[i].pinned =>
             /\ g # None /\ g.task = c
             /\ \A k \in P : ts[k].pinned => k <= c
      BY <1>4, <2>1, <2>2 DEF FormatInv, GroupInv, PointerInv, P, Open
    <2>6. RetryInv(us, f, all, time)
      <3> SUFFICES ASSUME NEW i \in P, NEW k \in P, i < k, us[i].attempts > 0, AllAutomatic(us, f)
                   PROVE  /\ us[i].evidence < us[k].evidence
                          /\ \A s \in all : s.task = i =>
                                /\ s.at + RetryDelay <= time
                                /\ \A r \in all : r.task = k => s.at + RetryDelay <= r.at
        BY <2>2, Zenon DEF RetryInv
      <3>1. i # c
        <4> SUFFICES ASSUME i = c PROVE FALSE
          OBVIOUS
        <4>1. ts[i].automatic /\ ts[k].automatic
          BY <2>3 DEF AllAutomatic, P
        <4>2. ts[i].pinned /\ ts[k].pinned
          BY <1>1, <2>2, <4>1 DEF TaskInv
        <4>3. k <= c /\ c < k
          BY <2>5, <4>2
        <4> QED
          BY <1>4, <2>2, <4>3
      <3>2. /\ ts[i].evidence < ts[k].evidence
            /\ \A s \in st : s.task = i =>
                  /\ s.at + RetryDelay <= time
                  /\ \A r \in st : r.task = k => s.at + RetryDelay <= r.at
        BY <1>4, <2>1, <2>2, <2>3, <3>1 DEF FormatInv, RetryInv, P
      <3>3. ASSUME NEW s \in all, s.task = i
            PROVE  /\ s.at + RetryDelay <= time
                   /\ \A r \in all : r.task = k => s.at + RetryDelay <= r.at
        <4>1. s \in st
          BY <1>3, <3>1, <3>3
        <4> QED
          BY <1>3, <3>2, <3>3, <4>1
      <3> QED
        BY <1>4, <2>2, <3>2, <3>3
    <2>7. CASE g = None
      BY <1>4, <2>1, <2>2, <2>4, <2>6, <2>7 DEF FormatInv, P, g
    <2>8. CASE g # None
      <3>1. PointerInv(ts, f, g) /\ EvidenceInv(ts, g, st) /\ CountInv(ts, f, g)
        BY <2>1, <2>8 DEF FormatInv, GroupInv
      <3>2. g.task # 0 => g.task \in P
        BY <3>1 DEF PointerInv, P
      <3>3. PointerInv(us, f, g)
        <4>1. g.refunded # 0 => Unsent(us[g.refunded])
          <5>1. g.refunded # 0 => g.refunded \in P /\ Unsent(ts[g.refunded])
            BY <3>1 DEF PointerInv, P
          <5>2. g.refunded # 0 => g.refunded # c
            BY <1>4, <5>1 DEF Unsent
          <5> QED
            BY <1>4, <2>2, <5>1, <5>2
        <4>2. \A i \in P : ts[i].pinned => g.task \in P
          <5>1. \A i \in P : ts[i].pinned => i <= g.task
            BY <3>1 DEF PointerInv, P
          <5>2. \A i \in P : ~ (i <= 0)
            BY <2>2
          <5> QED
            BY <3>2, <5>1, <5>2
        <4>3. \A i \in P : us[i].pinned =>
                  /\ i <= g.task /\ us[g.task].pinned
                  /\ us[i].status \in Open => i = g.task
                  /\ \A k \in P : us[k].status \in Open => us[k].pinned
          BY <1>4, <2>2, <3>1, <4>2 DEF PointerInv, P
        <4> QED
          BY <2>2, <3>1, <4>1, <4>3 DEF PointerInv, P
      <3>4. EvidenceInv(us, g, all)
        <4> SUFFICES ASSUME g.task # 0, us[g.task].pinned
                     PROVE  /\ g.asked = us[g.task].evidence
                            /\ us[g.task].status \in Open => g.next = None
                            /\ g.next # None => \A s \in all : s.task = g.task
                                                              => s.at + RetryDelay <= g.next
          BY <3>1 DEF EvidenceInv
        <4>1. g.task \in 1 .. Len(ts) /\ ts[g.task].pinned
          BY <1>4, <2>2, <3>2
        <4>2. /\ g.asked = ts[g.task].evidence
              /\ ts[g.task].status \in Open => g.next = None
              /\ g.next # None => \A s \in st : s.task = g.task => s.at + RetryDelay <= g.next
          BY <3>1, <4>1 DEF EvidenceInv
        <4>3. g.task = c => g.next = None
          BY <1>4, <4>2 DEF Open
        <4>4. g.task # c => \A s \in all : s.task = g.task => s \in st
          BY <1>3
        <4> QED
          BY <1>4, <4>1, <4>2, <4>3, <4>4
      <3>5. Counted(us, f, g) = Counted(ts, f, g)
        <4>1. ASSUME NEW i \in P
              PROVE  i \in Counted(us, f, g) <=> i \in Counted(ts, f, g)
          <5>1. CASE i # c
            BY <1>4, <2>2, <4>1, <5>1 DEF Counted, P
          <5>2. CASE i = c /\ ts[i].pinned
            <6>1. i = g.task
              BY <2>5, <4>1, <5>2
            <6>2. i # g.refunded
              BY <1>4, <2>2, <3>1, <4>1, <5>2 DEF PointerInv, Unsent
            <6> QED
              BY <1>4, <2>2, <4>1, <5>2, <6>1, <6>2 DEF Counted, P
          <5>3. CASE i = c /\ ~ ts[i].pinned
            BY <1>4, <2>2, <4>1, <5>3 DEF Counted, P
          <5> QED
            BY <5>1, <5>2, <5>3
        <4>2. Counted(us, f, g) \subseteq P /\ Counted(ts, f, g) \subseteq P
          BY <2>2 DEF Counted, P
        <4> QED
          BY <4>1, <4>2
      <3>6. CountedAlone(us, f, g) = CountedAlone(ts, f, g)
        <4>1. Counted(ts, f, g) \subseteq 1 .. Len(ts)
          BY <2>2 DEF Counted, P
        <4> QED
          BY <1>4, <3>5, <4>1 DEF CountedAlone
      <3>7. CountInv(us, f, g)
        BY <3>1, <3>5, <3>6 DEF CountInv
      <3> QED
        BY <2>4, <2>6, <2>8, <3>3, <3>4, <3>7 DEF FormatInv, GroupInv, g
    <2> QED
      BY <2>7, <2>8 DEF g
  <1>7. \A i \in 1 .. Len(us) : TaskInv(us[i])
    BY <1>1, <1>2, <1>4
  <1> DEFINE e == [tasks |-> us, groups |-> db.groups]
  <1>8. e \in AllTables /\ e.tasks = us /\ e.groups = db.groups
    BY <1>1 DEF AllTables
  <1> HIDE DEF e
  <1>9. TablesInv(e, all, time)
    BY <1>5, <1>6, <1>7, <1>8 DEF TablesInv
  <1> QED
    BY <1>9 DEF e, all, new

LEMMA RowsTyped ==
    ASSUME TasksInv
    PROVE  /\ TablesInv(Tables, started, now) /\ Tables.tasks = tasks /\ Tables.groups = groups
           /\ Tables \in AllTables /\ tasks \in Seq(TaskRecords) /\ Len(tasks) \in Nat
           /\ Ids = 1 .. Len(tasks) /\ now \in Nat
           /\ \A i \in Ids : tasks[i] \in TaskRecords /\ TaskInv(tasks[i])
  <1>1. /\ TablesInv(Tables, started, now) /\ Tables.tasks = tasks /\ Tables.groups = groups
        /\ now \in Nat
    BY DEF TasksInv, TasksTypeOK, Tables
  <1>2. Tables \in AllTables
    BY <1>1 DEF TablesInv
  <1> QED
    BY <1>1, <1>2, TablesParts DEF Ids, TablesInv

(* The call is paid for in the day of the start, once.                      *)
LEMMA BudgetKept ==
    ASSUME TasksInv, NEW c \in Ids, tasks[c].attempts = 0, HasBudget,
           calls' = [calls EXCEPT ![Day(now)] = @ + 1],
           started' = started \cup {[task |-> c, at |-> now]}
    PROVE  calls' \in [0 .. Day(MaxTime) -> Nat] /\ BudgetInv'
  <1> DEFINE new == [task |-> c, at |-> now]
             On(st, d) == {s \in st : Day(s.at) = d}
  <1>1. /\ calls \in [0 .. Day(MaxTime) -> Nat] /\ DailyLimit \in Nat
        /\ \A d \in 0 .. Day(MaxTime) : Cardinality(On(started, d)) <= calls[d]
                                        /\ calls[d] <= DailyLimit
    BY TasksAssumption DEF TasksInv, TasksTypeOK, BudgetInv
  <1> DEFINE S == 0 .. Day(MaxTime)
             x == Day(now)
  <1>2. calls' \in [S -> Nat]
    <2>1. calls \in [S -> Nat] /\ calls' = [calls EXCEPT ![x] = calls[x] + 1]
      BY <1>1
    <2> HIDE DEF S, x
    <2>2. ASSUME NEW d \in S PROVE calls'[d] \in Nat
      BY <2>1
    <2> QED
      BY <2>1, <2>2
  <1>3. IsFiniteSet(started) /\ new \notin started
    <2>1. StartsInv(tasks, started, now)
      BY RowsTyped DEF TablesInv
    <2>2. \A s \in started : s.task # c
      BY <2>1, RowsTyped DEF StartsInv
    <2> QED
      BY <2>1, <2>2 DEF StartsInv
  <1>4. ASSUME NEW d \in 0 .. Day(MaxTime)
        PROVE  Cardinality(On(started', d)) <= calls'[d] /\ calls'[d] <= DailyLimit
    <2>1. On(started, d) \subseteq started /\ new \notin On(started, d)
      BY <1>3
    <2>2. IsFiniteSet(On(started, d)) /\ Cardinality(On(started, d)) \in Nat
      BY <1>3, <2>1, FS_Subset, FS_CardinalityType
    <2>3. CASE d = Day(now)
      <3>1. On(started', d) = On(started, d) \cup {new}
        BY <2>3
      <3> HIDE DEF On, new
      <3>2. Cardinality(On(started', d)) = Cardinality(On(started, d)) + 1
        <4>1. Cardinality(On(started, d) \cup {new}) = Cardinality(On(started, d)) + 1
          BY <2>1, <2>2, FS_AddElement
        <4> QED
          BY <3>1, <4>1
      <3>3. calls'[d] = calls[d] + 1 /\ calls[d] < DailyLimit /\ calls[d] \in Nat
        BY <1>1, <2>3 DEF HasBudget
      <3>4. Cardinality(On(started, d)) <= calls[d]
        BY <1>1
      <3> QED
        BY <1>1, <2>2, <3>2, <3>3, <3>4
    <2>4. CASE d # Day(now)
      <3>1. On(started', d) = On(started, d)
        BY <2>4
      <3>2. calls'[d] = calls[d]
        BY <1>1, <2>4
      <3> QED
        BY <1>1, <3>1, <3>2
    <2> QED
      BY <2>3, <2>4
  <1>5. BudgetInv'
    BY <1>4 DEF BudgetInv, Day
  <1> QED
    BY <1>2, <1>5

LEMMA NothingClaimed ==
    ASSUME TasksInv, NEW expired, worker.at = "claim",
           tasks' = [i \in Ids |-> Swept(i, expired)],
           worker' = [Idle EXCEPT !.at = "schedule"],
           UNCHANGED <<calls, started, groups, order, env>>
    PROVE  TasksInv'
  <1>1. \A i \in Ids : /\ tasks'[i] = Swept(i, expired) /\ tasks'[i] \in TaskRecords
                       /\ Keeps(tasks[i], tasks'[i]) /\ TaskInv(tasks'[i])
    BY SweptKept, RowsTyped
  <1>2. tasks' = [i \in 1 .. Len(tasks) |-> tasks'[i]]
    BY RowsTyped
  <1>3. tasks' \in Seq(TaskRecords) /\ Len(tasks') = Len(tasks)
    BY <1>1, <1>2, RowsTyped, ByRow
  <1>4. WorkerOK'
    BY WorkerRests DEF Idle, Workers
  <1>5. faults' \in Nat /\ auto' \in BOOLEAN
    BY DEF TasksInv, TasksTypeOK, env
  <1> QED
    BY <1>1, <1>3, <1>4, <1>5, RowsTyped, TasksStep DEF env

\* The rows before the claimed one are swept, then that one is started.
LEMMA OneClaimed ==
    ASSUME TasksInv, NEW expired, worker.at = "claim",
           NEW c \in Ids, Allowed(tasks[c]), HasBudget,
           tasks' = [i \in Ids |->
                     IF i < c THEN Swept(i, expired)
                     ELSE IF i = c
                     THEN [tasks[c] EXCEPT !.status = "RUNNING", !.attempts = @ + 1]
                     ELSE tasks[i]],
           calls' = [calls EXCEPT ![Day(now)] = @ + 1],
           worker' = [Idle EXCEPT !.at = "ask", !.task = c],
           started' = started \cup {[task |-> c, at |-> now]},
           UNCHANGED <<groups, order, env>>
    PROVE  TasksInv'
  <1> DEFINE vs == [i \in 1 .. Len(tasks) |-> IF i < c THEN Swept(i, expired) ELSE tasks[i]]
             u == [tasks[c] EXCEPT !.status = "RUNNING", !.attempts = @ + 1]
             db == [tasks |-> vs, groups |-> groups]
  <1>1. /\ Ids = 1 .. Len(tasks) /\ Len(tasks) \in Nat /\ now \in Nat
        /\ tasks[c] \in TaskRecords /\ TaskInv(tasks[c]) /\ tasks[c].status = "PENDING"
        /\ tasks[c].attempts = 0 /\ tasks[c].draft = "none"
    BY RowsTyped DEF Allowed, TaskInv
  <1>2. \A i \in 1 .. Len(tasks) : /\ vs[i] = IF i < c THEN Swept(i, expired) ELSE tasks[i]
                                   /\ vs[i] \in TaskRecords
                                   /\ Keeps(tasks[i], vs[i]) /\ TaskInv(vs[i])
    <2>1. \A i \in 1 .. Len(tasks) :
             /\ Swept(i, expired) \in TaskRecords
             /\ Keeps(tasks[i], Swept(i, expired)) /\ TaskInv(Swept(i, expired))
      BY <1>1, SweptKept, RowsTyped
    <2>2. \A i \in 1 .. Len(tasks) :
             tasks[i] \in TaskRecords /\ Keeps(tasks[i], tasks[i]) /\ TaskInv(tasks[i])
      BY <1>1, RowsTyped DEF Keeps
    <2> QED
      BY <2>1, <2>2
  <1>3. vs = [i \in 1 .. Len(tasks) |-> vs[i]]
    OBVIOUS
  <1>4. /\ u \in TaskRecords /\ u.status = "RUNNING" /\ u.attempts = 1 /\ u.draft = "none"
        /\ u.case = tasks[c].case /\ u.role = tasks[c].role
        /\ u.pinned <=> tasks[c].pinned
        /\ u.automatic <=> tasks[c].automatic
        /\ u.evidence = tasks[c].evidence
    <2>1. tasks[c].attempts + 1 = 1 /\ tasks[c].attempts + 1 \in Nat
      BY <1>1
    <2>2. u \in TaskRecords
      BY <1>1, <2>1 DEF TaskRecords, Statuses, Open
    <2>3. /\ u.status = "RUNNING" /\ u.attempts = 1 /\ u.draft = "none"
          /\ u.case = tasks[c].case /\ u.role = tasks[c].role
          /\ u.evidence = tasks[c].evidence
      BY <1>1, <2>1 DEF TaskRecords
    <2>4. u.pinned = tasks[c].pinned /\ u.automatic = tasks[c].automatic
      BY <1>1 DEF TaskRecords
    <2> QED
      BY <2>2, <2>3, <2>4
  <1>5. /\ \A i \in 1 .. Len(tasks) : tasks'[i] = IF i = c THEN u ELSE vs[i]
        /\ tasks' = [i \in 1 .. Len(tasks) |-> tasks'[i]]
    <2>1. \A i \in 1 .. Len(tasks) : i = c => ~ (i < c)
      BY <1>1
    <2> QED
      BY <1>1, <1>2, <2>1
  <1> HIDE DEF vs, u
  <1>6. vs \in Seq(TaskRecords) /\ Len(vs) = Len(tasks)
    BY <1>1, <1>2, <1>3, ByRow
  <1>7. tasks' \in Seq(TaskRecords) /\ Len(tasks') = Len(tasks)
    <2>1. \A i \in 1 .. Len(tasks) : tasks'[i] \in TaskRecords
      BY <1>2, <1>4, <1>5
    <2> QED
      BY <1>1, <1>5, <2>1, ByRow
  <1>8. TablesInv(db, started, now)
    <2>1. \A i \in 1 .. Len(vs) : Keeps(Tables.tasks[i], vs[i]) /\ TaskInv(vs[i])
      BY <1>2, <1>6, RowsTyped
    <2>2. db = [tasks |-> vs, groups |-> Tables.groups]
      BY RowsTyped
    <2> QED
      BY <1>6, <2>1, <2>2, RowsTyped, TasksChanged
  <1>9. db.tasks = vs /\ db.groups = groups /\ vs[c] = tasks[c]
    BY <1>1, <1>2
  <1> HIDE DEF db
  <1>10. TablesInv([tasks |-> tasks', groups |-> db.groups],
                   started \cup {[task |-> c, at |-> now]}, now)
    <2>1. tasks'[c] = u
      BY <1>1, <1>5
    <2>2. \A i \in 1 .. Len(tasks') : i # c => tasks'[i] = db.tasks[i]
      BY <1>5, <1>7, <1>9
    <2>3. c \in 1 .. Len(db.tasks) /\ Len(tasks') = Len(db.tasks)
      BY <1>1, <1>6, <1>7, <1>9
    <2>4. /\ tasks'[c].status = "RUNNING" /\ tasks'[c].attempts = 1 /\ tasks'[c].draft = "none"
          /\ tasks'[c].case = db.tasks[c].case /\ tasks'[c].role = db.tasks[c].role
          /\ tasks'[c].evidence = db.tasks[c].evidence
          /\ db.tasks[c].status = "PENDING"
      BY <1>1, <1>4, <1>9, <2>1
    <2>5. /\ tasks'[c].pinned <=> db.tasks[c].pinned
          /\ tasks'[c].automatic <=> db.tasks[c].automatic
      BY <1>4, <1>9, <2>1
    <2> QED
      BY <1>1, <1>7, <1>8, <2>2, <2>3, <2>4, <2>5, TaskStarted
  <1>11. TablesInv(After, started', now')
    BY <1>9, <1>10 DEF After, env
  <1>12. calls' \in [0 .. Day(MaxTime) -> Nat] /\ BudgetInv'
    BY <1>1, BudgetKept
  <1>13. WorkerOK'
    <2>1. /\ worker'.at = "ask" /\ worker'.task = c /\ worker'.result = "none"
          /\ worker' \in Workers
      <3>1. c \in Nat
        BY <1>1
      <3>2. worker' = [at |-> "ask", task |-> c, result |-> "none"]
        BY DEF Idle
      <3> DEFINE w == [at |-> "ask", task |-> c, result |-> "none"]
      <3>3. w \in Workers
        BY <3>1 DEF Workers
      <3>4. w.at = "ask" /\ w.task = c /\ w.result = "none"
        OBVIOUS
      <3>5. worker' = w
        BY <3>2
      <3> HIDE DEF w
      <3> QED
        BY <3>3, <3>4, <3>5
    <2>2. c \in Ids' /\ tasks'[c].status = "RUNNING"
      BY <1>1, <1>4, <1>5, <1>7 DEF Ids
    <2> QED
      BY <2>1, <2>2 DEF WorkerOK, WorkerInv
  <1>14. /\ order' \in Seq(Formats)
         /\ \A f \in Formats : groups'[f] # None <=> \E n \in 1 .. Len(order') : order'[n] = f
         /\ cases' \subseteq Formats /\ {now', faults', changes'} \subseteq Nat /\ now' <= MaxTime
         /\ current' \in BOOLEAN /\ auto' \in BOOLEAN
    BY DEF TasksInv, TasksTypeOK, env
  <1> QED
    BY <1>11, <1>12, <1>13, <1>14, Assembled

LEMMA ClaimKeeps ==
    ASSUME TasksInv, NEW expired, ClaimTask(expired)
    PROVE  TasksInv'
  <1> DEFINE c == Min(Claimable(expired))
  <1>1. CASE Claimable(expired) = {}
    BY <1>1, NothingClaimed DEF ClaimTask
  <1>2. CASE Claimable(expired) # {}
    <2>1. Claimable(expired) \in SUBSET Nat
      BY RowsTyped DEF Claimable
    <2>2. c \in Claimable(expired)
      BY <1>2, <2>1, HasMin
    <2>3. c \in Ids /\ Allowed(tasks[c]) /\ HasBudget
      BY <2>2 DEF Claimable
    <2> QED
      BY <1>2, <2>3, OneClaimed DEF ClaimTask
  <1> QED
    BY <1>1, <1>2

\* Only the worker changes.
LEMMA WorkerStep ==
    ASSUME TasksInv, WorkerOK',
           UNCHANGED <<tasks, groups, order, calls, cases, current, auto, now, changes, started>>,
           faults' \in Nat
    PROVE  TasksInv'
  <1>1. \A i \in 1 .. Len(tasks) : Keeps(tasks[i], tasks'[i]) /\ TaskInv(tasks'[i])
    BY RowsTyped DEF Keeps
  <1>2. auto' \in BOOLEAN
    BY DEF TasksInv, TasksTypeOK
  <1> QED
    BY <1>1, <1>2, RowsTyped, TasksStep

LEMMA AskKeeps == ASSUME TasksInv, Ask PROVE TasksInv'
  <1>1. /\ worker \in Workers /\ worker.at = "ask" /\ worker.task \in Ids
        /\ worker.task # 0 => tasks[worker.task].status = "RUNNING"
        /\ faults \in Nat
    BY DEF TasksInv, TasksTypeOK, WorkerInv, Ask
  <1>2. PICK answer \in Answers(tasks[worker.task].role) :
           IF answer = "useless" \/ ~Granted(tasks[worker.task]) THEN Then("finish", "FAILED")
           ELSE IF answer = "proposal" THEN Then("propose", "none")
           ELSE Then("finish", "SUCCEEDED")
    BY DEF Ask
  <1>3. \/ Then("finish", "FAILED") \/ Then("finish", "SUCCEEDED")
        \/ Then("propose", "none") /\ tasks[worker.task].role = "adapter"
    BY <1>2 DEF Answers
  <1>4. /\ UNCHANGED <<tasks, groups, order, calls, env, started>>
        /\ \E at \in {"finish", "propose"}, result \in {"none", "SUCCEEDED", "FAILED"} :
              /\ worker' = [worker EXCEPT !.at = at, !.result = result]
              /\ at = "propose" => tasks[worker.task].role = "adapter"
              /\ at = "finish" => result # "none"
    BY <1>3 DEF Then
  <1>5. PICK at \in {"finish", "propose"}, result \in {"none", "SUCCEEDED", "FAILED"} :
           /\ worker' = [worker EXCEPT !.at = at, !.result = result]
           /\ at = "propose" => tasks[worker.task].role = "adapter"
           /\ at = "finish" => result # "none"
    BY <1>4
  <1>6. /\ worker' \in Workers /\ worker'.at = at /\ worker'.result = result
        /\ worker'.task = worker.task
    BY <1>1, <1>5 DEF Workers
  <1>7. WorkerOK'
    BY <1>1, <1>4, <1>5, <1>6 DEF WorkerOK, WorkerInv, Ids
  <1> QED
    BY <1>1, <1>4, <1>7, WorkerStep DEF env

\* The row of the worker's task, when only that changes.
LEMMA RowStep ==
    ASSUME TasksInv, NEW c \in Ids, NEW u \in TaskRecords, tasks' = [tasks EXCEPT ![c] = u],
           Keeps(tasks[c], u), TaskInv(u), UNCHANGED <<groups, order, calls, env, started>>,
           WorkerOK'
    PROVE  TasksInv'
  <1>1. /\ tasks' \in Seq(TaskRecords) /\ Len(tasks') = Len(tasks) /\ tasks'[c] = u
        /\ \A i \in 1 .. Len(tasks) : i # c => tasks'[i] = tasks[i]
    BY RowsTyped, Replaced
  <1>2. \A i \in 1 .. Len(tasks) : Keeps(tasks[i], tasks'[i]) /\ TaskInv(tasks'[i])
    BY <1>1, RowsTyped DEF Keeps
  <1>3. faults' \in Nat /\ auto' \in BOOLEAN
    BY DEF TasksInv, TasksTypeOK, env
  <1> QED
    BY <1>1, <1>2, <1>3, TasksStep DEF env

LEMMA AtWork ==
    ASSUME TasksInv, worker.at \in {"ask", "propose", "finish"}
    PROVE  /\ worker \in Workers /\ worker.task \in Ids
           /\ tasks[worker.task] \in TaskRecords /\ TaskInv(tasks[worker.task])
           /\ tasks[worker.task].status = "RUNNING" /\ tasks[worker.task].attempts = 1
  <1>1. worker.task \in Ids /\ worker \in Workers
    BY DEF TasksInv, TasksTypeOK, WorkerInv
  <1>2. worker.task # 0 /\ tasks[worker.task] \in TaskRecords /\ TaskInv(tasks[worker.task])
    BY <1>1, RowsTyped
  <1>3. tasks[worker.task].status = "RUNNING"
    BY <1>2 DEF TasksInv, TasksTypeOK
  <1> QED
    BY <1>1, <1>2, <1>3 DEF TaskInv, TaskRecords

LEMMA StoreDraftKeeps == ASSUME TasksInv, StoreDraft PROVE TasksInv'
  <1> DEFINE c == worker.task
             u == [tasks[c] EXCEPT !.draft = "DRAFT"]
             done == IF Granted(tasks[c]) THEN "SUCCEEDED" ELSE "FAILED"
  <1>1. /\ worker \in Workers /\ c \in Ids /\ tasks[c] \in TaskRecords /\ TaskInv(tasks[c])
        /\ tasks[c].status = "RUNNING" /\ tasks[c].attempts = 1
    BY AtWork DEF StoreDraft
  <1>2. /\ u \in TaskRecords /\ Keeps(tasks[c], u) /\ TaskInv(u) /\ u.status = "RUNNING"
        /\ u.role = tasks[c].role
    BY <1>1 DEF TaskRecords, Drafts, Keeps, TaskInv, Unsent
  <1>3. /\ worker' = [worker EXCEPT !.at = "finish", !.result = done]
        /\ tasks' = IF Granted(tasks[c]) THEN [tasks EXCEPT ![c] = u] ELSE tasks
        /\ UNCHANGED <<groups, order, calls, env, started>>
    BY DEF StoreDraft
  <1>4. /\ worker' \in Workers /\ worker'.at = "finish" /\ worker'.task = c
        /\ worker'.result # "none"
    BY <1>1, <1>3 DEF Workers
  <1> HIDE DEF u, done
  <1>5. CASE Granted(tasks[c])
    <2>1. tasks' = [tasks EXCEPT ![c] = u] /\ Len(tasks') = Len(tasks) /\ tasks'[c] = u
      BY <1>1, <1>2, <1>3, <1>5, RowsTyped
    <2>2. WorkerOK'
      BY <1>1, <1>2, <1>4, <2>1 DEF WorkerOK, WorkerInv, Ids
    <2> QED
      BY <1>1, <1>2, <1>3, <2>1, <2>2, RowStep
  <1>6. CASE ~ Granted(tasks[c])
    <2>1. tasks' = tasks /\ faults \in Nat
      BY <1>3, <1>6 DEF TasksInv, TasksTypeOK
    <2>2. WorkerOK'
      BY <1>1, <1>4, <2>1 DEF WorkerOK, WorkerInv, Ids
    <2> QED
      BY <1>3, <2>1, <2>2, WorkerStep DEF env
  <1> QED
    BY <1>5, <1>6

LEMMA FinishKeeps == ASSUME TasksInv, FinishTask PROVE TasksInv'
  <1> DEFINE c == worker.task
             u == [tasks[c] EXCEPT !.status = worker.result]
  <1>1. /\ worker \in Workers /\ c \in Ids /\ tasks[c] \in TaskRecords /\ TaskInv(tasks[c])
        /\ tasks[c].status = "RUNNING" /\ tasks[c].attempts = 1
    BY AtWork DEF FinishTask
  <1>2. worker.result \in {"SUCCEEDED", "FAILED"}
    BY <1>1 DEF TasksInv, WorkerInv, FinishTask, Workers
  <1>3. u \in TaskRecords /\ Keeps(tasks[c], u) /\ TaskInv(u)
    BY <1>1, <1>2 DEF TaskRecords, Statuses, Open, Keeps, TaskInv, Unsent
  <1>4. tasks' = [tasks EXCEPT ![c] = u] /\ UNCHANGED <<groups, order, calls, env, started>>
    BY DEF FinishTask
  <1>5. WorkerOK'
    BY WorkerRests DEF FinishTask, Idle, Workers
  <1> HIDE DEF u
  <1> QED
    BY <1>1, <1>3, <1>4, <1>5, RowStep

LEMMA AccessFailsKeeps == ASSUME TasksInv, AccessFails PROVE TasksInv'
  <1>1. /\ UNCHANGED <<tasks, groups, order, calls, cases, current, auto, now, changes, started>>
        /\ faults' \in Nat
    BY DEF AccessFails, TasksInv, TasksTypeOK
  <1>2. CASE worker' = Idle
    <2>1. WorkerOK'
      BY <1>2, WorkerRests DEF Idle, Workers
    <2> QED
      BY <1>1, <2>1, WorkerStep
  <1>3. CASE /\ worker.at \in {"propose", "finish"}
             /\ worker' = [worker EXCEPT !.at = "finish", !.result = "FAILED"]
    <2>1. worker \in Workers /\ worker.task \in Ids /\ tasks[worker.task].status = "RUNNING"
      BY <1>3, AtWork
    <2>2. /\ worker' \in Workers /\ worker'.at = "finish" /\ worker'.task = worker.task
          /\ worker'.result = "FAILED"
      BY <1>3, <2>1 DEF Workers
    <2>3. WorkerOK'
      BY <1>1, <2>1, <2>2 DEF WorkerOK, WorkerInv, Ids
    <2> QED
      BY <1>1, <2>3, WorkerStep
  <1> QED
    BY <1>2, <1>3 DEF AccessFails

LEMMA RestartKeeps == ASSUME TasksInv, Restart PROVE TasksInv'
  <1>1. /\ UNCHANGED <<groups, order, calls, cases, current, now, changes, started>>
        /\ faults' \in Nat /\ auto' \in BOOLEAN
    BY DEF Restart, TasksInv, TasksTypeOK
  <1>2. ASSUME NEW t \in TaskRecords, TaskInv(t), t.status = "RUNNING"
        PROVE  /\ [t EXCEPT !.status = "FAILED"] \in TaskRecords
               /\ Keeps(t, [t EXCEPT !.status = "FAILED"])
               /\ TaskInv([t EXCEPT !.status = "FAILED"])
    BY <1>2 DEF TaskRecords, Statuses, Open, Keeps, TaskInv, Unsent
  <1>3. tasks' = [i \in 1 .. Len(tasks) |->
                     IF tasks[i].status = "RUNNING" THEN [tasks[i] EXCEPT !.status = "FAILED"]
                     ELSE tasks[i]]
    BY RowsTyped DEF Restart, RecoverTasks
  <1>4. \A i \in 1 .. Len(tasks) : /\ tasks'[i] \in TaskRecords
                                   /\ Keeps(tasks[i], tasks'[i]) /\ TaskInv(tasks'[i])
    <2> SUFFICES ASSUME NEW i \in 1 .. Len(tasks)
                 PROVE  /\ tasks'[i] \in TaskRecords
                        /\ Keeps(tasks[i], tasks'[i]) /\ TaskInv(tasks'[i])
      OBVIOUS
    <2>1. tasks[i] \in TaskRecords /\ TaskInv(tasks[i])
      BY RowsTyped
    <2>2. CASE tasks[i].status = "RUNNING"
      <3>1. tasks'[i] = [tasks[i] EXCEPT !.status = "FAILED"]
        BY <1>3, <2>2
      <3> QED
        BY <1>2, <2>1, <2>2, <3>1
    <2>3. CASE tasks[i].status # "RUNNING"
      <3>1. tasks'[i] = tasks[i]
        BY <1>3, <2>3
      <3> QED
        BY <2>1, <3>1 DEF Keeps
    <2> QED
      BY <2>2, <2>3
  <1>5. tasks' \in Seq(TaskRecords) /\ Len(tasks') = Len(tasks)
    <2>1. tasks' = [i \in 1 .. Len(tasks) |-> tasks'[i]]
      BY <1>3
    <2> QED
      BY <1>4, <2>1, RowsTyped, ByRow
  <1>6. WorkerOK'
    BY WorkerRests DEF Restart, Idle, Workers
  <1> QED
    BY <1>1, <1>4, <1>5, <1>6, TasksStep
-----------------------------------------------------------------------------
LEMMA InitHolds == ASSUME TasksInit PROVE TasksInv
  <1>1. /\ tasks = <<>> /\ Len(tasks) = 0 /\ tasks \in Seq(TaskRecords) /\ 1 .. Len(tasks) = {}
        /\ order = <<>> /\ Len(order) = 0 /\ order \in Seq(Formats)
        /\ groups = [f \in Formats |-> None] /\ groups \in [Formats -> GroupRecords \cup {None}]
        /\ started = {} /\ now = 0
    BY DEF TasksInit
  <1>2. Day(MaxTime) \in Nat /\ calls = [d \in 0 .. Day(MaxTime) |-> 0] /\ MaxTime \in Nat
    BY TasksAssumption DEF TasksInit, Day
  <1>3. worker \in Workers /\ worker.task = 0 /\ worker.at = "idle"
    BY DEF TasksInit, Idle, Workers
  <1>4. TasksTypeOK
    <2>1. \A f \in Formats : groups[f] = None
      BY <1>1
    <2>2. ~ \E n \in 1 .. Len(order) : TRUE
      BY <1>1
    <2>3. calls \in [0 .. Day(MaxTime) -> Nat]
      BY <1>2
    <2>4. /\ cases \subseteq Formats /\ {now, faults, changes} \subseteq Nat
          /\ current \in BOOLEAN /\ auto \in BOOLEAN
      BY DEF TasksInit
    <2> QED
      BY <1>1, <1>3, <2>1, <2>2, <2>3, <2>4 DEF TasksTypeOK
  <1>5. TablesInv(Tables, started, now)
    <2>1. Tables \in AllTables /\ Tables.tasks = tasks /\ Tables.groups = groups
      BY <1>1 DEF Tables, AllTables
    <2>2. StartsInv(tasks, started, now)
      BY <1>1, FS_EmptySet DEF StartsInv
    <2>3. ASSUME NEW f \in Formats PROVE FormatInv(tasks, f, groups[f], started, now)
      <3>1. ProposalsIn(tasks, f) = {} /\ groups[f] = None
        BY <1>1 DEF ProposalsIn
      <3> QED
        BY <1>1, <3>1 DEF FormatInv, OpenInv, RetryInv
    <2> QED
      BY <1>1, <2>1, <2>2, <2>3 DEF TablesInv
  <1>6. BudgetInv
    <2>1. \A d \in 0 .. Day(MaxTime) : {s \in started : Day(s.at) = d} = {}
      BY <1>1
    <2>2. \A d \in 0 .. Day(MaxTime) : calls[d] = 0
      BY <1>2
    <2>3. DailyLimit \in Nat
      BY TasksAssumption
    <2>4. Cardinality({}) = 0 /\ 0 <= DailyLimit
      BY <2>3, FS_EmptySet
    <2> DEFINE On(d) == {s \in started : Day(s.at) = d}
    <2>5. \A d \in 0 .. Day(MaxTime) : Cardinality(On(d)) = 0
      BY <2>1, <2>4
    <2>6. \A d \in 0 .. Day(MaxTime) : Cardinality(On(d)) <= calls[d] /\ calls[d] <= DailyLimit
      <3> HIDE DEF On
      <3> QED
        BY <2>2, <2>4, <2>5
    <2> QED
      BY <2>6 DEF BudgetInv
  <1> QED
    BY <1>1, <1>2, <1>3, <1>4, <1>5, <1>6 DEF TasksInv, WorkerInv

LEMMA WorkKeeps == ASSUME TasksInv, Work PROVE TasksInv'
  BY BeginKeeps, AskKeeps, StoreDraftKeeps, FinishKeeps, EndKeeps, ClaimKeeps DEF Work

LEMMA StepKeeps == ASSUME TasksInv, [Next]_vars PROVE TasksInv'
  <1>1. CASE \E f \in Formats : Find(f) \/ Observe(f) \/ Investigate(f) \/ Request(f)
    BY <1>1, FindKeeps, ObserveKeeps, InvestigateKeeps, RequestKeeps
  <1>2. CASE \E i \in Ids : Decide(i)
    BY <1>2, DecideKeeps
  <1>3. CASE Schedule \/ Register \/ Tick
    BY <1>3, ScheduleKeeps, RegisterKeeps, TickKeeps
  <1>4. CASE Work \/ AccessFails \/ Restart
    BY <1>4, WorkKeeps, AccessFailsKeeps, RestartKeeps
  <1>5. CASE UNCHANGED vars
    <2>1. WorkerOK'
      BY <1>5 DEF vars, TasksInv, TasksTypeOK, WorkerOK, WorkerInv, Ids, Workers
    <2>2. faults \in Nat
      BY DEF TasksInv, TasksTypeOK
    <2> QED
      BY <1>5, <2>1, <2>2, WorkerStep DEF vars, env
  <1> QED
    BY <1>1, <1>2, <1>3, <1>4, <1>5 DEF Next

(* The inductive invariant holds in every state, whatever the numbers of    *)
(* formats, tasks, days and attempts and however transactions interleave.   *)
THEOREM TasksInvariant == Spec => []TasksInv
  <1>1. TasksInit => TasksInv
    BY InitHolds
  <1>2. TasksInv /\ [Next]_vars => TasksInv'
    BY StepKeeps
  <1> QED
    BY <1>1, <1>2, PTL DEF Spec

(* The tables have their types, a group points to tasks of its own case and *)
(* is in the order exactly if it exists, and the worker's task is RUNNING   *)
(* (the task and group rows of control/repository.py and discovery.py).     *)
THEOREM TasksTypes == Spec => []TasksTypeOK
  <1>1. TasksInv => TasksTypeOK
    BY DEF TasksInv
  <1> QED
    BY <1>1, TasksInvariant, PTL

(* No task is started twice, and a case never has two open tasks of a kind, *)
(* although people, the collecting thread and the worker all make tasks     *)
(* (enqueue, _queue, claim_task, recover_tasks).                            *)
THEOREM RequestsAreNotDuplicated == Spec => []NoDuplicateRequest
  <1>1. TasksInv => NoDuplicateRequest
    <2> SUFFICES ASSUME TasksInv PROVE NoDuplicateRequest
      OBVIOUS
    <2>1. \A i \in Ids : tasks[i].attempts <= 1
      BY RowsTyped DEF TaskInv
    <2>2. ASSUME NEW i \in Ids, NEW j \in Ids, {tasks[i].status, tasks[j].status} \subseteq Open,
                 tasks[i].case = tasks[j].case, tasks[i].role = tasks[j].role
          PROVE  i = j
      <3>1. tasks[i].case \in Formats
        BY RowsTyped DEF TaskRecords
      <3>2. OpenInv(tasks, tasks[i].case)
        BY <3>1, RowsTyped DEF TablesInv, FormatInv
      <3> QED
        BY <2>2, <3>2, RowsTyped DEF OpenInv
    <2> QED
      BY <2>1, <2>2 DEF NoDuplicateRequest
  <1> QED
    BY <1>1, TasksInvariant, PTL

(* No day has more starts than the daily limit, and no format more automatic *)
(* ones than the attempts, whatever was stopped, refunded, retried or lost in *)
(* a crash (claim_task, _refresh and _queue).                               *)
THEOREM StartsAreBounded == Spec => []CallsAreBounded
  <1>1. TasksInv => CallsAreBounded
    <2> SUFFICES ASSUME TasksInv PROVE CallsAreBounded
      OBVIOUS
    <2>1. ASSUME NEW d \in 0 .. Day(MaxTime)
          PROVE  Cardinality({s \in started : Day(s.at) = d}) <= DailyLimit
      <3> DEFINE S == {s \in started : Day(s.at) = d}
      <3>1. IsFiniteSet(S)
        <4>1. IsFiniteSet(started) /\ S \subseteq started
          BY RowsTyped DEF TablesInv, StartsInv
        <4> QED
          BY <4>1, FS_Subset
      <3>2. Cardinality(S) \in Nat
        BY <3>1, FS_CardinalityType
      <3>3. Cardinality(S) <= calls[d] /\ calls[d] <= DailyLimit /\ calls[d] \in Nat
        BY DEF TasksInv, TasksTypeOK, BudgetInv
      <3> HIDE DEF S
      <3>4. Cardinality(S) <= DailyLimit
        BY <3>2, <3>3, TasksAssumption
      <3> QED
        BY <3>4 DEF S
    <2>2. ASSUME NEW f \in Formats, groups[f] # None
          PROVE  LET Starts == {i \in Proposals(f) : IsStarted(i) /\ tasks[i].pinned}
                 IN  /\ Cardinality(Starts) <= groups[f].attempts
                     /\ Cardinality({i \in Starts : tasks[i].automatic}) <= MaxAttempts
      <3> DEFINE Starts == {i \in Proposals(f) : IsStarted(i) /\ tasks[i].pinned}
                 Alone == {i \in Starts : tasks[i].automatic}
                 C == Counted(tasks, f, groups[f])
                 A == CountedAlone(tasks, f, groups[f])
      <3>1. /\ CountInv(tasks, f, groups[f]) /\ tasks \in Seq(TaskRecords)
            /\ groups[f].attempts \in Nat
        <4>1. groups[f] \in GroupRecords
          BY <2>2 DEF TasksInv, TasksTypeOK
        <4> QED
          BY <2>2, <4>1, RowsTyped DEF TablesInv, FormatInv, GroupInv, GroupRecords
      <3>2. Starts \subseteq C /\ Alone \subseteq A
        BY DEF Counted, CountedAlone, Proposals, ProposalsIn, Ids, IsStarted
      <3>3. /\ IsFiniteSet(C) /\ IsFiniteSet(A)
            /\ Cardinality(C) \in Nat /\ Cardinality(A) \in Nat
        BY <3>1, CountedFinite
      <3>4. /\ Cardinality(Starts) <= Cardinality(C) /\ Cardinality(Alone) <= Cardinality(A)
            /\ Cardinality(Starts) \in Nat /\ Cardinality(Alone) \in Nat
        BY <3>2, <3>3, FS_Subset, FS_CardinalityType
      <3>5. Cardinality(C) <= groups[f].attempts /\ Cardinality(A) <= MaxAttempts
        BY <3>1 DEF CountInv
      <3> HIDE DEF Starts, Alone, C, A
      <3>6. Cardinality(Starts) <= groups[f].attempts
        BY <3>1, <3>3, <3>4, <3>5
      <3>7. Cardinality(Alone) <= MaxAttempts
        BY <3>3, <3>4, <3>5, TasksAssumption
      <3> QED
        BY <3>6, <3>7 DEF Starts, Alone
    <2> QED
      BY <2>1, <2>2 DEF CallsAreBounded
  <1> QED
    BY <1>1, TasksInvariant, PTL

(* Between two starts without a person's request there is new evidence and  *)
(* the waiting time, in all histories (_refresh, _retry, schedule and       *)
(* _queue of control/discovery.py).                                         *)
THEOREM RetriesAreEarned == Spec => []RetryIsEarned
  <1>1. TasksInv => RetryIsEarned
    <2> SUFFICES ASSUME TasksInv, NEW f \in Formats, NEW i \in Proposals(f), NEW j \in Proposals(f),
                        i < j, IsStarted(i), IsStarted(j),
                        \A k \in Proposals(f) : tasks[k].automatic
                 PROVE  /\ tasks[i].evidence < tasks[j].evidence
                        /\ StartOf(i) + RetryDelay <= StartOf(j)
      BY DEF RetryIsEarned
    <2>1. StartsInv(tasks, started, now) /\ RetryInv(tasks, f, started, now)
      BY RowsTyped DEF TablesInv, FormatInv
    <2>2. Proposals(f) = ProposalsIn(tasks, f) /\ AllAutomatic(tasks, f)
      BY DEF Proposals, ProposalsIn, AllAutomatic, Ids
    <2>3. ASSUME NEW k \in Proposals(f), IsStarted(k)
          PROVE  \E s \in started : s.task = k /\ s.at = StartOf(k)
      <3> DEFINE T == {s.at : s \in {r \in started : r.task = k}}
      <3>1. T \in SUBSET Nat
        BY <2>1 DEF StartsInv
      <3>2. T # {}
        <4>1. k \in 1 .. Len(tasks) /\ tasks[k].attempts > 0
          BY <2>3 DEF Proposals, Ids, IsStarted
        <4>2. PICK s \in started : s.task = k
          BY <2>1, <4>1 DEF StartsInv
        <4>3. s.at \in T
          BY <4>2
        <4> QED
          BY <4>3
      <3>3. Min(T) \in T
        BY <3>1, <3>2, HasMin
      <3>4. Min(T) = StartOf(k)
        BY DEF StartOf
      <3> QED
        BY <3>3, <3>4
    <2>4. PICK s \in started : s.task = i /\ s.at = StartOf(i)
      BY <2>3
    <2>5. PICK r \in started : r.task = j /\ r.at = StartOf(j)
      BY <2>3
    <2>6. tasks[i].attempts > 0
      BY DEF IsStarted
    <2> HIDE DEF Proposals
    <2> QED
      BY <2>1, <2>2, <2>4, <2>5, <2>6 DEF RetryInv
  <1> QED
    BY <1>1, TasksInvariant, PTL
=============================================================================
