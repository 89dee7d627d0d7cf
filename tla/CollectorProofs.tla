-------------------------- MODULE CollectorProofs --------------------------
(* Safety of collecting a file, proved for every number of inodes, cells,   *)
(* changes and failures, and every size of anchors and chunks.              *)
EXTENDS Collector, TLAPS, FiniteSetTheorems, SequenceTheorems, WellFoundedInduction

\* A cell that a truncation left may be read again; what follows is of the others.
InRaw(c) == c.id \notin kept /\ \E r \in raw : \E k \in 1 .. Len(r.cells) : r.cells[k] = c
InChunk(c) == c.id \notin kept /\ \E m \in 1 .. Len(poll.chunk) : poll.chunk[m] = c

(* No two cells are alike; what was written is older than what will be; a   *)
(* chunk was not collected yet.                                             *)
CellsInv ==
    /\ \A i, j \in Inodes : \A k \in 1 .. Len(content[i]), l \in 1 .. Len(content[j]) :
          content[i][k] = content[j][l] => i = j /\ k = l
    /\ \A i \in Inodes : \A k \in 1 .. Len(content[i]) : content[i][k].id < written
    /\ \A r \in raw : Len(r.cells) > 0 /\ \A k \in 1 .. Len(r.cells) : r.cells[k].id < written
    /\ \A m \in 1 .. Len(poll.chunk) :
          /\ poll.chunk[m].id < written
          /\ ~InRaw(poll.chunk[m])
          /\ \A n \in 1 .. Len(poll.chunk) : poll.chunk[m] = poll.chunk[n] => m = n

(* A cell is where it was written, and the rows and a chunk know where.      *)
PlaceInv ==
    /\ \A i \in Inodes : \A k \in 1 .. Len(content[i]) : content[i][k].place = k
    /\ \A r \in raw : \A k \in 1 .. Len(r.cells) : r.cells[k].place = r.offset + k
    /\ \A m \in 1 .. Len(poll.chunk) : poll.chunk[m].place = poll.offset + m

(* What a poll has decided by comparing: to go on at the cursor, or from    *)
(* the start of the next generation.                                        *)
PointInv ==
    /\ poll.at \in {"read", "commit"} =>
          IF poll.gap THEN poll.offset = 0 /\ poll.generation = state.generation + 1
          ELSE poll.offset = state.cursor /\ poll.generation = state.generation
    /\ poll.at \in {"idle", "compare"} => ~poll.gap
    /\ poll.at # "commit" => poll.chunk = <<>>

\* The file still has the chunk where it was read.
InPlace ==
    \A m \in 1 .. Len(poll.chunk) :
        poll.offset + m <= Len(File) /\ File[poll.offset + m] = poll.chunk[m]

(* If the file at the path, or the one being read, has a cell that was      *)
(* collected, it is the file of the cursor, the cell is before the cursor,  *)
(* the anchor fits, and no poll takes it for a replaced one; if it has a    *)
(* cell of the chunk, it was not changed since.                             *)
LiveInv ==
    \A i \in Inodes : i \in {path, poll.stream} =>
        \A k \in 1 .. Len(content[i]) :
          /\ InRaw(content[i][k]) =>
               /\ i = state.fingerprint
               /\ k <= state.cursor /\ state.cursor <= Len(content[i])
               /\ state.anchor = Before(content[i], state.cursor)
               /\ ~poll.gap
               /\ poll.stream \in {i, None} /\ InPlace
          /\ InChunk(content[i][k]) => i = poll.stream /\ InPlace

(* A file that is only appended to is never taken for a replaced one, and   *)
(* the cursor is behind a line of it.                                       *)
PlainInv ==
    changes = 0 =>
        /\ path # None
        /\ poll.stream \in {path, None} /\ state.fingerprint \in {path, None}
        /\ state.cursor <= Len(Now) /\ state.anchor = Before(Now, state.cursor)
        /\ state.cursor = 0 \/ Now[state.cursor].end
        /\ \A r \in raw : End(r) <= state.cursor
        /\ ~poll.gap /\ InPlace

CollectorInv ==
    /\ CollectorTypeOK
    /\ RowsAreContiguous /\ ReceivedOnce /\ AppendedIsCollected
    /\ CellsInv /\ PlaceInv /\ PointInv /\ LiveInv /\ PlainInv
-----------------------------------------------------------------------------
(* Lines of a chunk.                                                        *)

LEMMA HasMax ==
    ASSUME NEW n \in Nat, NEW T \in SUBSET (1 .. n), T # {}
    PROVE  \E i \in T : \A j \in T : j <= i
  <1> DEFINE D == {k \in 0 .. n : n - k \in T}
  <1>1. \A i \in T : n - i \in D
    <2> SUFFICES ASSUME NEW i \in T PROVE n - i \in 0 .. n /\ n - (n - i) \in T
      OBVIOUS
    <2>1. i \in Nat /\ 1 <= i /\ i <= n
      OBVIOUS
    <2>2. n - (n - i) = i
      BY <2>1
    <2> QED
      BY <2>1, <2>2
  <1>2. D \subseteq Nat
    OBVIOUS
  <1>3. D # {}
    <2>1. PICK i \in T : TRUE
      OBVIOUS
    <2> QED
      BY <1>1, <2>1
  <1> HIDE DEF D
  <1>4. \E x \in D : \A y \in D : ~ (<<y, x>> \in OpToRel(<,Nat))
    BY <1>2, <1>3, NatLessThanWellFounded, WFMin
  <1>5. PICK x \in D : \A y \in D : ~ (y < x)
    BY <1>2, <1>4 DEF OpToRel
  <1>6. x \in 0 .. n /\ n - x \in T
    BY <1>5 DEF D
  <1>7. \A j \in T : j <= n - x
    <2> SUFFICES ASSUME NEW j \in T PROVE j <= n - x
      OBVIOUS
    <2>1. ~ (n - j < x)
      BY <1>1, <1>5
    <2> QED
      BY <1>6, <2>1
  <1> QED
    BY <1>6, <1>7

LEMMA LastIsMax ==
    ASSUME NEW n \in Nat, NEW T \in SUBSET (1 .. n)
    PROVE  /\ T = {} => Last(T) = 0
           /\ T # {} => Last(T) \in T
           /\ \A j \in T : j <= Last(T)
  <1>1. CASE T = {}
    BY <1>1 DEF Last
  <1>2. CASE T # {}
    <2>1. \E i \in T : \A j \in T : j <= i
      BY <1>2, HasMax
    <2>2. Last(T) = CHOOSE i \in T : \A j \in T : j <= i
      BY <1>2 DEF Last
    <2> QED
      BY <1>2, <2>1, <2>2
  <1> QED
    BY <1>1, <1>2

LEMMA Part ==
    ASSUME NEW S, NEW s \in Seq(S), NEW b \in Nat, NEW i \in Nat, b <= i, i <= Len(s)
    PROVE  /\ SubSeq(s, b + 1, i) \in Seq(S)
           /\ Len(SubSeq(s, b + 1, i)) = i - b
           /\ \A k \in 1 .. i - b : SubSeq(s, b + 1, i)[k] = s[b + k]
  <1>1. SubSeq(s, b + 1, i) \in Seq(S)
    OBVIOUS
  <1>2. Len(SubSeq(s, b + 1, i)) = i - b
    OBVIOUS
  <1>3. ASSUME NEW k \in 1 .. i - b PROVE SubSeq(s, b + 1, i)[k] = s[b + k]
    OBVIOUS
  <1> QED
    BY <1>1, <1>2, <1>3

(* The line before one that is taken is taken.                              *)
LEMMA TakenBefore ==
    ASSUME NEW chunk \in Seq(Cells), NEW i \in Taken(chunk), NEW j \in Ends(chunk), j < i
    PROVE  j \in Taken(chunk)
  <1> DEFINE B(x) == {e \in Ends(chunk) : e < x}
  <1>1. Len(chunk) \in Nat /\ Ends(chunk) \subseteq 1 .. Len(chunk)
    BY DEF Ends
  <1>2. IsFiniteSet(B(i))
    <2>1. IsFiniteSet(1 .. Len(chunk))
      BY <1>1, FS_Interval
    <2>2. B(i) \in SUBSET (1 .. Len(chunk))
      BY <1>1
    <2> QED
      BY <2>1, <2>2, FS_Subset
  <1>3. i \in Int /\ j \in Int
    BY <1>1 DEF Taken
  <1>4. B(j) \in SUBSET B(i)
    BY <1>1, <1>3
  <1>5. IsFiniteSet(B(j)) /\ Cardinality(B(j)) <= Cardinality(B(i))
    BY <1>2, <1>4, FS_Subset
  <1>6. Cardinality(B(j)) \in Nat /\ Cardinality(B(i)) \in Nat
    BY <1>2, <1>5, FS_CardinalityType
  <1>7. Cardinality(B(i)) < LineLimit
    BY DEF Taken
  <1>8. Cardinality(B(j)) < LineLimit
    BY <1>5, <1>6, <1>7, CollectorAssumption
  <1> QED
    BY <1>8 DEF Taken

(* Where a row lies in its chunk.                                           *)
LEMMA RowShape ==
    ASSUME NEW chunk \in Seq(Cells), poll.offset \in Nat, poll.generation \in Nat,
           NEW r \in RowsOf(chunk)
    PROVE  \E i \in Taken(chunk), b \in Nat :
              /\ b < i /\ i <= Len(chunk) /\ i \in Nat /\ chunk[i].end
              /\ b = 0 \/ (b \in Taken(chunk) /\ chunk[b].end)
              /\ \A j \in Ends(chunk) : j < i => j <= b
              /\ r.generation = poll.generation /\ r.offset = poll.offset + b
              /\ r.cells = SubSeq(chunk, b + 1, i)
              /\ r \in Rows
              /\ Len(r.cells) = i - b /\ \A k \in 1 .. i - b : r.cells[k] = chunk[b + k]
  <1>1. PICK i \in Taken(chunk) :
              r = [generation |-> poll.generation,
                   offset |-> poll.offset + Last({j \in Ends(chunk) : j < i}),
                   cells |-> SubSeq(chunk, Last({j \in Ends(chunk) : j < i}) + 1, i)]
    BY DEF RowsOf
  <1> DEFINE T == {j \in Ends(chunk) : j < i}
             b == Last(T)
  <1>2. Len(chunk) \in Nat /\ Ends(chunk) \subseteq 1 .. Len(chunk) /\ i \in Ends(chunk)
    BY DEF Ends, Taken
  <1>3. T \in SUBSET (1 .. Len(chunk))
    BY <1>2
  <1>4. b = 0 \/ b \in T
    BY <1>2, <1>3, LastIsMax
  <1>5. \A j \in T : j <= b
    BY <1>2, <1>3, LastIsMax
  <1> HIDE DEF b
  <1>6. b \in Nat /\ b < i /\ i <= Len(chunk) /\ i \in Nat /\ i > 0
    BY <1>2, <1>4
  <1>7. chunk[i].end /\ (b = 0 \/ (b \in Taken(chunk) /\ chunk[b].end))
    BY <1>2, <1>4, TakenBefore DEF Ends
  <1>8. \A x \in 1 .. Len(chunk) : chunk[x] \in Cells
    OBVIOUS
  <1>9. /\ SubSeq(chunk, b + 1, i) \in Seq(Cells)
        /\ Len(SubSeq(chunk, b + 1, i)) = i - b
        /\ \A k \in 1 .. i - b : SubSeq(chunk, b + 1, i)[k] = chunk[b + k]
    BY <1>6, Part
  <1>10. /\ r.generation = poll.generation /\ r.offset = poll.offset + b
         /\ r.cells = SubSeq(chunk, b + 1, i)
    BY <1>1 DEF b
  <1>11. r \in Rows
    BY <1>1, <1>6, <1>9, SMTT(30) DEF Rows, b
  <1> QED
    BY <1>5, <1>6, <1>7, <1>9, <1>10, <1>11, SMTT(30)

(* Every line that is taken is a row.                                       *)
LEMMA RowAtEnd ==
    ASSUME NEW chunk \in Seq(Cells), poll.offset \in Nat, poll.generation \in Nat,
           NEW i \in Taken(chunk)
    PROVE  \E r \in RowsOf(chunk) : r.generation = poll.generation
                                    /\ End(r) = poll.offset + i
  <1> DEFINE b == Last({j \in Ends(chunk) : j < i})
             r == [generation |-> poll.generation, offset |-> poll.offset + b,
                   cells |-> SubSeq(chunk, b + 1, i)]
  <1>1. Len(chunk) \in Nat /\ i \in 1 .. Len(chunk)
    BY DEF Ends, Taken
  <1>2. b \in Nat /\ b < i
    <2>1. {j \in Ends(chunk) : j < i} \in SUBSET (1 .. Len(chunk))
      BY DEF Ends
    <2>2. b = 0 \/ b \in {j \in Ends(chunk) : j < i}
      BY <1>1, <2>1, LastIsMax
    <2> HIDE DEF b
    <2> QED
      BY <1>1, <2>1, <2>2
  <1>3. r \in RowsOf(chunk)
    BY DEF RowsOf
  <1> HIDE DEF b
  <1>4. Len(SubSeq(chunk, b + 1, i)) = i - b
    BY <1>1, <1>2, Part
  <1>5. poll.offset + b + (i - b) = poll.offset + i
    BY <1>1, <1>2
  <1>6. r.generation = poll.generation /\ End(r) = poll.offset + i
    BY <1>4, <1>5 DEF End
  <1> QED
    BY <1>3, <1>6

(* How far the rows of a chunk reach.                                       *)
LEMMA TakenReach ==
    ASSUME NEW chunk \in Seq(Cells)
    PROVE  /\ Last(Taken(chunk)) \in 0 .. Len(chunk)
           /\ Taken(chunk) = {} => Last(Taken(chunk)) = 0
           /\ Taken(chunk) # {} => Last(Taken(chunk)) \in Taken(chunk)
           /\ \A i \in Taken(chunk) : i <= Last(Taken(chunk))
           /\ \A i \in Taken(chunk) : i \in 1 .. Len(chunk) /\ chunk[i].end
  <1>1. Taken(chunk) \in SUBSET (1 .. Len(chunk)) /\ Len(chunk) \in Nat
    BY DEF Taken, Ends
  <1>2. \A i \in Taken(chunk) : i \in 1 .. Len(chunk) /\ chunk[i].end
    BY DEF Taken, Ends
  <1>3. /\ Taken(chunk) = {} => Last(Taken(chunk)) = 0
        /\ Taken(chunk) # {} => Last(Taken(chunk)) \in Taken(chunk)
        /\ \A i \in Taken(chunk) : i <= Last(Taken(chunk))
    BY <1>1, LastIsMax
  <1> QED
    BY <1>1, <1>2, <1>3
-----------------------------------------------------------------------------
(* The writer.                                                              *)

LEMMA Types ==
    ASSUME CollectorInv
    PROVE  /\ content \in [Inodes -> Seq(Cells)] /\ path \in Inodes \cup {None}
           /\ written \in Nat /\ changes \in Nat /\ failures \in Nat /\ kept \subseteq Nat
           /\ state.cursor \in Nat /\ state.generation \in Nat /\ state.gaps \in Nat
           /\ state.fingerprint \in Inodes \cup {None} /\ state.anchor \in Seq(Cells)
           /\ raw \subseteq Rows
           /\ \A r \in raw : r.generation \in Nat /\ r.offset \in Nat /\ r.cells \in Seq(Cells)
           /\ poll.at \in {"idle", "compare", "read", "commit"}
           /\ poll.at = "idle" <=> poll = NoPoll
           /\ poll.stream \in Inodes \cup {None} /\ poll.offset \in Nat
           /\ poll.generation \in Nat /\ poll.gap \in BOOLEAN /\ poll.chunk \in Seq(Cells)
           /\ poll.stream = None <=> poll = NoPoll
  <1>1. CollectorTypeOK
    BY DEF CollectorInv
  <1>2. /\ content \in [Inodes -> Seq(Cells)] /\ path \in Inodes \cup {None}
        /\ written \in Nat /\ changes \in Nat /\ failures \in Nat /\ kept \subseteq Nat
        /\ state \in States /\ raw \subseteq Rows /\ poll \in Polls \cup {NoPoll}
    BY <1>1 DEF CollectorTypeOK
  <1>3. \A r \in Rows : r.generation \in Nat /\ r.offset \in Nat /\ r.cells \in Seq(Cells)
    BY DEF Rows
  <1>4. CASE poll = NoPoll
    BY <1>2, <1>3, <1>4 DEF NoPoll, States
  <1>5. CASE poll \in Polls
    BY <1>2, <1>3, <1>5, CollectorAssumption DEF NoPoll, States, Polls
  <1> QED
    BY <1>2, <1>4, <1>5

LEMMA RawTypes ==
    ASSUME CollectorInv
    PROVE  /\ \A r \in raw : r.generation \in Nat /\ r.offset \in Nat /\ End(r) \in Nat
           /\ state.cursor \in Nat /\ state.generation \in Nat
  <1>1. /\ state.cursor \in Nat /\ state.generation \in Nat
        /\ \A r \in raw : r.generation \in Nat /\ r.offset \in Nat /\ r.cells \in Seq(Cells)
    BY Types
  <1>2. \A r \in raw : End(r) \in Nat
    <2> SUFFICES ASSUME NEW r \in raw PROVE r.offset + Len(r.cells) \in Nat
      BY DEF End
    <2>1. r.offset \in Nat /\ Len(r.cells) \in Nat
      BY <1>1
    <2> QED
      BY <2>1
  <1> QED
    BY <1>1, <1>2

(* The collector's own data is kept by a step that changes none of it.      *)
LEMMA WriterKeeps ==
    ASSUME CollectorInv, UNCHANGED <<state, raw, poll, failures>>,
           content' \in [Inodes -> Seq(Cells)], path' \in Inodes \cup {None},
           written' \in Nat, changes' \in Nat, kept' \subseteq Nat, kept \subseteq kept'
    PROVE  CollectorTypeOK' /\ RowsAreContiguous' /\ ReceivedOnce' /\ PointInv'
  <1>1. CollectorTypeOK /\ RowsAreContiguous /\ ReceivedOnce /\ PointInv
    BY DEF CollectorInv
  <1>2. CollectorTypeOK'
    BY <1>1 DEF CollectorTypeOK
  <1>3. RowsAreContiguous'
    BY <1>1 DEF RowsAreContiguous, End
  <1>4. ReceivedOnce'
    BY <1>1 DEF ReceivedOnce
  <1>5. PointInv'
    BY <1>1 DEF PointInv
  <1> QED
    BY <1>2, <1>3, <1>4, <1>5

LEMMA AppendKeeps ==
    ASSUME NEW S, NEW s \in Seq(S), NEW x \in S, NEW b \in Nat, NEW i \in Nat, i <= Len(s)
    PROVE  SubSeq(Append(s, x), b + 1, i) = SubSeq(s, b + 1, i)
  <1> DEFINE t == Append(s, x)
  <1>1. t \in Seq(S) /\ Len(t) = Len(s) + 1 /\ \A k \in 1 .. Len(s) : t[k] = s[k]
    OBVIOUS
  <1> HIDE DEF t
  <1>2. CASE b < i
    <2>1. /\ SubSeq(s, b + 1, i) \in Seq(S) /\ Len(SubSeq(s, b + 1, i)) = i - b
          /\ \A k \in 1 .. i - b : SubSeq(s, b + 1, i)[k] = s[b + k]
      BY <1>2, Part
    <2>2. /\ SubSeq(t, b + 1, i) \in Seq(S) /\ Len(SubSeq(t, b + 1, i)) = i - b
          /\ \A k \in 1 .. i - b : SubSeq(t, b + 1, i)[k] = t[b + k]
      BY <1>1, <1>2, Part
    <2>3. \A k \in 1 .. i - b : t[b + k] = s[b + k]
      BY <1>1
    <2>4. \A k \in 1 .. i - b : SubSeq(t, b + 1, i)[k] = SubSeq(s, b + 1, i)[k]
      BY <2>1, <2>2, <2>3
    <2>5. SubSeq(t, b + 1, i) = SubSeq(s, b + 1, i)
      BY <2>1, <2>2, <2>4, SeqEqual
    <2> QED
      BY <2>5 DEF t
  <1>3. CASE ~(b < i)
    <2>1. SubSeq(s, b + 1, i) = <<>> /\ SubSeq(t, b + 1, i) = <<>>
      BY <1>3, SubSeqEmpty
    <2> QED
      BY <2>1 DEF t
  <1> QED
    BY <1>2, <1>3

(* The anchor at an offset the file has reached does not change any more.   *)
LEMMA BeforeAppend ==
    ASSUME NEW s \in Seq(Cells), NEW c \in Cells, NEW offset \in Nat, offset <= Len(s)
    PROVE  Before(Append(s, c), offset) = Before(s, offset)
  <1> DEFINE b == IF offset > AnchorCells THEN offset - AnchorCells ELSE 0
  <1>1. b \in Nat /\ AnchorCells \in Nat
    BY CollectorAssumption
  <1>2. \A x \in Seq(Cells) : offset <= Len(x) => Before(x, offset) = SubSeq(x, b + 1, offset)
    <2> SUFFICES ASSUME NEW x \in Seq(Cells), offset <= Len(x)
                 PROVE  Before(x, offset) = SubSeq(x, b + 1, offset)
      OBVIOUS
    <2>1. (IF offset > AnchorCells THEN offset - AnchorCells + 1 ELSE 1) = b + 1
      BY <1>1
    <2>2. (IF offset < Len(x) THEN offset ELSE Len(x)) = offset
      OBVIOUS
    <2> QED
      BY <2>1, <2>2 DEF Before
  <1>3. Append(s, c) \in Seq(Cells) /\ Len(Append(s, c)) = Len(s) + 1
    OBVIOUS
  <1> HIDE DEF b
  <1>4. SubSeq(Append(s, c), b + 1, offset) = SubSeq(s, b + 1, offset)
    BY <1>1, AppendKeeps
  <1>5. Before(s, offset) = SubSeq(s, b + 1, offset)
    BY <1>2
  <1>6. Before(Append(s, c), offset) = SubSeq(Append(s, c), b + 1, offset)
    <2> DEFINE t == Append(s, c)
    <2>1. t \in Seq(Cells) /\ offset <= Len(t)
      BY <1>3
    <2> HIDE DEF t
    <2>2. Before(t, offset) = SubSeq(t, b + 1, offset)
      BY <1>2, <2>1
    <2> QED
      BY <2>2 DEF t
  <1> QED
    BY <1>4, <1>5, <1>6

LEMMA WriteKeepsInv ==
    ASSUME CollectorInv, NEW end \in BOOLEAN, Write(end)
    PROVE  CollectorInv'
  <1> DEFINE file == IF Now = <<>> THEN changes ELSE Now[1].file
             cell == [id |-> written, end |-> end, place |-> Len(Now) + 1, file |-> file]
  <1>1. /\ path \in Inodes /\ content' = [content EXCEPT ![path] = Append(Now, cell)]
        /\ written' = written + 1
        /\ UNCHANGED <<path, changes, kept, state, raw, poll, failures>>
    BY Types DEF Write, Now
  <1>2. cell \in Cells /\ cell.id = written /\ cell.place = Len(Now) + 1
    <2>1. Now \in Seq(Cells) /\ Len(Now) \in Nat /\ changes \in Nat /\ written \in Nat
      BY <1>1, Types DEF Now
    <2>2. file \in Nat
      <3>1. Now # <<>> => Now[1] \in Cells
        BY <2>1
      <3> QED
        BY <2>1, <3>1 DEF Cells
    <2> HIDE DEF file
    <2> QED
      BY <2>1, <2>2 DEF Cells
  <1> HIDE DEF cell
  <1>3. content \in [Inodes -> Seq(Cells)] /\ Now \in Seq(Cells) /\ Now = content[path]
    BY <1>1, Types DEF Now
  <1>4. /\ content' \in [Inodes -> Seq(Cells)]
        /\ content'[path] = Append(Now, cell)
        /\ \A i \in Inodes : i # path => content'[i] = content[i]
    BY <1>1, <1>2, <1>3
  <1>5. /\ Len(Append(Now, cell)) = Len(Now) + 1
        /\ \A k \in 1 .. Len(Now) : Append(Now, cell)[k] = Now[k]
        /\ Append(Now, cell)[Len(Now) + 1] = cell
    BY <1>2, <1>3
  <1>6. \A i \in Inodes :
          /\ content[i] \in Seq(Cells) /\ Len(content[i]) \in Nat
          /\ Len(content[i]) <= Len(content'[i])
          /\ \A k \in 1 .. Len(content[i]) : content'[i][k] = content[i][k]
          /\ \A k \in 1 .. Len(content'[i]) :
                k \in 1 .. Len(content[i])
                \/ (i = path /\ k = Len(content[i]) + 1 /\ content'[i][k] = cell)
    BY <1>3, <1>4, <1>5, SMTT(30)
  <1>7. /\ CellsInv /\ PlaceInv /\ LiveInv /\ PlainInv /\ AppendedIsCollected
        /\ written \in Nat /\ kept' = kept
    BY <1>1, Types DEF CollectorInv
  <1>8. \A i \in Inodes, offset \in Nat :
          offset <= Len(content[i]) => Before(content'[i], offset) = Before(content[i], offset)
    <2> SUFFICES ASSUME NEW i \in Inodes, NEW offset \in Nat, offset <= Len(content[i])
                 PROVE  Before(content'[i], offset) = Before(content[i], offset)
      OBVIOUS
    <2>1. CASE i = path
      <3>1. offset <= Len(Now)
        BY <1>3, <2>1
      <3>2. Before(Append(Now, cell), offset) = Before(Now, offset)
        BY <1>2, <1>3, <3>1, BeforeAppend
      <3> QED
        BY <1>3, <1>4, <2>1, <3>2
    <2>2. CASE i # path
      BY <1>4, <2>2
    <2> QED
      BY <2>1, <2>2
  <1>9. /\ \A i \in Inodes : \A k \in 1 .. Len(content[i]) : content[i][k] # cell
        /\ ~InRaw(cell) /\ ~InChunk(cell)
    BY <1>2, <1>7 DEF CellsInv, InRaw, InChunk
  <1>10. CellsInv'
    <2>1. \A i, j \in Inodes : \A k \in 1 .. Len(content'[i]), l \in 1 .. Len(content'[j]) :
            content'[i][k] = content'[j][l] => i = j /\ k = l
      <3> SUFFICES ASSUME NEW i \in Inodes, NEW j \in Inodes,
                          NEW k \in 1 .. Len(content'[i]), NEW l \in 1 .. Len(content'[j]),
                          content'[i][k] = content'[j][l]
                   PROVE  i = j /\ k = l
        OBVIOUS
      <3>1. /\ \/ k \in 1 .. Len(content[i]) /\ content'[i][k] = content[i][k]
               \/ i = path /\ k = Len(content[i]) + 1 /\ content'[i][k] = cell
            /\ \/ l \in 1 .. Len(content[j]) /\ content'[j][l] = content[j][l]
               \/ j = path /\ l = Len(content[j]) + 1 /\ content'[j][l] = cell
        BY <1>6
      <3> QED
        BY <1>7, <1>9, <3>1 DEF CellsInv
    <2>2. \A i \in Inodes : \A k \in 1 .. Len(content'[i]) : content'[i][k].id < written'
      <3> SUFFICES ASSUME NEW i \in Inodes, NEW k \in 1 .. Len(content'[i])
                   PROVE  content'[i][k].id < written + 1
        BY <1>1
      <3>1. CASE k \in 1 .. Len(content[i])
        <4>1. content'[i][k] = content[i][k] /\ content[i][k] \in Cells /\ content[i][k].id < written
          BY <1>6, <1>7, <3>1 DEF CellsInv
        <4>2. content[i][k].id \in Nat
          BY <4>1 DEF Cells
        <4> QED
          BY <1>7, <4>1, <4>2
      <3>2. CASE content'[i][k] = cell
        BY <1>2, <1>7, <3>2
      <3> QED
        BY <1>6, <3>1, <3>2
    <2>3. \A r \in raw : Len(r.cells) > 0 /\ \A k \in 1 .. Len(r.cells) : r.cells[k].id < written + 1
      <3> SUFFICES ASSUME NEW r \in raw, NEW k \in 1 .. Len(r.cells)
                   PROVE  r.cells[k].id < written + 1
        BY <1>7 DEF CellsInv
      <3>1. r.cells[k] \in Cells /\ r.cells[k].id < written
        BY <1>7, Types, SMTT(30) DEF CellsInv
      <3> QED
        BY <1>7, <3>1 DEF Cells
    <2>4. \A m \in 1 .. Len(poll.chunk) : poll.chunk[m].id < written + 1
      <3> SUFFICES ASSUME NEW m \in 1 .. Len(poll.chunk)
                   PROVE  poll.chunk[m].id < written + 1
        OBVIOUS
      <3>1. poll.chunk[m] \in Cells /\ poll.chunk[m].id < written
        BY <1>7, Types DEF CellsInv
      <3> QED
        BY <1>7, <3>1 DEF Cells
    <2> QED
      <3>1. /\ raw' = raw /\ poll' = poll /\ written' = written + 1
            /\ \A c : InRaw(c)' <=> InRaw(c)
        BY <1>1, <1>7 DEF InRaw
      <3> QED
        BY <1>7, <2>1, <2>2, <2>3, <2>4, <3>1 DEF CellsInv
  <1>11. InPlace => InPlace'
    <2>1. CASE poll.chunk = <<>>
      BY <1>1, <2>1 DEF InPlace
    <2>2. CASE poll.chunk # <<>>
      <3>1. poll.stream \in Inodes /\ poll.offset \in Nat /\ Len(poll.chunk) \in Nat
        BY <2>2, Types DEF NoPoll
      <3>2. content[poll.stream] \in Seq(Cells) /\ Len(content[poll.stream]) \in Nat
            /\ Len(content'[poll.stream]) \in Nat
            /\ Len(content[poll.stream]) <= Len(content'[poll.stream])
            /\ \A k \in 1 .. Len(content[poll.stream]) :
                  content'[poll.stream][k] = content[poll.stream][k]
        BY <1>4, <1>6, <3>1
      <3> SUFFICES ASSUME InPlace, NEW m \in 1 .. Len(poll.chunk)
                   PROVE  /\ poll.offset + m <= Len(content'[poll.stream])
                          /\ content'[poll.stream][poll.offset + m] = poll.chunk[m]
        BY <1>1 DEF InPlace, File
      <3>3. /\ poll.offset + m <= Len(content[poll.stream])
            /\ content[poll.stream][poll.offset + m] = poll.chunk[m]
        BY DEF InPlace, File
      <3>4. poll.offset + m \in 1 .. Len(content[poll.stream])
        BY <3>1, <3>2, <3>3
      <3> QED
        BY <3>1, <3>2, <3>3, <3>4, SMTT(30)
    <2> QED
      BY <2>1, <2>2
  <1>12. LiveInv'
    <2> SUFFICES ASSUME NEW i \in Inodes, i \in {path, poll.stream},
                        NEW k \in 1 .. Len(content'[i]),
                        InRaw(content'[i][k]) \/ InChunk(content'[i][k])
                 PROVE  /\ InRaw(content'[i][k]) =>
                             /\ i = state.fingerprint
                             /\ k <= state.cursor /\ state.cursor <= Len(content'[i])
                             /\ state.anchor = Before(content'[i], state.cursor)
                             /\ ~poll.gap
                             /\ poll.stream \in {i, None} /\ InPlace'
                        /\ InChunk(content'[i][k]) => i = poll.stream /\ InPlace'
      BY <1>1, SMTT(30) DEF LiveInv, InRaw, InChunk
    <2>1. k \in 1 .. Len(content[i]) /\ content'[i][k] = content[i][k]
      BY <1>6, <1>9
    <2>2. Len(content[i]) \in Nat /\ Len(content'[i]) \in Nat /\ Len(content[i]) <= Len(content'[i])
          /\ state.cursor \in Nat
      BY <1>4, <1>6, Types
    <2> QED
      BY <1>7, <1>8, <1>11, <2>1, <2>2 DEF LiveInv
  <1>13. ASSUME changes = 0
         PROVE  /\ state.cursor \in Nat /\ state.cursor <= Len(Now)
                /\ Now' = Append(Now, cell) /\ Len(Now) \in Nat
                /\ \A k \in 1 .. Len(Now) : Now'[k] = Now[k]
                /\ \A r \in raw : End(r) <= state.cursor /\ r.offset \in Nat
                                  /\ Len(r.cells) \in Nat /\ Len(r.cells) > 0
    BY <1>1, <1>3, <1>4, <1>5, <1>7, <1>13, Types, SMTT(30) DEF PlainInv, Now, CellsInv
  <1>14. PlainInv'
    <2> SUFFICES ASSUME changes = 0
                 PROVE  /\ state.cursor <= Len(Now') /\ state.anchor = Before(Now', state.cursor)
                        /\ state.cursor = 0 \/ Now'[state.cursor].end
                        /\ InPlace'
      BY <1>1, <1>7 DEF PlainInv, End
    <2>1. InPlace'
      BY <1>7, <1>11 DEF PlainInv
    <2>2. Len(Now') = Len(Now) + 1
      BY <1>5, <1>13
    <2>3. state.cursor <= Len(Now')
      BY <1>13, <2>2
    <2>4. state.anchor = Before(Now', state.cursor)
      BY <1>1, <1>3, <1>4, <1>7, <1>8, <1>13 DEF PlainInv, Now
    <2>5. state.cursor = 0 \/ Now'[state.cursor].end
      BY <1>7, <1>13 DEF PlainInv
    <2> QED
      BY <2>1, <2>3, <2>4, <2>5
  <1>15. AppendedIsCollected'
    <2> SUFFICES ASSUME changes = 0, NEW r \in raw
                 PROVE  /\ r.cells = SubSeq(Now', r.offset + 1, End(r))
                        /\ r.offset = 0 \/ Now'[r.offset].end
                        /\ Now'[End(r)].end
      BY <1>1 DEF AppendedIsCollected, End
    <2>1. /\ r.cells = SubSeq(Now, r.offset + 1, End(r))
          /\ r.offset = 0 \/ Now[r.offset].end
          /\ Now[End(r)].end
      BY <1>7 DEF AppendedIsCollected
    <2>2. /\ End(r) = r.offset + Len(r.cells) /\ r.offset \in Nat /\ End(r) \in Nat
          /\ End(r) > r.offset /\ End(r) <= Len(Now)
      BY <1>13 DEF End
    <2>3. SubSeq(Now', r.offset + 1, End(r)) = SubSeq(Now, r.offset + 1, End(r))
      <3>1. SubSeq(Append(Now, cell), r.offset + 1, End(r)) = SubSeq(Now, r.offset + 1, End(r))
        BY <1>2, <1>3, <2>2, AppendKeeps, ZenonT(30)
      <3> QED
        BY <1>13, <3>1
    <2>4. End(r) \in 1 .. Len(Now) /\ (r.offset = 0 \/ r.offset \in 1 .. Len(Now))
      BY <1>13, <2>2
    <2> QED
      BY <1>13, <2>1, <2>3, <2>4
  <1>16. CollectorTypeOK' /\ RowsAreContiguous' /\ ReceivedOnce' /\ PointInv'
    BY <1>1, <1>4, <1>7, WriterKeeps, Types
  <1>17. PlaceInv'
    <2> SUFFICES ASSUME NEW i \in Inodes, NEW k \in 1 .. Len(content'[i])
                 PROVE  content'[i][k].place = k
      BY <1>1, <1>7 DEF PlaceInv
    <2> QED
      BY <1>2, <1>3, <1>6, <1>7 DEF PlaceInv
  <1> QED
    BY <1>10, <1>12, <1>14, <1>15, <1>16, <1>17 DEF CollectorInv

(* Truncation and rotation leave no cell but those that were there, each    *)
(* where it was, and of those that a truncation leaves no more is said.     *)
LEMMA ResetFacts ==
    ASSUME CollectorInv, Truncate \/ Remove \/ \E i \in Inodes : Create(i)
    PROVE  /\ content' \in [Inodes -> Seq(Cells)] /\ path' \in Inodes \cup {None}
           /\ changes' \in Nat \ {0} /\ kept \subseteq kept' /\ kept' \subseteq Nat
           /\ \A i \in Inodes : \A k \in 1 .. Len(content'[i]) :
                 k \in 1 .. Len(content[i]) /\ content'[i][k] = content[i][k]
           /\ \A i \in Inodes : i \in {path', poll.stream} =>
                 \/ \A k \in 1 .. Len(content'[i]) : content'[i][k].id \in kept'
                 \/ i \in {path, poll.stream} /\ content'[i] = content[i]
           /\ UNCHANGED <<written, state, raw, poll, failures>>
  <1>1. /\ content \in [Inodes -> Seq(Cells)] /\ path \in Inodes \cup {None}
        /\ changes \in Nat /\ kept \subseteq Nat /\ None \notin Inodes
    BY Types, CollectorAssumption
  <1>2. CASE Truncate
    <2>1. /\ path \in Inodes /\ path' = path /\ changes' = changes + 1
          /\ UNCHANGED <<written, state, raw, poll, failures>>
      BY <1>1, <1>2 DEF Truncate
    <2>2. PICK length \in 0 .. Len(Now) - 1 :
            /\ content' = [content EXCEPT ![path] = SubSeq(Now, 1, length)]
            /\ kept' = kept \cup {Now[k].id : k \in 1 .. length}
      BY <1>2 DEF Truncate
    <2> DEFINE rest == SubSeq(Now, 1, length)
    <2>3. Now \in Seq(Cells) /\ Len(Now) \in Nat /\ Now = content[path] /\ length \in Nat
          /\ length <= Len(Now)
      BY <1>1, <2>1 DEF Now
    <2>4. /\ rest \in Seq(Cells) /\ Len(rest) = length
          /\ \A k \in 1 .. length : rest[k] = Now[k]
      BY <2>3
    <2> HIDE DEF rest
    <2>5. /\ content' \in [Inodes -> Seq(Cells)] /\ content'[path] = rest
          /\ \A i \in Inodes : i # path => content'[i] = content[i]
      BY <1>1, <2>1, <2>2, <2>4 DEF rest
    <2>6. kept' \subseteq Nat
      <3>1. \A k \in 1 .. length : Now[k] \in Cells
        BY <2>3
      <3> QED
        BY <1>1, <2>2, <3>1 DEF Cells
    <2>7. \A i \in Inodes : \A k \in 1 .. Len(content'[i]) :
            k \in 1 .. Len(content[i]) /\ content'[i][k] = content[i][k]
      BY <2>3, <2>4, <2>5
    <2>8. \A k \in 1 .. Len(content'[path]) : content'[path][k].id \in kept'
      BY <2>2, <2>4, <2>5
    <2> QED
      BY <1>1, <2>1, <2>2, <2>5, <2>6, <2>7, <2>8
  <1>3. CASE Remove
    BY <1>1, <1>3 DEF Remove
  <1>4. ASSUME NEW i \in Inodes, Create(i)
        PROVE  /\ content' = [content EXCEPT ![i] = <<>>] /\ path' = i
               /\ changes' = changes /\ changes # 0 /\ kept' = kept
               /\ UNCHANGED <<written, state, raw, poll, failures>>
    BY <1>4 DEF Create, CollectorInv, PlainInv
  <1>5. CASE \E i \in Inodes : Create(i)
    <2>1. PICK i \in Inodes : /\ content' = [content EXCEPT ![i] = <<>>] /\ path' = i
                              /\ changes' = changes /\ changes # 0 /\ kept' = kept
                              /\ UNCHANGED <<written, state, raw, poll, failures>>
      BY <1>4, <1>5
    <2>2. /\ content' \in [Inodes -> Seq(Cells)] /\ content'[i] = <<>>
          /\ \A j \in Inodes : j # i => content'[j] = content[j]
      BY <1>1, <2>1
    <2>3. 1 .. Len(content'[i]) = {}
      BY <2>2
    <2> QED
      BY <1>1, <2>1, <2>2, <2>3
  <1> QED
    BY <1>2, <1>3, <1>5

LEMMA ResetKeepsInv ==
    ASSUME CollectorInv, Truncate \/ Remove \/ \E i \in Inodes : Create(i)
    PROVE  CollectorInv'
  <1>1. /\ content' \in [Inodes -> Seq(Cells)] /\ path' \in Inodes \cup {None}
        /\ changes' \in Nat \ {0} /\ kept \subseteq kept' /\ kept' \subseteq Nat
        /\ \A i \in Inodes : \A k \in 1 .. Len(content'[i]) :
              k \in 1 .. Len(content[i]) /\ content'[i][k] = content[i][k]
        /\ \A i \in Inodes : i \in {path', poll.stream} =>
              \/ \A k \in 1 .. Len(content'[i]) : content'[i][k].id \in kept'
              \/ i \in {path, poll.stream} /\ content'[i] = content[i]
        /\ UNCHANGED <<written, state, raw, poll, failures>>
    BY ResetFacts
  <1>2. CellsInv /\ PlaceInv /\ LiveInv
    BY DEF CollectorInv
  <1>3. CellsInv' /\ PlaceInv'
    <2>1. \A c : InRaw(c)' => InRaw(c)
      BY <1>1 DEF InRaw
    <2>2. PlaceInv'
      BY <1>1, <1>2 DEF PlaceInv
    <2> QED
      BY <1>1, <1>2, <2>1, <2>2 DEF CellsInv
  <1>4. LiveInv'
    <2> SUFFICES ASSUME NEW i \in Inodes, i \in {path', poll.stream},
                        NEW k \in 1 .. Len(content'[i]), content'[i][k].id \notin kept',
                        InRaw(content'[i][k]) \/ InChunk(content'[i][k])
                 PROVE  /\ InRaw(content'[i][k]) =>
                             /\ i = state.fingerprint
                             /\ k <= state.cursor /\ state.cursor <= Len(content'[i])
                             /\ state.anchor = Before(content'[i], state.cursor)
                             /\ ~poll.gap
                             /\ poll.stream \in {i, None} /\ InPlace'
                        /\ InChunk(content'[i][k]) => i = poll.stream /\ InPlace'
      <3>1. UNCHANGED <<state, raw, poll>>
        BY <1>1
      <3>2. \A c : /\ InRaw(c)' => c.id \notin kept' /\ InRaw(c)
                   /\ InChunk(c)' => c.id \notin kept' /\ InChunk(c)
        BY <1>1 DEF InRaw, InChunk
      <3> QED
        BY <3>1, <3>2 DEF LiveInv
    <2>1. i \in {path, poll.stream} /\ content'[i] = content[i]
      BY <1>1
    <2>2. poll.stream \in {i, None} /\ InPlace => InPlace'
      <3>1. CASE poll.stream = i
        BY <1>1, <2>1, <3>1 DEF InPlace, File
      <3>2. CASE poll.stream = None
        <4>1. poll.chunk = <<>>
          BY <3>2, Types DEF NoPoll
        <4> QED
          BY <1>1, <4>1 DEF InPlace
      <3> QED
        BY <3>1, <3>2
    <2>3. /\ InRaw(content[i][k]) =>
               /\ i = state.fingerprint
               /\ k <= state.cursor /\ state.cursor <= Len(content[i])
               /\ state.anchor = Before(content[i], state.cursor)
               /\ ~poll.gap
               /\ poll.stream \in {i, None} /\ InPlace
          /\ InChunk(content[i][k]) => i = poll.stream /\ InPlace
      BY <1>2, <2>1 DEF LiveInv
    <2> QED
      BY <2>1, <2>2, <2>3
  <1>5. CollectorTypeOK' /\ RowsAreContiguous' /\ ReceivedOnce' /\ PointInv'
    BY <1>1, WriterKeeps, Types
  <1>6. PlainInv' /\ AppendedIsCollected'
    BY <1>1 DEF PlainInv, AppendedIsCollected
  <1> QED
    BY <1>3, <1>4, <1>5, <1>6 DEF CollectorInv
-----------------------------------------------------------------------------
(* The poll.                                                                *)

(* The files and the database are kept by a step of the poll alone.         *)
LEMMA PollStepKeeps ==
    ASSUME CollectorInv, UNCHANGED <<fileVars, state, raw>>,
           poll' \in Polls \cup {NoPoll}, failures' \in Nat,
           PointInv', CellsInv', PlaceInv', LiveInv',
           changes = 0 => poll'.stream \in {path, None} /\ ~poll'.gap /\ InPlace'
    PROVE  CollectorInv'
  <1>1. CollectorTypeOK /\ RowsAreContiguous /\ ReceivedOnce /\ AppendedIsCollected /\ PlainInv
    BY DEF CollectorInv
  <1>2. CollectorTypeOK'
    BY <1>1 DEF CollectorTypeOK, fileVars
  <1>3. RowsAreContiguous'
    BY <1>1 DEF RowsAreContiguous, End
  <1>4. ReceivedOnce'
    BY <1>1 DEF ReceivedOnce, fileVars
  <1>5. AppendedIsCollected'
    BY <1>1 DEF AppendedIsCollected, End, Now, fileVars
  <1>6. PlainInv'
    BY <1>1 DEF PlainInv, End, Now, fileVars
  <1> QED
    BY <1>2, <1>3, <1>4, <1>5, <1>6 DEF CollectorInv

(* A step after which nothing is read yet.                                  *)
LEMMA EmptyHanded ==
    ASSUME CollectorInv, UNCHANGED <<fileVars, state, raw>>, poll'.chunk = <<>>,
           poll'.stream # None => poll'.stream \in {path, poll.stream},
           \A i \in Inodes : i \in {path, poll'.stream} =>
               \A k \in 1 .. Len(content[i]) : InRaw(content[i][k]) =>
                   ~poll'.gap /\ poll'.stream \in {i, None}
    PROVE  CellsInv' /\ PlaceInv' /\ LiveInv' /\ InPlace'
  <1>1. CellsInv /\ PlaceInv /\ LiveInv
    BY DEF CollectorInv
  <1>2. 1 .. Len(poll'.chunk) = {}
    OBVIOUS
  <1>3. InPlace'
    BY <1>2 DEF InPlace
  <1>4. CellsInv'
    BY <1>1, <1>2 DEF CellsInv, InRaw, fileVars
  <1>6. PlaceInv'
    BY <1>1, <1>2 DEF PlaceInv, fileVars
  <1>5. LiveInv'
    <2> SUFFICES ASSUME NEW i \in Inodes, i \in {path, poll'.stream},
                        NEW k \in 1 .. Len(content[i]), InRaw(content[i][k])
                 PROVE  /\ i = state.fingerprint
                        /\ k <= state.cursor /\ state.cursor <= Len(content[i])
                        /\ state.anchor = Before(content[i], state.cursor)
                        /\ ~poll'.gap
                        /\ poll'.stream \in {i, None} /\ InPlace'
      BY <1>2 DEF LiveInv, InRaw, InChunk, fileVars
    <2>1. i \in {path, poll.stream}
      BY CollectorAssumption
    <2> QED
      BY <1>1, <1>3, <2>1 DEF LiveInv
  <1> QED
    BY <1>3, <1>4, <1>5, <1>6

LEMMA OpenKeepsInv ==
    ASSUME CollectorInv, Open
    PROVE  CollectorInv'
  <1>1. /\ poll = NoPoll /\ path \in Inodes
        /\ poll' = [NoPoll EXCEPT !.at = "compare", !.stream = path]
        /\ UNCHANGED <<fileVars, state, raw, failures>>
    BY Types DEF Open
  <1>2. /\ poll'.stream = path /\ poll'.chunk = <<>> /\ ~poll'.gap /\ poll'.at = "compare"
        /\ poll' \in Polls
    <2>1. poll' = [at |-> "compare", stream |-> path, offset |-> 0, generation |-> 0,
                   gap |-> FALSE, chunk |-> <<>>]
      BY <1>1 DEF NoPoll
    <2>2. <<>> \in Seq(Cells)
      OBVIOUS
    <2>3. poll' \in Polls
      <3>1. path \in Inodes
        BY <1>1
      <3>2. [at |-> "compare", stream |-> path, offset |-> 0, generation |-> 0,
             gap |-> FALSE, chunk |-> <<>>] \in Polls
        BY <3>1, <2>2 DEF Polls
      <3> QED
        BY <2>1, <3>2
    <2> QED
      BY <2>1, <2>3
  <1>3. \A i \in Inodes : i \in {path, poll'.stream} => i = path
    BY <1>2
  <1>4. CellsInv' /\ PlaceInv' /\ LiveInv' /\ InPlace'
    BY <1>1, <1>2, <1>3, EmptyHanded
  <1>5. PointInv'
    BY <1>2 DEF PointInv
  <1> QED
    BY <1>1, <1>2, <1>4, <1>5, PollStepKeeps, Types

LEMMA EndKeepsInv ==
    ASSUME CollectorInv, UNCHANGED <<fileVars, state, raw>>, poll' = NoPoll, failures' \in Nat
    PROVE  CollectorInv'
  <1>1. poll'.stream = None /\ poll'.chunk = <<>> /\ ~poll'.gap /\ poll'.at = "idle"
    BY DEF NoPoll
  <1>2. CellsInv' /\ PlaceInv' /\ LiveInv' /\ InPlace'
    BY <1>1, EmptyHanded
  <1>3. PointInv'
    BY <1>1 DEF PointInv
  <1> QED
    BY <1>1, <1>2, <1>3, PollStepKeeps

LEMMA CompareKeepsInv ==
    ASSUME CollectorInv, Compare
    PROVE  CollectorInv'
  <1>1. /\ poll.at = "compare"
        /\ poll' = [poll EXCEPT !.at = "read", !.gap = Replaced,
                      !.offset = IF Replaced THEN 0 ELSE state.cursor,
                      !.generation = state.generation + IF Replaced THEN 1 ELSE 0]
        /\ UNCHANGED <<fileVars, state, raw, failures>>
    BY DEF Compare
  <1>2. /\ poll \in Polls /\ poll.stream \in Inodes /\ poll.chunk = <<>> /\ Replaced \in BOOLEAN
        /\ state.cursor \in Nat /\ state.generation \in Nat /\ failures \in Nat
    BY <1>1, Types DEF CollectorInv, CollectorTypeOK, PointInv, NoPoll, Polls, Replaced
  <1>3. /\ poll'.at = "read" /\ poll'.stream = poll.stream /\ poll'.chunk = <<>>
        /\ poll'.gap = Replaced
        /\ poll'.offset = IF Replaced THEN 0 ELSE state.cursor
        /\ poll'.generation = state.generation + IF Replaced THEN 1 ELSE 0
        /\ poll' \in Polls
    <2>1. /\ (IF Replaced THEN 0 ELSE state.cursor) \in Nat
          /\ state.generation + (IF Replaced THEN 1 ELSE 0) \in Nat
      BY <1>2
    <2> DEFINE offset == IF Replaced THEN 0 ELSE state.cursor
               generation == state.generation + (IF Replaced THEN 1 ELSE 0)
    <2>2. poll' = [poll EXCEPT !.at = "read", !.gap = Replaced, !.offset = offset,
                               !.generation = generation]
      BY <1>1
    <2>3. offset \in Nat /\ generation \in Nat
      BY <2>1
    <2> HIDE DEF offset, generation
    <2>4. /\ poll'.at = "read" /\ poll'.stream = poll.stream /\ poll'.chunk = poll.chunk
          /\ poll'.gap = Replaced /\ poll'.offset = offset /\ poll'.generation = generation
          /\ poll' \in Polls
      BY <1>2, <2>2, <2>3 DEF Polls
    <2> QED
      BY <1>2, <2>4 DEF offset, generation
  <1>4. ASSUME NEW i \in Inodes, i \in {path, poll.stream},
               NEW k \in 1 .. Len(content[i]), InRaw(content[i][k])
        PROVE  ~Replaced /\ poll.stream = i
    <2>1. /\ i = state.fingerprint /\ state.cursor <= Len(content[i])
          /\ state.anchor = Before(content[i], state.cursor)
          /\ poll.stream \in {i, None}
      BY <1>4 DEF CollectorInv, LiveInv
    <2>2. poll.stream = i
      BY <1>2, <2>1, CollectorAssumption
    <2>3. content[i] \in Seq(Cells) /\ ~ (Len(content[i]) < state.cursor)
      BY <1>2, <2>1, Types
    <2> QED
      BY <2>1, <2>2, <2>3 DEF Replaced, File
  <1>5. CellsInv' /\ PlaceInv' /\ LiveInv' /\ InPlace'
    BY <1>1, <1>3, <1>4, EmptyHanded
  <1>6. PointInv'
    BY <1>1, <1>2, <1>3 DEF PointInv
  <1>7. changes = 0 => poll'.stream \in {path, None} /\ ~poll'.gap
    <2> SUFFICES ASSUME changes = 0
                 PROVE  poll.stream = path /\ ~Replaced
      BY <1>3
    <2>1. /\ poll.stream \in {path, None} /\ state.fingerprint \in {path, None}
          /\ state.cursor <= Len(Now) /\ state.anchor = Before(Now, state.cursor)
      BY DEF CollectorInv, PlainInv
    <2>2. poll.stream = path
      BY <1>2, <2>1, CollectorAssumption
    <2>3. File = Now /\ Now \in Seq(Cells) /\ ~ (Len(Now) < state.cursor)
      BY <1>2, <2>1, <2>2, Types DEF File, Now
    <2> QED
      BY <2>1, <2>2, <2>3 DEF Replaced
  <1> QED
    BY <1>1, <1>2, <1>3, <1>5, <1>6, <1>7, PollStepKeeps

(* A chunk is what the file holds behind the offset.                        *)
LEMMA ChunkShape ==
    ASSUME CollectorInv, poll.stream \in Inodes
    PROVE  /\ Chunk \in Seq(Cells)
           /\ \A m \in 1 .. Len(Chunk) :
                 /\ poll.offset + m \in 1 .. Len(File)
                 /\ Chunk[m] = File[poll.offset + m]
  <1> DEFINE hi == IF poll.offset + ChunkCells < Len(File) THEN poll.offset + ChunkCells
                   ELSE Len(File)
  <1>1. File \in Seq(Cells) /\ Len(File) \in Nat /\ poll.offset \in Nat /\ ChunkCells \in Nat
    BY Types, CollectorAssumption DEF File
  <1>2. hi \in Nat /\ hi <= Len(File) /\ Chunk = SubSeq(File, poll.offset + 1, hi)
    BY <1>1 DEF Chunk
  <1> HIDE DEF hi
  <1>3. CASE poll.offset <= hi
    <2>1. /\ SubSeq(File, poll.offset + 1, hi) \in Seq(Cells)
          /\ Len(SubSeq(File, poll.offset + 1, hi)) = hi - poll.offset
          /\ \A m \in 1 .. hi - poll.offset :
                SubSeq(File, poll.offset + 1, hi)[m] = File[poll.offset + m]
      BY <1>1, <1>2, <1>3, Part
    <2>2. Chunk \in Seq(Cells) /\ Len(Chunk) = hi - poll.offset
          /\ \A m \in 1 .. hi - poll.offset : Chunk[m] = File[poll.offset + m]
      BY <1>2, <2>1
    <2>3. \A m \in 1 .. hi - poll.offset : poll.offset + m \in 1 .. Len(File)
      BY <1>1, <1>2
    <2> QED
      BY <2>2, <2>3
  <1>4. CASE ~ (poll.offset <= hi)
    <2>1. SubSeq(File, poll.offset + 1, hi) = <<>>
      BY <1>1, <1>2, <1>4, SubSeqEmpty
    <2>2. Chunk = <<>>
      BY <1>2, <2>1
    <2> QED
      BY <2>2
  <1> QED
    BY <1>3, <1>4

LEMMA ReadChunkKeepsInv ==
    ASSUME CollectorInv, ReadChunk
    PROVE  CollectorInv'
  <1>1. poll.at = "read" /\ UNCHANGED <<fileVars, state, raw, failures>>
    BY DEF ReadChunk
  <1>2. /\ poll \in Polls /\ poll.stream \in Inodes /\ poll.chunk = <<>>
        /\ failures \in Nat /\ poll.offset \in Nat
    BY <1>1, Types DEF CollectorInv, CollectorTypeOK, PointInv, NoPoll, Polls
  <1>3. CASE poll' = NoPoll
    BY <1>1, <1>2, <1>3, EndKeepsInv
  <1>4. CASE poll' = [poll EXCEPT !.at = "commit", !.chunk = Chunk]
    <2> DEFINE c == Chunk
    <2>1. /\ c \in Seq(Cells)
          /\ \A m \in 1 .. Len(c) : poll.offset + m \in 1 .. Len(File)
                                    /\ c[m] = File[poll.offset + m]
      BY <1>2, ChunkShape
    <2>2. poll' = [poll EXCEPT !.at = "commit", !.chunk = c]
      BY <1>4
    <2> HIDE DEF c
    <2>3. /\ poll'.at = "commit" /\ poll'.chunk = c /\ poll'.stream = poll.stream
          /\ poll'.offset = poll.offset /\ poll'.gap = poll.gap
          /\ poll'.generation = poll.generation /\ poll' \in Polls
      BY <1>2, <2>1, <2>2 DEF Polls
    <2>4. CellsInv /\ PlaceInv /\ LiveInv /\ PointInv /\ PlainInv
      BY DEF CollectorInv
    <2>5. /\ File' = File /\ content' = content /\ path' = path /\ written' = written
          /\ kept' = kept
      BY <1>1, <2>3 DEF File, fileVars
    <2>6. InPlace'
      BY <2>1, <2>3, <2>5, <1>2 DEF InPlace
    <2>7. \A m \in 1 .. Len(c) : ~InRaw(c[m])
      <3> SUFFICES ASSUME NEW m \in 1 .. Len(c), InRaw(c[m])
                   PROVE  FALSE
        OBVIOUS
      <3>1. poll.offset + m \in 1 .. Len(content[poll.stream])
            /\ c[m] = content[poll.stream][poll.offset + m]
        BY <2>1 DEF File
      <3>2. ~poll.gap /\ poll.offset + m <= state.cursor
        BY <1>2, <2>4, <3>1 DEF LiveInv
      <3>3. poll.offset = state.cursor
        BY <1>1, <2>4, <3>2 DEF PointInv
      <3> QED
        BY <1>2, <3>2, <3>3
    <2>8. CellsInv'
      <3>1. \A m \in 1 .. Len(c) : c[m].id < written
        BY <1>2, <2>1, <2>4 DEF CellsInv, File
      <3>2. \A m, n \in 1 .. Len(c) : c[m] = c[n] => m = n
        <4> SUFFICES ASSUME NEW m \in 1 .. Len(c), NEW n \in 1 .. Len(c), c[m] = c[n]
                     PROVE  m = n
          OBVIOUS
        <4>1. /\ poll.offset + m \in 1 .. Len(content[poll.stream])
              /\ poll.offset + n \in 1 .. Len(content[poll.stream])
              /\ content[poll.stream][poll.offset + m] = content[poll.stream][poll.offset + n]
          BY <2>1 DEF File
        <4>2. \A k, l \in 1 .. Len(content[poll.stream]) :
                content[poll.stream][k] = content[poll.stream][l] => k = l
          BY <1>2, <2>4 DEF CellsInv
        <4>3. poll.offset + m = poll.offset + n
          BY <4>1, <4>2
        <4> QED
          BY <1>2, <4>3
      <3> QED
        BY <1>1, <2>3, <2>4, <2>5, <2>7, <3>1, <3>2 DEF CellsInv, InRaw
    <2>9. LiveInv'
      <3> SUFFICES ASSUME NEW i \in Inodes, i \in {path, poll.stream},
                          NEW k \in 1 .. Len(content[i])
                   PROVE  /\ InRaw(content[i][k]) =>
                               /\ i = state.fingerprint
                               /\ k <= state.cursor /\ state.cursor <= Len(content[i])
                               /\ state.anchor = Before(content[i], state.cursor)
                               /\ ~poll.gap
                               /\ poll.stream \in {i, None}
                          /\ (\E m \in 1 .. Len(c) : c[m] = content[i][k]) => i = poll.stream
        BY <1>1, <2>3, <2>5, <2>6 DEF LiveInv, InRaw, InChunk
      <3>1. (\E m \in 1 .. Len(c) : c[m] = content[i][k]) => i = poll.stream
        <4> SUFFICES ASSUME NEW m \in 1 .. Len(c), c[m] = content[i][k]
                     PROVE  i = poll.stream
          OBVIOUS
        <4>1. /\ poll.offset + m \in 1 .. Len(content[poll.stream])
              /\ content[poll.stream][poll.offset + m] = content[i][k]
          BY <2>1 DEF File
        <4>2. \A l \in 1 .. Len(content[poll.stream]) :
                content[i][k] = content[poll.stream][l] => i = poll.stream
          BY <1>2, <2>4 DEF CellsInv
        <4> QED
          BY <4>1, <4>2
      <3> QED
        BY <2>4, <3>1 DEF LiveInv
    <2>10. PointInv'
      BY <1>1, <2>3, <2>4 DEF PointInv
    <2>11. changes = 0 => poll'.stream \in {path, None} /\ ~poll'.gap
      BY <2>3, <2>4 DEF PlainInv
    <2>12. PlaceInv'
      <3>1. \A m \in 1 .. Len(c) : c[m].place = poll.offset + m
        BY <1>2, <2>1, <2>4 DEF PlaceInv, File
      <3> QED
        BY <1>1, <2>3, <2>4, <2>5, <3>1 DEF PlaceInv
    <2> QED
      BY <1>1, <1>2, <2>3, <2>6, <2>8, <2>9, <2>10, <2>11, <2>12, PollStepKeeps
  <1> QED
    BY <1>3, <1>4 DEF ReadChunk

LEMMA FailKeepsInv ==
    ASSUME CollectorInv, Fail
    PROVE  CollectorInv'
  <1>1. failures' \in Nat /\ poll' = NoPoll /\ UNCHANGED <<fileVars, state, raw>>
    BY Types DEF Fail
  <1> QED
    BY <1>1, EndKeepsInv
-----------------------------------------------------------------------------
(* The commit.                                                              *)

(* What a commit knows: the rows are new, and lie from the offset to where  *)
(* the cursor will be.                                                      *)
LEMMA CommitFacts ==
    ASSUME CollectorInv, Commit
    PROVE  /\ poll.at = "commit" /\ poll.stream \in Inodes /\ poll.chunk \in Seq(Cells)
           /\ poll.offset \in Nat /\ poll.generation \in Nat
           /\ poll' = NoPoll /\ UNCHANGED <<fileVars, failures>>
           /\ raw' = raw \cup RowsOf(poll.chunk)
           /\ state'.cursor = Reached /\ state'.fingerprint = poll.stream
           /\ state'.anchor = Before(File, Reached) /\ state'.generation = poll.generation
           /\ state' \in States
           /\ Reached \in Nat /\ Reached >= poll.offset
           /\ Reached = poll.offset + Last(Taken(poll.chunk))
           /\ \/ poll.gap /\ poll.offset = 0 /\ poll.generation = state.generation + 1
              \/ ~poll.gap /\ poll.offset = state.cursor /\ poll.generation = state.generation
           /\ \A r \in RowsOf(poll.chunk) :
                 /\ r \in Rows /\ r.generation = poll.generation
                 /\ r.offset >= poll.offset /\ r.offset \in Nat
                 /\ End(r) <= Reached /\ End(r) > r.offset
                 /\ Len(r.cells) \in Nat /\ Len(r.cells) > 0
  <1>1. /\ poll.at = "commit" /\ raw' = raw \cup RowsOf(poll.chunk)
        /\ state' = [cursor |-> Reached, fingerprint |-> poll.stream,
                     anchor |-> Before(File, Reached), generation |-> poll.generation,
                     gaps |-> state.gaps + IF poll.gap THEN 1 ELSE 0]
        /\ poll' = NoPoll /\ UNCHANGED <<fileVars, failures>>
    BY DEF Commit, CommitAt
  <1>2. /\ poll.stream \in Inodes /\ poll.chunk \in Seq(Cells) /\ poll.offset \in Nat
        /\ poll.generation \in Nat /\ poll.gap \in BOOLEAN /\ state.gaps \in Nat
        /\ content \in [Inodes -> Seq(Cells)]
    BY <1>1, Types DEF NoPoll
  <1>3. Last(Taken(poll.chunk)) \in 0 .. Len(poll.chunk) /\ Len(poll.chunk) \in Nat
    BY <1>2, TakenReach
  <1>4. /\ Reached \in Nat /\ Reached >= poll.offset
        /\ Reached = poll.offset + Last(Taken(poll.chunk))
    BY <1>2, <1>3 DEF Reached
  <1>5. Before(File, Reached) \in Seq(Cells)
    <2>1. File \in Seq(Cells) /\ Len(File) \in Nat
      BY <1>2 DEF File
    <2>2. \A x \in Seq(Cells), lo \in Nat, hi \in Nat :
            lo > 0 /\ hi <= Len(x) => SubSeq(x, lo, hi) \in Seq(Cells)
      OBVIOUS
    <2>3. /\ (IF Reached > AnchorCells THEN Reached - AnchorCells + 1 ELSE 1) \in Nat \ {0}
          /\ (IF Reached < Len(File) THEN Reached ELSE Len(File)) \in 0 .. Len(File)
      BY <1>4, <2>1, CollectorAssumption
    <2> QED
      BY <2>1, <2>2, <2>3 DEF Before
  <1>6. /\ state'.cursor = Reached /\ state'.fingerprint = poll.stream
        /\ state'.anchor = Before(File, Reached) /\ state'.generation = poll.generation
    BY <1>1
  <1>7. state' \in States
    <2>1. state.gaps + (IF poll.gap THEN 1 ELSE 0) \in Nat
      BY <1>2
    <2> QED
      BY <1>1, <1>2, <1>4, <1>5, <2>1 DEF States
  <1>8. \/ poll.gap /\ poll.offset = 0 /\ poll.generation = state.generation + 1
        \/ ~poll.gap /\ poll.offset = state.cursor /\ poll.generation = state.generation
    BY <1>1 DEF CollectorInv, PointInv
  <1>9. ASSUME NEW r \in RowsOf(poll.chunk)
        PROVE  /\ r \in Rows /\ r.generation = poll.generation
               /\ r.offset >= poll.offset /\ r.offset \in Nat
               /\ End(r) <= Reached /\ End(r) > r.offset
               /\ Len(r.cells) \in Nat /\ Len(r.cells) > 0
    <2>1. PICK i \in Taken(poll.chunk), b \in Nat :
            /\ b < i /\ i \in Nat
            /\ r.generation = poll.generation /\ r.offset = poll.offset + b
            /\ r \in Rows /\ Len(r.cells) = i - b
      BY <1>2, RowShape
    <2>2. i <= Last(Taken(poll.chunk))
      BY <1>2, TakenReach
    <2>3. Len(r.cells) \in Nat /\ Len(r.cells) > 0
      BY <2>1
    <2>4. End(r) = poll.offset + i
      <3>1. poll.offset \in Nat /\ b \in Nat /\ i \in Nat
        BY <1>2, <2>1
      <3>2. poll.offset + b + (i - b) = poll.offset + i
        BY <3>1
      <3> QED
        BY <2>1, <3>2 DEF End
    <2>5. End(r) <= Reached
      BY <1>2, <1>3, <1>4, <2>1, <2>2, <2>4
    <2>6. /\ r.offset \in Nat /\ r.offset >= poll.offset /\ End(r) > r.offset
      <3>1. poll.offset \in Nat /\ b \in Nat /\ i \in Nat /\ b < i
        BY <1>2, <2>1
      <3>2. /\ poll.offset + b \in Nat /\ poll.offset + b >= poll.offset
            /\ poll.offset + i > poll.offset + b
        BY <3>1
      <3> QED
        BY <2>1, <2>4, <3>2
    <2> QED
      BY <2>1, <2>3, <2>5, <2>6
  <1> QED
    BY <1>1, <1>2, <1>4, <1>6, <1>7, <1>8, <1>9

(* Rows of one chunk lie one after the other.                               *)
LEMMA NewRowsApart ==
    ASSUME NEW chunk \in Seq(Cells), poll.offset \in Nat, poll.generation \in Nat,
           NEW r \in RowsOf(chunk), NEW q \in RowsOf(chunk), r # q
    PROVE  End(r) <= q.offset \/ End(q) <= r.offset
  <1> DEFINE o == poll.offset
  <1>1. PICK i \in Taken(chunk), b \in Nat :
          /\ b < i /\ i \in Nat
          /\ b = 0 \/ b \in Taken(chunk)
          /\ \A e \in Ends(chunk) : e < i => e <= b
          /\ r.generation = poll.generation /\ r.offset = o + b
          /\ r.cells = SubSeq(chunk, b + 1, i) /\ r \in Rows /\ Len(r.cells) = i - b
    BY RowShape
  <1>2. PICK j \in Taken(chunk), c \in Nat :
          /\ c < j /\ j \in Nat
          /\ c = 0 \/ c \in Taken(chunk)
          /\ \A e \in Ends(chunk) : e < j => e <= c
          /\ q.generation = poll.generation /\ q.offset = o + c
          /\ q.cells = SubSeq(chunk, c + 1, j) /\ q \in Rows /\ Len(q.cells) = j - c
    BY RowShape
  <1>3. Taken(chunk) \subseteq Ends(chunk) /\ o \in Nat
    BY DEF Taken
  <1> HIDE DEF o
  <1>4. End(r) = o + i
    <2>1. o + b + (i - b) = o + i
      BY <1>1, <1>3
    <2> QED
      BY <1>1, <2>1 DEF End
  <1>5. End(q) = o + j
    <2>1. o + c + (j - c) = o + j
      BY <1>2, <1>3
    <2> QED
      BY <1>2, <2>1 DEF End
  <1>6. CASE i < j
    <2>1. i <= c
      <3>1. i \in Ends(chunk)
        BY <1>3
      <3> QED
        BY <1>2, <1>6, <3>1
    <2>2. o + i <= o + c
      BY <1>1, <1>3, <2>1
    <2> QED
      BY <1>2, <1>4, <2>2
  <1>7. CASE j < i
    <2>1. j <= b
      <3>1. j \in Ends(chunk)
        BY <1>3
      <3> QED
        BY <1>1, <1>7, <3>1
    <2>2. o + j <= o + b
      BY <1>2, <1>3, <2>1
    <2> QED
      BY <1>1, <1>5, <2>2
  <1>8. CASE i = j
    <2>1. b = c
      <3>1. b = 0 \/ b <= c
        BY <1>1, <1>2, <1>3, <1>8
      <3>2. c = 0 \/ c <= b
        BY <1>1, <1>2, <1>3, <1>8
      <3> QED
        BY <3>1, <3>2
    <2>2. r = q
      <3>1. \A x \in Rows : x = [generation |-> x.generation, offset |-> x.offset,
                                 cells |-> x.cells]
        BY DEF Rows
      <3>2. r = [generation |-> poll.generation, offset |-> o + b,
                 cells |-> SubSeq(chunk, b + 1, i)]
        BY <1>1, <3>1
      <3>3. q = [generation |-> poll.generation, offset |-> o + c,
                 cells |-> SubSeq(chunk, c + 1, j)]
        BY <1>2, <3>1
      <3> QED
        BY <1>8, <2>1, <3>2, <3>3
    <2> QED
      BY <2>2
  <1> QED
    BY <1>1, <1>2, <1>6, <1>7, <1>8

LEMMA CommitContiguous ==
    ASSUME CollectorInv, Commit
    PROVE  CollectorTypeOK' /\ RowsAreContiguous'
  <1> DEFINE new == RowsOf(poll.chunk)
             g == poll.generation
             o == poll.offset
             R == Reached
  <1>1. /\ poll.at = "commit" /\ poll.stream \in Inodes /\ poll.chunk \in Seq(Cells)
        /\ o \in Nat /\ g \in Nat
        /\ poll' = NoPoll /\ UNCHANGED <<fileVars, failures>>
        /\ raw' = raw \cup new
        /\ state'.cursor = R /\ state'.fingerprint = poll.stream
        /\ state'.generation = g
        /\ state' \in States
        /\ R \in Nat /\ R >= o
        /\ R = o + Last(Taken(poll.chunk))
        /\ \/ poll.gap /\ o = 0 /\ g = state.generation + 1
           \/ ~poll.gap /\ o = state.cursor /\ g = state.generation
    BY CommitFacts
  <1>2. \A r \in new : /\ r \in Rows /\ r.generation = g
                       /\ r.offset >= o /\ r.offset \in Nat
                       /\ End(r) <= R /\ End(r) > r.offset
                       /\ Len(r.cells) \in Nat /\ Len(r.cells) > 0
    BY CommitFacts
  <1>3. \A r \in new, q \in new : r # q => End(r) <= q.offset \/ End(q) <= r.offset
    BY <1>1, NewRowsApart
  <1>4. \A i \in Taken(poll.chunk) : \E r \in new : r.generation = g /\ End(r) = o + i
    BY <1>1, RowAtEnd
  <1>5. \A r \in new : r.offset = o \/ \E i \in Taken(poll.chunk) : r.offset = o + i
    <2> SUFFICES ASSUME NEW r \in new
                 PROVE  r.offset = o \/ \E i \in Taken(poll.chunk) : r.offset = o + i
      OBVIOUS
    <2>1. PICK i \in Taken(poll.chunk), b \in Nat :
            /\ b = 0 \/ b \in Taken(poll.chunk)
            /\ r.offset = o + b
      BY <1>1, RowShape
    <2> QED
      BY <1>1, <2>1
  <1>6. R = o \/ \E i \in Taken(poll.chunk) : R = o + i
    <2>1. CASE Taken(poll.chunk) = {}
      <3>1. Last(Taken(poll.chunk)) = 0
        BY <1>1, <2>1, TakenReach
      <3> QED
        BY <1>1, <3>1
    <2>2. CASE Taken(poll.chunk) # {}
      <3>1. Last(Taken(poll.chunk)) \in Taken(poll.chunk)
        BY <1>1, <2>2, TakenReach
      <3> QED
        BY <1>1, <3>1
    <2> QED
      BY <2>1, <2>2
  <1> HIDE DEF new, g, o, R
  <1>7. /\ \A r \in raw : /\ r.generation <= state.generation
                          /\ r.generation = state.generation => End(r) <= state.cursor
                          /\ r.offset = 0 \/ \E q \in raw : q.generation = r.generation
                                                            /\ End(q) = r.offset
        /\ \A r, q \in raw : r.generation = q.generation /\ r # q =>
              End(r) <= q.offset \/ End(q) <= r.offset
        /\ state.cursor = 0 \/ \E r \in raw : r.generation = state.generation
                                               /\ End(r) = state.cursor
    BY DEF CollectorInv, RowsAreContiguous
  <1>8. /\ \A r \in raw : r.generation \in Nat /\ r.offset \in Nat /\ End(r) \in Nat
        /\ state.cursor \in Nat /\ state.generation \in Nat
    BY RawTypes
  <1>9. \A r \in raw : /\ r.generation <= g
                       /\ r.generation = g => ~poll.gap /\ End(r) <= o
    BY <1>1, <1>7, <1>8
  <1>10. o = 0 \/ \E r \in raw : r.generation = g /\ End(r) = o
    BY <1>1, <1>7
  <1>11. \A r \in raw \cup new :
            /\ r.generation <= g
            /\ r.generation = g => End(r) <= R
            /\ r.offset = 0 \/ \E q \in raw \cup new : q.generation = r.generation
                                                       /\ End(q) = r.offset
    <2>1. ASSUME NEW r \in raw PROVE r.generation = g => End(r) <= R
      BY <1>1, <1>8, <1>9
    <2>2. ASSUME NEW r \in new
          PROVE  r.offset = 0 \/ \E q \in raw \cup new : q.generation = r.generation
                                                         /\ End(q) = r.offset
      BY <1>2, <1>4, <1>5, <1>10
    <2> QED
      BY <1>1, <1>2, <1>7, <1>9, <2>1, <2>2
  <1>12. ASSUME NEW r \in raw \cup new, NEW q \in raw \cup new,
                r.generation = q.generation, r # q
         PROVE  End(r) <= q.offset \/ End(q) <= r.offset
    <2>1. CASE r \in raw /\ q \in raw
      BY <1>7, <1>12, <2>1
    <2>2. CASE r \in new /\ q \in new
      BY <1>3, <1>12, <2>2
    <2>3. CASE r \in raw /\ q \in new
      BY <1>1, <1>2, <1>8, <1>9, <1>12, <2>3
    <2>4. CASE r \in new /\ q \in raw
      BY <1>1, <1>2, <1>8, <1>9, <1>12, <2>4
    <2> QED
      BY <2>1, <2>2, <2>3, <2>4
  <1>13. R = 0 \/ \E r \in raw \cup new : r.generation = g /\ End(r) = R
    BY <1>4, <1>6, <1>10
  <1>14. RowsAreContiguous'
    BY <1>1, <1>11, <1>12, <1>13 DEF RowsAreContiguous, End
  <1>15. CollectorTypeOK'
    <2>1. raw' \subseteq Rows
      BY <1>1, <1>2, Types
    <2>2. state'.fingerprint # None
      BY <1>1, CollectorAssumption
    <2>3. /\ content' = content /\ path' = path /\ written' = written /\ changes' = changes
          /\ failures' = failures /\ kept' = kept
      BY <1>1 DEF fileVars
    <2> QED
      BY <1>1, <2>1, <2>2, <2>3, Types DEF CollectorTypeOK
  <1> QED
    BY <1>14, <1>15

(* A cell of a new row is one of the chunk, at the place of the row.        *)
LEMMA NewCell ==
    ASSUME CollectorInv, Commit, NEW r \in RowsOf(poll.chunk), NEW k \in 1 .. Len(r.cells)
    PROVE  \E m \in 1 .. Len(poll.chunk) :
              /\ r.cells[k] = poll.chunk[m] /\ poll.offset + m <= Reached
              /\ r.offset + k = poll.offset + m
              /\ r.offset < poll.offset + m /\ poll.offset + m <= End(r)
  <1> DEFINE o == poll.offset
  <1>1. /\ poll.chunk \in Seq(Cells) /\ o \in Nat /\ poll.generation \in Nat
        /\ Reached = o + Last(Taken(poll.chunk))
    BY CommitFacts
  <1>2. PICK i \in Taken(poll.chunk), b \in Nat :
          /\ b < i /\ i <= Len(poll.chunk) /\ i \in Nat
          /\ r.offset = o + b
          /\ Len(r.cells) = i - b /\ \A n \in 1 .. i - b : r.cells[n] = poll.chunk[b + n]
    BY <1>1, RowShape, ZenonT(30)
  <1>3. i <= Last(Taken(poll.chunk)) /\ Last(Taken(poll.chunk)) \in Nat /\ Len(poll.chunk) \in Nat
    BY <1>1, TakenReach
  <1> HIDE DEF o
  <1>4. k \in 1 .. i - b
    BY <1>2
  <1>5. /\ b + k \in 1 .. Len(poll.chunk) /\ b + k <= i
        /\ r.cells[k] = poll.chunk[b + k]
    BY <1>2, <1>3, <1>4
  <1>6. End(r) = o + i
    <2>1. o + b + (i - b) = o + i
      BY <1>1, <1>2
    <2> QED
      BY <1>2, <2>1 DEF End
  <1>7. /\ o + (b + k) <= Reached /\ o + b < o + (b + k) /\ o + (b + k) <= o + i
        /\ o + b + k = o + (b + k)
    BY <1>1, <1>2, <1>3, <1>4, <1>5
  <1> QED
    BY <1>2, <1>5, <1>6, <1>7 DEF o

LEMMA CommitOnce ==
    ASSUME CollectorInv, Commit
    PROVE  ReceivedOnce' /\ CellsInv' /\ PlaceInv'
  <1> DEFINE new == RowsOf(poll.chunk)
  <1>1. /\ raw' = raw \cup new /\ poll' = NoPoll
        /\ content' = content /\ written' = written /\ kept' = kept
        /\ \A r \in new : Len(r.cells) > 0 /\ r.generation = poll.generation
    BY CommitFacts DEF fileVars
  <1>2. ASSUME NEW r \in new, NEW k \in 1 .. Len(r.cells)
        PROVE  \E m \in 1 .. Len(poll.chunk) :
                  r.cells[k] = poll.chunk[m] /\ r.offset + k = poll.offset + m
    BY NewCell
  <1>3. /\ CollectorTypeOK' /\ RowsAreContiguous'
        /\ CellsInv /\ PlaceInv /\ ReceivedOnce
    BY CommitContiguous DEF CollectorInv
  <1> HIDE DEF new
  <1>4. ASSUME NEW r \in new, NEW k \in 1 .. Len(r.cells)
        PROVE  /\ r.cells[k].id < written /\ ~InRaw(r.cells[k])
               /\ r.cells[k].place = r.offset + k
    BY <1>2, <1>3 DEF CellsInv, PlaceInv
  <1>5. 1 .. Len(poll'.chunk) = {}
    BY <1>1 DEF NoPoll
  <1>6. CellsInv'
    <2>1. \A r \in raw' : Len(r.cells) > 0 /\ \A k \in 1 .. Len(r.cells) : r.cells[k].id < written
      BY <1>1, <1>3, <1>4 DEF CellsInv
    <2> QED
      BY <1>1, <1>3, <1>5, <2>1 DEF CellsInv
  <1>7. PlaceInv'
    BY <1>1, <1>3, <1>4, <1>5 DEF PlaceInv
  <1>8. ASSUME NEW r \in raw', NEW q \in raw', r # q,
               NEW i \in 1 .. Len(r.cells), NEW j \in 1 .. Len(q.cells), r.cells[i] = q.cells[j]
        PROVE  r.generation # q.generation
    <2>1. /\ r.offset \in Nat /\ q.offset \in Nat /\ Len(r.cells) \in Nat /\ Len(q.cells) \in Nat
      <3>1. r \in Rows /\ q \in Rows
        BY <1>3 DEF CollectorTypeOK
      <3> QED
        BY <3>1 DEF Rows
    <2>2. r.offset + i = q.offset + j
      BY <1>7, <1>8 DEF PlaceInv
    <2>3. r.generation = q.generation =>
            r.offset + Len(r.cells) <= q.offset \/ q.offset + Len(q.cells) <= r.offset
      BY <1>3, <1>8 DEF RowsAreContiguous, End
    <2> QED
      BY <2>1, <2>2, <2>3
  <1>9. ReceivedOnce'
    <2> SUFFICES ASSUME NEW r \in raw', NEW q \in raw',
                        NEW i \in 1 .. Len(r.cells), NEW j \in 1 .. Len(q.cells),
                        r.cells[i] = q.cells[j], r # q
                 PROVE  r.cells[i].id \in kept /\ r.generation # q.generation
      BY <1>1 DEF ReceivedOnce
    <2>1. r.generation # q.generation
      BY <1>8
    <2>2. CASE r \in raw /\ q \in raw
      BY <1>3, <2>2 DEF ReceivedOnce
    <2>3. CASE r \in new /\ q \in raw
      BY <1>4, <2>1, <2>3 DEF InRaw
    <2>4. CASE r \in raw /\ q \in new
      BY <1>4, <2>1, <2>4 DEF InRaw
    <2>5. CASE r \in new /\ q \in new
      BY <1>1, <2>1, <2>5
    <2> QED
      BY <1>1, <2>2, <2>3, <2>4, <2>5
  <1> QED
    BY <1>6, <1>7, <1>9

LEMMA CommitLive ==
    ASSUME CollectorInv, Commit
    PROVE  LiveInv' /\ PointInv'
  <1> DEFINE R == Reached
             o == poll.offset
             chunk == poll.chunk
  <1>1. /\ raw' = raw \cup RowsOf(chunk) /\ poll' = NoPoll /\ UNCHANGED fileVars
        /\ poll.stream \in Inodes /\ chunk \in Seq(Cells) /\ o \in Nat
        /\ state'.cursor = R /\ state'.fingerprint = poll.stream
        /\ state'.anchor = Before(File, R) /\ R \in Nat /\ R >= o
        /\ ~poll.gap => o = state.cursor
    BY CommitFacts
  <1>2. poll'.chunk = <<>> /\ poll'.stream = None /\ ~poll'.gap /\ poll'.at = "idle"
    BY <1>1 DEF NoPoll
  <1>3. PointInv'
    BY <1>2 DEF PointInv
  <1>4. content' = content /\ path' = path /\ kept' = kept
    BY <1>1 DEF fileVars
  <1>5. InPlace'
    BY <1>2 DEF InPlace
  <1>6. InPlace /\ R > o => R <= Len(File)
    <2> SUFFICES ASSUME InPlace, R > o
                 PROVE  R <= Len(File)
      OBVIOUS
    <2>1. R = o + Last(Taken(chunk)) /\ Last(Taken(chunk)) \in 0 .. Len(chunk) /\ Len(chunk) \in Nat
      BY <1>1, TakenReach DEF Reached
    <2>2. Last(Taken(chunk)) \in 1 .. Len(chunk)
      BY <1>1, <2>1
    <2> QED
      BY <2>1, <2>2 DEF InPlace
  <1>7. ASSUME NEW i \in Inodes, i = path, NEW k \in 1 .. Len(content[i]),
               content[i][k].id \notin kept,
               NEW r \in raw', NEW x \in 1 .. Len(r.cells), r.cells[x] = content[i][k]
        PROVE  /\ i = poll.stream /\ k <= R /\ R <= Len(content[i])
    <2>1. Len(content[i]) \in Nat /\ k \in Nat /\ k <= Len(content[i]) /\ state.cursor \in Nat
      BY <1>7, Types
    <2>2. CASE r \in raw
      <3>1. InRaw(content[i][k])
        BY <1>7, <2>2 DEF InRaw
      <3>2. /\ k <= state.cursor /\ state.cursor <= Len(content[i])
            /\ ~poll.gap /\ poll.stream \in {i, None} /\ InPlace
        BY <1>7, <3>1 DEF CollectorInv, LiveInv
      <3>3. i = poll.stream /\ o = state.cursor /\ File = content[i]
        BY <1>1, <3>2, CollectorAssumption DEF File
      <3> QED
        BY <1>1, <1>6, <2>1, <3>2, <3>3
    <2>3. CASE r \in RowsOf(chunk)
      <3>1. PICK m \in 1 .. Len(chunk) : r.cells[x] = chunk[m] /\ o + m <= R
        <4>1. \E m \in 1 .. Len(poll.chunk) :
                /\ r.cells[x] = poll.chunk[m] /\ poll.offset + m <= Reached
                /\ r.offset + x = poll.offset + m
                /\ r.offset < poll.offset + m /\ poll.offset + m <= End(r)
          BY <2>3, NewCell
        <4> QED
          BY <4>1
      <3>2. InChunk(content[i][k])
        BY <1>7, <3>1 DEF InChunk
      <3>3. i = poll.stream /\ InPlace
        BY <1>7, <3>2 DEF CollectorInv, LiveInv
      <3>4. o + m <= Len(content[i]) /\ content[i][o + m] = content[i][k]
        BY <1>7, <3>1, <3>3 DEF InPlace, File
      <3>5. o + m \in 1 .. Len(content[i])
        BY <1>1, <2>1, <3>4
      <3>6. \A a, b \in 1 .. Len(content[i]) : content[i][a] = content[i][b] => a = b
        BY DEF CollectorInv, CellsInv
      <3>7. k = o + m
        BY <3>4, <3>5, <3>6
      <3>8. R > o
        BY <1>1, <3>1
      <3> QED
        BY <1>6, <3>1, <3>3, <3>7, <3>8 DEF File
    <2> QED
      BY <1>1, <2>2, <2>3
  <1>8. LiveInv'
    <2> HIDE DEF R, o, chunk
    <2> SUFFICES ASSUME NEW i \in Inodes, i = path, NEW k \in 1 .. Len(content[i]),
                        content[i][k].id \notin kept,
                        NEW r \in raw', NEW x \in 1 .. Len(r.cells), r.cells[x] = content[i][k]
                 PROVE  /\ i = poll.stream
                        /\ k <= R /\ R <= Len(content[i])
                        /\ Before(File, R) = Before(content[i], R)
      <3>1. \A i \in Inodes : i \in {path', poll'.stream} => i = path
        BY <1>2, <1>4, CollectorAssumption
      <3>2. \A c : InChunk(c)' <=> FALSE
        BY <1>2 DEF InChunk
      <3> QED
        BY <1>1, <1>2, <1>4, <1>5, <3>1, <3>2 DEF LiveInv, InRaw, InChunk
    <2>1. i = poll.stream /\ k <= R /\ R <= Len(content[i])
      BY <1>7
    <2> QED
      BY <2>1 DEF File
  <1> QED
    BY <1>3, <1>8

LEMMA CommitPlain ==
    ASSUME CollectorInv, Commit
    PROVE  PlainInv' /\ AppendedIsCollected'
  <1> DEFINE R == Reached
             o == poll.offset
             chunk == poll.chunk
  <1>1. /\ raw' = raw \cup RowsOf(chunk) /\ poll' = NoPoll /\ UNCHANGED fileVars
        /\ poll.stream \in Inodes /\ chunk \in Seq(Cells) /\ o \in Nat /\ poll.generation \in Nat
        /\ state'.cursor = R /\ state'.fingerprint = poll.stream
        /\ state'.anchor = Before(File, R) /\ R \in Nat /\ R >= o
        /\ R = o + Last(Taken(chunk))
        /\ ~poll.gap => o = state.cursor
    BY CommitFacts
  <1>2. poll'.chunk = <<>> /\ poll'.stream = None /\ ~poll'.gap
    BY <1>1 DEF NoPoll
  <1>3. Now' = Now /\ changes' = changes /\ path' = path
    BY <1>1 DEF fileVars, Now
  <1>4. ASSUME changes = 0
        PROVE  /\ path # None /\ poll.stream = path /\ File = Now /\ Now \in Seq(Cells)
               /\ o <= Len(Now) /\ o = state.cursor
               /\ o = 0 \/ Now[o].end
               /\ \A r \in raw : End(r) <= o
               /\ \A m \in 1 .. Len(chunk) : o + m <= Len(Now) /\ Now[o + m] = chunk[m]
    <2>1. /\ path # None /\ poll.stream \in {path, None} /\ ~poll.gap /\ InPlace
          /\ state.cursor <= Len(Now)
          /\ state.cursor = 0 \/ Now[state.cursor].end
          /\ \A r \in raw : End(r) <= state.cursor
      BY <1>4 DEF CollectorInv, PlainInv
    <2>2. poll.stream = path /\ o = state.cursor
      BY <1>1, <2>1, CollectorAssumption
    <2>3. File = Now /\ Now \in Seq(Cells)
      BY <1>1, <2>2, Types DEF File, Now
    <2>4. \A m \in 1 .. Len(chunk) : o + m <= Len(Now) /\ Now[o + m] = chunk[m]
      BY <2>1, <2>3 DEF InPlace
    <2> QED
      BY <2>1, <2>2, <2>3, <2>4
  <1>5. \A i \in Taken(chunk) : i \in 1 .. Len(chunk) /\ chunk[i].end /\ i <= Last(Taken(chunk))
    BY <1>1, TakenReach
  <1>6. R = o \/ \E i \in Taken(chunk) : R = o + i
    <2>1. CASE Taken(chunk) = {}
      <3>1. Last(Taken(chunk)) = 0
        BY <1>1, <2>1, TakenReach
      <3> QED
        BY <1>1, <3>1
    <2>2. CASE Taken(chunk) # {}
      <3>1. Last(Taken(chunk)) \in Taken(chunk)
        BY <1>1, <2>2, TakenReach
      <3> QED
        BY <1>1, <3>1
    <2> QED
      BY <2>1, <2>2
  <1>7. ASSUME NEW r \in RowsOf(chunk)
        PROVE  /\ End(r) <= R
               /\ changes = 0 => /\ r.cells = SubSeq(Now, r.offset + 1, End(r))
                                 /\ r.offset = 0 \/ Now[r.offset].end
                                 /\ Now[End(r)].end
    <2>1. PICK i \in Taken(chunk), b \in Nat :
            /\ b < i /\ i <= Len(chunk) /\ i \in Nat /\ chunk[i].end
            /\ b = 0 \/ (b \in Taken(chunk) /\ chunk[b].end)
            /\ r.offset = o + b
            /\ r.cells = SubSeq(chunk, b + 1, i) /\ r \in Rows
            /\ Len(r.cells) = i - b /\ \A k \in 1 .. i - b : r.cells[k] = chunk[b + k]
      BY <1>1, RowShape
    <2> HIDE DEF R, o, chunk
    <2>2. End(r) = o + i
      <3>1. o \in Nat
        BY <1>1
      <3>2. o + b + (i - b) = o + i
        BY <2>1, <3>1
      <3> QED
        BY <2>1, <3>2 DEF End
    <2>3. End(r) <= R
      <3>1. i <= Last(Taken(chunk)) /\ Last(Taken(chunk)) \in 0 .. Len(chunk) /\ o \in Nat
        BY <1>1, TakenReach
      <3> QED
        BY <1>1, <2>1, <2>2, <3>1
    <2>4. ASSUME changes = 0
          PROVE  /\ r.cells = SubSeq(Now, r.offset + 1, End(r))
                 /\ r.offset = 0 \/ Now[r.offset].end
                 /\ Now[End(r)].end
      <3>1. /\ Now \in Seq(Cells)
            /\ o = 0 \/ Now[o].end
            /\ \A m \in 1 .. Len(chunk) : o + m <= Len(Now) /\ Now[o + m] = chunk[m]
        BY <1>4, <2>4
      <3>2. Now[End(r)].end
        BY <1>5, <2>1, <2>2, <3>1
      <3>3. r.offset = 0 \/ Now[r.offset].end
        <4>1. CASE b = 0
          BY <1>1, <2>1, <3>1, <4>1
        <4>2. CASE b \in Taken(chunk)
          BY <1>5, <2>1, <3>1, <4>2
        <4> QED
          BY <2>1, <4>1, <4>2
      <3>4. /\ o + b \in Nat /\ o + i \in Nat /\ o + b <= o + i /\ o + i <= Len(Now)
            /\ (o + i) - (o + b) = i - b
        <4>1. o \in Nat /\ Len(Now) \in Nat
          BY <1>1, <3>1
        <4>2. o + i <= Len(Now)
          BY <1>5, <3>1
        <4>3. i \in Nat /\ b < i
          BY <2>1
        <4>4. (o + i) - (o + b) = i - b
          BY <4>1, <4>3
        <4> QED
          BY <4>1, <4>2, <4>3, <4>4
      <3> DEFINE x == o + b
                 y == o + i
      <3>5. x \in Nat /\ y \in Nat /\ x <= y /\ y <= Len(Now) /\ y - x = i - b
        BY <3>4
      <3>6. \A k \in 1 .. i - b : Now[x + k] = chunk[b + k]
        <4> SUFFICES ASSUME NEW k \in 1 .. i - b PROVE Now[o + b + k] = chunk[b + k]
          OBVIOUS
        <4>1. Len(chunk) \in Nat /\ o \in Nat
          BY <1>1
        <4>2. b + k \in 1 .. Len(chunk) /\ o + b + k = o + (b + k)
          BY <2>1, <4>1
        <4> QED
          BY <3>1, <4>2
      <3> HIDE DEF x, y
      <3>7. /\ SubSeq(Now, x + 1, y) \in Seq(Cells)
            /\ Len(SubSeq(Now, x + 1, y)) = y - x
            /\ \A k \in 1 .. y - x : SubSeq(Now, x + 1, y)[k] = Now[x + k]
        BY <3>1, <3>5, Part
      <3>8. \A k \in 1 .. i - b : SubSeq(Now, x + 1, y)[k] = r.cells[k]
        BY <2>1, <3>5, <3>6, <3>7
      <3>9. r.cells \in Seq(Cells) /\ Len(r.cells) = i - b
        BY <2>1 DEF Rows
      <3>10. r.cells = SubSeq(Now, x + 1, y)
        BY <3>5, <3>7, <3>8, <3>9, SeqEqual
      <3> QED
        BY <2>1, <2>2, <3>2, <3>3, <3>10 DEF x, y
    <2> QED
      BY <2>3, <2>4
  <1>8. PlainInv'
    <2> SUFFICES ASSUME changes = 0
                 PROVE  /\ path # None /\ poll.stream \in {path, None}
                        /\ R <= Len(Now) /\ state'.anchor = Before(Now, R)
                        /\ R = 0 \/ Now[R].end
                        /\ \A r \in raw' : End(r) <= R
      BY <1>1, <1>2, <1>3 DEF PlainInv, InPlace, End
    <2>1. /\ path # None /\ poll.stream = path /\ File = Now
          /\ o <= Len(Now) /\ (o = 0 \/ Now[o].end)
          /\ \A r \in raw : End(r) <= o
          /\ \A m \in 1 .. Len(chunk) : o + m <= Len(Now) /\ Now[o + m] = chunk[m]
      BY <1>4
    <2> HIDE DEF R, o, chunk
    <2>2. R <= Len(Now) /\ (R = 0 \/ Now[R].end)
      BY <1>5, <1>6, <2>1
    <2>3. \A r \in raw : End(r) <= R
      <3> SUFFICES ASSUME NEW r \in raw PROVE End(r) <= R
        OBVIOUS
      <3>1. End(r) \in Nat
        BY RawTypes
      <3> QED
        BY <1>1, <2>1, <3>1
    <2> QED
      BY <1>1, <1>7, <2>1, <2>2, <2>3
  <1>9. AppendedIsCollected'
    <2> SUFFICES ASSUME changes = 0, NEW r \in raw'
                 PROVE  /\ r.cells = SubSeq(Now, r.offset + 1, End(r))
                        /\ r.offset = 0 \/ Now[r.offset].end
                        /\ Now[End(r)].end
      BY <1>3 DEF AppendedIsCollected, End
    <2>1. CASE r \in raw
      BY <2>1 DEF CollectorInv, AppendedIsCollected
    <2> QED
      BY <1>1, <1>7, <2>1
  <1> QED
    BY <1>8, <1>9

LEMMA CommitKeepsInv ==
    ASSUME CollectorInv, Commit
    PROVE  CollectorInv'
  BY CommitContiguous, CommitOnce, CommitLive, CommitPlain DEF CollectorInv
-----------------------------------------------------------------------------
LEMMA InitMeetsInv ==
    ASSUME CollectorInit
    PROVE  CollectorInv
  <1>1. /\ content = [i \in Inodes |-> <<>>] /\ path \in Inodes
        /\ written = 0 /\ changes = 0 /\ kept = {} /\ raw = {} /\ failures = 0 /\ poll = NoPoll
        /\ state = [cursor |-> 0, fingerprint |-> None, anchor |-> <<>>,
                    generation |-> 0, gaps |-> 0]
    BY DEF CollectorInit
  <1>2. <<>> \in Seq(Cells) /\ Len(<<>>) = 0 /\ 1 .. 0 = {}
    OBVIOUS
  <1>3. /\ poll.at = "idle" /\ poll.stream = None /\ poll.chunk = <<>> /\ ~poll.gap
    BY <1>1 DEF NoPoll
  <1>4. CollectorTypeOK
    BY <1>1, <1>2 DEF CollectorTypeOK, States
  <1>5. RowsAreContiguous /\ ReceivedOnce /\ AppendedIsCollected
    BY <1>1 DEF RowsAreContiguous, ReceivedOnce, AppendedIsCollected
  <1>6. \A i \in Inodes : 1 .. Len(content[i]) = {}
    BY <1>1, <1>2
  <1>7. CellsInv
    BY <1>1, <1>2, <1>3, <1>6 DEF CellsInv
  <1>8. PointInv
    BY <1>3 DEF PointInv
  <1>11. PlaceInv
    BY <1>1, <1>2, <1>3, <1>6 DEF PlaceInv
  <1>9. LiveInv
    BY <1>6 DEF LiveInv
  <1>10. PlainInv
    <2>1. InPlace
      BY <1>2, <1>3 DEF InPlace
    <2>2. Now = <<>> /\ state.cursor = 0 /\ state.anchor = <<>> /\ state.fingerprint = None
      BY <1>1 DEF Now
    <2>3. Before(<<>>, 0) = <<>>
      BY <1>2, CollectorAssumption, SubSeqEmpty DEF Before
    <2>4. path # None
      BY <1>1, CollectorAssumption
    <2> QED
      BY <1>1, <1>2, <1>3, <2>1, <2>2, <2>3, <2>4 DEF PlainInv
  <1> QED
    BY <1>4, <1>5, <1>7, <1>8, <1>9, <1>10, <1>11 DEF CollectorInv

LEMMA NextKeepsInv ==
    ASSUME CollectorInv, [Next]_vars
    PROVE  CollectorInv'
  <1>1. CASE Poll
    BY <1>1, OpenKeepsInv, CompareKeepsInv, ReadChunkKeepsInv, CommitKeepsInv DEF Poll
  <1>2. CASE Writer
    BY <1>2, WriteKeepsInv, ResetKeepsInv DEF Writer
  <1>3. CASE UNCHANGED vars
    BY <1>3 DEF vars, fileVars, CollectorInv, CollectorTypeOK, RowsAreContiguous, ReceivedOnce,
        AppendedIsCollected, CellsInv, PlaceInv, PointInv, LiveInv, PlainInv, InRaw, InChunk, InPlace,
        End, Now, File
  <1> QED
    BY <1>1, <1>2, <1>3, FailKeepsInv DEF Next

(* The invariant holds in every run.                                        *)
THEOREM CollectorInvariant == Spec => []CollectorInv
  <1>1. CollectorInit => CollectorInv
    BY InitMeetsInv
  <1>2. CollectorInv /\ [Next]_vars => CollectorInv'
    BY NextKeepsInv
  <1> QED
    BY <1>1, <1>2, PTL DEF Spec

(* The rows of the collector's database and the local variables of a poll   *)
(* have their types, and there are rows and a position only once a file was *)
(* read.                                                                    *)
THEOREM CollectorTypes == Spec => []CollectorTypeOK
  <1>1. CollectorInv => CollectorTypeOK
    BY DEF CollectorInv
  <1> QED
    BY <1>1, CollectorInvariant, PTL

(* The evidence of a generation has no holes and no overlaps, however polls *)
(* fail and the file is written, truncated and rotated meanwhile.           *)
THEOREM RowsAreContiguousHolds == Spec => []RowsAreContiguous
  <1>1. CollectorInv => RowsAreContiguous
    BY DEF CollectorInv
  <1> QED
    BY <1>1, CollectorInvariant, PTL

(* No part of a line becomes evidence twice, also when a generation begins  *)
(* anew.                                                                    *)
THEOREM NothingIsReceivedTwice == Spec => []ReceivedOnce
  <1>1. CollectorInv => ReceivedOnce
    BY DEF CollectorInv
  <1> QED
    BY <1>1, CollectorInvariant, PTL

(* The evidence of a file that is only appended to is its lines.            *)
THEOREM AppendedFilesAreCollected == Spec => []AppendedIsCollected
  <1>1. CollectorInv => AppendedIsCollected
    BY DEF CollectorInv
  <1> QED
    BY <1>1, CollectorInvariant, PTL
-----------------------------------------------------------------------------
(* The promise: each commit adds whole lines where the last ones ended, or  *)
(* from the start of a new generation, with a gap.                          *)

LEMMA HasMin ==
    ASSUME NEW T \in SUBSET Nat, T # {}
    PROVE  \E i \in T : \A j \in T : i <= j
  <1>1. PICK x \in T : \A y \in T : ~ (<<y, x>> \in OpToRel(<,Nat))
    BY NatLessThanWellFounded, WFMin
  <1>2. \A y \in T : ~ (y < x)
    BY <1>1 DEF OpToRel
  <1> QED
    BY <1>2

(* A row is one line: it ends with its last cell, and nowhere before.       *)
LEMMA RowIsWhole ==
    ASSUME NEW chunk \in Seq(Cells), poll.offset \in Nat, poll.generation \in Nat,
           NEW r \in RowsOf(chunk)
    PROVE  Promise!Whole(r)
  <1>1. PICK i \in Taken(chunk), b \in Nat :
          /\ b < i /\ i <= Len(chunk) /\ i \in Nat /\ chunk[i].end
          /\ \A j \in Ends(chunk) : j < i => j <= b
          /\ Len(r.cells) = i - b /\ \A k \in 1 .. i - b : r.cells[k] = chunk[b + k]
    BY RowShape
  <1>2. Len(chunk) \in Nat
    OBVIOUS
  <1>3. ASSUME NEW k \in 1 .. i - b
        PROVE  r.cells[k].end <=> k = i - b
    <2>1. b + k \in 1 .. Len(chunk) /\ r.cells[k] = chunk[b + k] /\ k \in Nat
      BY <1>1, <1>2, <1>3
    <2>2. CASE k = i - b
      <3>1. b + k = i
        BY <1>1, <2>2
      <3> QED
        BY <1>1, <2>1, <2>2, <3>1
    <2>3. CASE k # i - b
      <3>1. b + k < i /\ ~ (b + k <= b)
        BY <1>1, <1>3, <2>3
      <3>2. b + k \notin Ends(chunk)
        BY <1>1, <3>1
      <3>3. ~ chunk[b + k].end
        BY <2>1, <3>2 DEF Ends
      <3> QED
        BY <2>1, <2>3, <3>3
    <2> QED
      BY <2>2, <2>3
  <1>4. i - b \in Nat /\ i - b > 0
    BY <1>1
  <1> QED
    BY <1>1, <1>3, <1>4 DEF Promise!Whole

(* The first line that ends at a place or behind it begins before it.       *)
LEMMA RowsCover ==
    ASSUME NEW chunk \in Seq(Cells), poll.offset \in Nat, poll.generation \in Nat,
           NEW k \in poll.offset + 1 .. poll.offset + Last(Taken(chunk))
    PROVE  \E r \in RowsOf(chunk) : r.offset < k /\ k <= End(r)
  <1> DEFINE o == poll.offset
             m == k - o
             D == {i \in Taken(chunk) : m <= i}
  <1>1. /\ Last(Taken(chunk)) \in Nat
        /\ Taken(chunk) = {} => Last(Taken(chunk)) = 0
        /\ Taken(chunk) # {} => Last(Taken(chunk)) \in Taken(chunk)
        /\ Taken(chunk) \subseteq Nat
    BY TakenReach
  <1>2. m \in Nat /\ m > 0 /\ m <= Last(Taken(chunk)) /\ k = o + m
    BY <1>1
  <1>3. D # {} /\ D \in SUBSET Nat
    BY <1>1, <1>2
  <1>4. PICK i \in D : \A j \in D : i <= j
    BY <1>3, HasMin
  <1>5. i \in Taken(chunk) /\ i \in Nat /\ m <= i
    BY <1>3, <1>4
  <1>6. PICK r \in RowsOf(chunk) : End(r) = o + i
    BY <1>5, RowAtEnd
  <1>7. PICK e \in Taken(chunk), b \in Nat :
          /\ b < e /\ e \in Nat
          /\ b = 0 \/ b \in Taken(chunk)
          /\ r.offset = o + b /\ Len(r.cells) = e - b
    BY RowShape
  <1>8. e = i
    <2>1. o + b + (e - b) = o + e
      <3>1. o \in Nat /\ b \in Nat /\ e \in Nat
        BY <1>7
      <3> HIDE DEF o
      <3> QED
        BY <3>1
    <2> QED
      BY <1>5, <1>6, <1>7, <2>1 DEF End
  <1>9. b < m
    <2>1. b \in D => i <= b
      BY <1>4
    <2>2. b \notin D
      BY <1>5, <1>7, <1>8, <2>1
    <2> QED
      BY <1>2, <1>7, <2>2
  <1> HIDE DEF m, D
  <1>10. o + b < k /\ k <= o + i
    BY <1>2, <1>5, <1>7, <1>9
  <1> QED
    BY <1>6, <1>7, <1>10

(* What is added is new, and fills the way to the cursor.                   *)
LEMMA CommitIsPromised ==
    ASSUME CollectorInv, Commit
    PROVE  Promise!Continue \/ Promise!Restart
  <1> DEFINE new == RowsOf(poll.chunk)
             o == poll.offset
             R == Reached
  <1>1. /\ poll.chunk \in Seq(Cells) /\ o \in Nat /\ poll.generation \in Nat
        /\ raw' = raw \cup new
        /\ state'.cursor = R /\ state'.generation = poll.generation
        /\ R \in Nat /\ R = o + Last(Taken(poll.chunk))
        /\ \/ poll.gap /\ o = 0 /\ poll.generation = state.generation + 1
           \/ ~poll.gap /\ o = state.cursor /\ poll.generation = state.generation
    BY CommitFacts
  <1>2. \A r \in new : /\ r.generation = poll.generation
                       /\ r.offset >= o /\ r.offset \in Nat
                       /\ End(r) <= R /\ End(r) > r.offset
    BY CommitFacts
  <1>3. /\ \A r \in raw : /\ r.generation <= state.generation
                          /\ r.generation = state.generation => End(r) <= state.cursor
        /\ \A r \in raw : r.generation \in Nat /\ End(r) \in Nat
        /\ state.cursor \in Nat /\ state.generation \in Nat
    BY RawTypes DEF CollectorInv, RowsAreContiguous
  <1>4. \A r \in new : r \notin raw
    <2> SUFFICES ASSUME NEW r \in new, r \in raw PROVE FALSE
      OBVIOUS
    <2>1. /\ r.generation <= state.generation
          /\ r.generation = state.generation => End(r) <= state.cursor
          /\ End(r) \in Nat
      BY <1>3
    <2>2. r.generation = poll.generation /\ r.offset >= o /\ End(r) > r.offset /\ r.offset \in Nat
      BY <1>2
    <2> HIDE DEF o, new
    <2> QED
      BY <1>1, <1>3, <2>1, <2>2
  <1>5. raw' \ raw = new /\ raw \subseteq raw'
    BY <1>1, <1>4
  <1>6. \A r \in new : r.generation = state'.generation /\ Promise!Whole(r)
    BY <1>1, <1>2, RowIsWhole
  <1>7. \A r \in new : End(r) = Promise!Behind(r)
    BY DEF End, Promise!Behind
  <1>8. Promise!Fill(new, o, state'.cursor)
    <2>1. \A r \in new : o <= r.offset /\ End(r) <= R
      BY <1>1, <1>2
    <2>2. \A k \in o + 1 .. R : \E r \in new : r.offset < k /\ k <= End(r)
      BY <1>1, RowsCover
    <2>3. \A r, q \in new : r # q => End(r) <= q.offset \/ End(q) <= r.offset
      BY <1>1, NewRowsApart
    <2> HIDE DEF new, o, R
    <2> QED
      BY <1>1, <1>7, <2>1, <2>2, <2>3 DEF Promise!Fill
  <1>9. Promise!Added(o)
    <2> HIDE DEF new, o, R
    <2> QED
      BY <1>5, <1>6, <1>8 DEF Promise!Added
  <1>10. state'.gaps = state.gaps + IF poll.gap THEN 1 ELSE 0
    BY DEF Commit, CommitAt
  <1>11. state.gaps \in Nat
    BY Types
  <1>12. CASE poll.gap
    <2>1. o = 0 /\ state'.generation = state.generation + 1 /\ state'.gaps = state.gaps + 1
      BY <1>1, <1>10, <1>12
    <2> QED
      BY <1>9, <2>1 DEF Promise!Restart
  <1>13. CASE ~poll.gap
    <2>1. /\ o = state.cursor /\ state'.generation = state.generation
          /\ state'.gaps = state.gaps
      BY <1>1, <1>10, <1>11, <1>13
    <2> QED
      BY <1>9, <2>1 DEF Promise!Continue
  <1> QED
    BY <1>12, <1>13

(* The collector implements the evidence log: nothing but a commit changes  *)
(* what the log speaks of.                                                  *)
THEOREM EvidenceIsLogged == Spec => KeepsPromise
  <1>1. CollectorInit => Promise!LogInit
    BY DEF CollectorInit, Promise!LogInit
  <1>2. ASSUME CollectorInv, [Next]_vars
        PROVE  [Promise!Continue \/ Promise!Restart]_Promise!logVars
    <2>1. CASE Commit
      BY <1>2, <2>1, CommitIsPromised
    <2>2. state' = state /\ raw' = raw => UNCHANGED Promise!logVars
      BY DEF Promise!logVars
    <2>3. Commit \/ (state' = state /\ raw' = raw)
      BY <1>2 DEF Next, vars, Poll, Open, Compare, ReadChunk, Fail, Writer, Write, Truncate,
         Remove, Create
    <2> QED
      BY <2>1, <2>2, <2>3
  <1> QED
    BY <1>1, <1>2, CollectorInvariant, PTL DEF Spec, KeepsPromise, Promise!LogSpec
=============================================================================
