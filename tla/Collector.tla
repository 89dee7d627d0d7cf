----------------------------- MODULE Collector -----------------------------
(***************************************************************************)
(* Collecting a log file (src/opsyne/collector/service.py, poll_files and  *)
(* _poll_file).  One poll at a time runs in one transaction of the         *)
(* collector's database, but the file is read with several system calls,   *)
(* and its writer appends, truncates and rotates it between any two.       *)
(*                                                                         *)
(* A file is a sequence of cells, the unit of offsets (bytes in the code). *)
(* No two cells are alike, as in logs whose lines carry a time, so a cell  *)
(* has a number; "end" marks the one that holds a newline.  "file" and     *)
(* "place" tell which file it was written to, and where; nothing reads     *)
(* them.                                                                   *)
(***************************************************************************)
EXTENDS Integers, Sequences, FiniteSets

CONSTANTS
    Inodes,         \* identities of files, reused after a file is removed
    AnchorCells,    \* how much before the cursor is compared (256 bytes)
    ChunkCells,     \* how much one poll reads (1 MiB + 1)
    LineLimit,      \* how many lines one poll takes (500)
    MaxCells,       \* bound on what the writer writes
    MaxChanges,     \* bound on truncations and rotations
    MaxFailures,    \* bound on polls that crash or fail
    None

ASSUME CollectorAssumption ==
    /\ AnchorCells \in Nat \ {0} /\ ChunkCells \in Nat \ {0} /\ LineLimit \in Nat \ {0}
    /\ MaxCells \in Nat /\ MaxChanges \in Nat /\ MaxFailures \in Nat
    /\ None \notin Inodes

VARIABLES
    content,        \* inode -> cells of that file
    path,           \* inode the registered path leads to, or None
    written,        \* cells written so far
    changes,        \* truncations and rotations so far
    kept,           \* cells that a truncation left in their file (history)
    state,          \* row of observation_state: cursor, fingerprint, anchor, generation, gaps
    raw,            \* rows of observation_raw: [generation, offset, cells]
    poll,           \* the running poll with its local variables
    failures        \* polls that failed so far

fileVars == <<content, path, written, changes, kept>>
vars == <<fileVars, state, raw, poll, failures>>

Cells == [id : Nat, file : Nat, place : Nat, end : BOOLEAN]
Rows == [generation : Nat, offset : Nat, cells : Seq(Cells)]
States == [cursor : Nat, fingerprint : Inodes \cup {None}, anchor : Seq(Cells),
           generation : Nat, gaps : Nat]
NoPoll == [at |-> "idle", stream |-> None, offset |-> 0, generation |-> 0,
           gap |-> FALSE, chunk |-> <<>>]
Polls == [at : {"compare", "read", "commit"}, stream : Inodes, offset : Nat,
          generation : Nat, gap : BOOLEAN, chunk : Seq(Cells)]

CollectorInit ==
    /\ content = [i \in Inodes |-> <<>>]
    /\ path \in Inodes
    /\ written = 0 /\ changes = 0 /\ kept = {}
    /\ state = [cursor |-> 0, fingerprint |-> None, anchor |-> <<>>,
                generation |-> 0, gaps |-> 0]
    /\ raw = {}
    /\ poll = NoPoll
    /\ failures = 0
-----------------------------------------------------------------------------
(* The writer of the log. *)

Now == content[path]

\* A part of a line; the newline comes with the last one.
Write(end) ==
    /\ path # None /\ written < MaxCells
    /\ content' = [content EXCEPT ![path] =
                      Append(@, [id |-> written, end |-> end, place |-> Len(Now) + 1,
                                 file |-> IF Now = <<>> THEN changes ELSE Now[1].file])]
    /\ written' = written + 1
    /\ UNCHANGED <<path, changes, kept, state, raw, poll, failures>>

\* To nothing, or to a part that stays as it is; then writing goes on behind it.
Truncate ==
    /\ path # None /\ changes < MaxChanges
    /\ \E length \in 0 .. Len(Now) - 1 :
         /\ content' = [content EXCEPT ![path] = SubSeq(Now, 1, length)]
         /\ kept' = kept \cup {Now[k].id : k \in 1 .. length}
    /\ changes' = changes + 1
    /\ UNCHANGED <<path, written, state, raw, poll, failures>>

\* Rotation: the file is renamed or removed, later another appears at the path.
Remove ==
    /\ path # None /\ changes < MaxChanges
    /\ path' = None
    /\ changes' = changes + 1
    /\ UNCHANGED <<content, written, kept, state, raw, poll, failures>>

Create(i) ==
    /\ path = None /\ i # poll.stream
    /\ path' = i
    /\ content' = [content EXCEPT ![i] = <<>>]
    /\ UNCHANGED <<written, changes, kept, state, raw, poll, failures>>
-----------------------------------------------------------------------------
(* The poll. *)

File == content[poll.stream]

\* The cells before an offset that seek and read deliver.
Before(cells, offset) ==
    SubSeq(cells, IF offset > AnchorCells THEN offset - AnchorCells + 1 ELSE 1,
           IF offset < Len(cells) THEN offset ELSE Len(cells))

\* A missing file is an error that changes nothing but last_error.
Open ==
    /\ poll = NoPoll /\ path # None
    /\ poll' = [NoPoll EXCEPT !.at = "compare", !.stream = path]
    /\ UNCHANGED <<fileVars, state, raw, failures>>

Replaced ==
    /\ state.fingerprint # None
    /\ \/ state.fingerprint # poll.stream
       \/ Len(File) < state.cursor
       \/ state.anchor # Before(File, state.cursor)

CompareSilently ==      \* faulty: a new generation without a gap
    /\ poll.at = "compare"
    /\ poll' = [poll EXCEPT !.at = "read",
                 !.offset = IF Replaced THEN 0 ELSE state.cursor,
                 !.generation = state.generation + IF Replaced THEN 1 ELSE 0]
    /\ UNCHANGED <<fileVars, state, raw, failures>>

\* fstat and the anchor: is this still the file the cursor belongs to?
Compare ==
    /\ poll.at = "compare"
    /\ poll' = [poll EXCEPT !.at = "read", !.gap = Replaced,
                 !.offset = IF Replaced THEN 0 ELSE state.cursor,
                 !.generation = state.generation + IF Replaced THEN 1 ELSE 0]
    /\ UNCHANGED <<fileVars, state, raw, failures>>

EndsWithTail(chunk) ==      \* faulty: takes a half-written line
    {i \in 1 .. Len(chunk) : chunk[i].end \/ i = Len(chunk)}

\* Where the lines end that this poll takes from a chunk.
Ends(chunk) == {i \in 1 .. Len(chunk) : chunk[i].end}
Taken(chunk) == {i \in Ends(chunk) : Cardinality({j \in Ends(chunk) : j < i}) < LineLimit}
Last(ends) == IF ends = {} THEN 0 ELSE CHOOSE i \in ends : \A j \in ends : j <= i

\* A row per line; its id is made of generation, offset and length.
RowsOf(chunk) ==
    {LET begin == Last({j \in Ends(chunk) : j < i})
     IN  [generation |-> poll.generation, offset |-> poll.offset + begin,
          cells |-> SubSeq(chunk, begin + 1, i)] : i \in Taken(chunk)}

SameId(r, q) ==
    r.generation = q.generation /\ r.offset = q.offset /\ Len(r.cells) = Len(q.cells)

Chunk == SubSeq(File, poll.offset + 1,
                IF poll.offset + ChunkCells < Len(File) THEN poll.offset + ChunkCells
                ELSE Len(File))

AcceptableWhole(chunk) == chunk # <<>> /\ chunk[Len(chunk)].end    \* faulty: waits for newline

\* A line that fills a chunk (longer than 1 MiB), or a row with a known id and other
\* cells, is an error: the transaction is rolled back.
Acceptable(chunk) ==
    /\ Ends(chunk) # {} \/ Len(chunk) < ChunkCells
    /\ \A r \in RowsOf(chunk) : Len(r.cells) < ChunkCells
    /\ \A r \in RowsOf(chunk), q \in raw : SameId(r, q) => r = q

ReadChunk ==
    /\ poll.at = "read"
    /\ poll' = IF Acceptable(Chunk) THEN [poll EXCEPT !.at = "commit", !.chunk = Chunk]
               ELSE NoPoll
    /\ UNCHANGED <<fileVars, state, raw, failures>>

CommitAt(cursor, anchored, inode) ==
    /\ poll.at = "commit"
    /\ raw' = raw \cup RowsOf(poll.chunk)
    /\ state' = [cursor |-> cursor, fingerprint |-> inode,
                 anchor |-> Before(File, anchored), generation |-> poll.generation,
                 gaps |-> state.gaps + IF poll.gap THEN 1 ELSE 0]
    /\ poll' = NoPoll
    /\ UNCHANGED <<fileVars, failures>>

Read == poll.offset + Len(poll.chunk)
Reached == poll.offset + Last(Taken(poll.chunk))

CommitChunk == CommitAt(Read, Read, poll.stream)        \* faulty: past unfinished lines
CommitFarAnchor == CommitAt(Reached, Read, poll.stream) \* faulty: anchor of another offset
CommitPath == CommitAt(Reached, Reached, path)          \* faulty: identity read by name

\* Rows, cursor and the new anchor in one transaction; the anchor is read again.
Commit == CommitAt(Reached, Reached, poll.stream)

\* A crash or a database error: the transaction leaves nothing behind.
Fail ==
    /\ poll # NoPoll /\ failures < MaxFailures
    /\ poll' = NoPoll
    /\ failures' = failures + 1
    /\ UNCHANGED <<fileVars, state, raw>>
-----------------------------------------------------------------------------
Poll == Open \/ Compare \/ ReadChunk \/ Commit
Writer == (\E end \in BOOLEAN : Write(end)) \/ Truncate \/ Remove \/ (\E i \in Inodes : Create(i))

Next == Poll \/ Fail \/ Writer

Spec == CollectorInit /\ [][Next]_vars
FairSpec == Spec /\ WF_vars(Poll)
-----------------------------------------------------------------------------
End(r) == r.offset + Len(r.cells)

(* Types; a cursor and rows belong to a file.                               *)
CollectorTypeOK ==
    /\ content \in [Inodes -> Seq(Cells)]
    /\ path \in Inodes \cup {None}
    /\ written \in Nat /\ changes \in Nat /\ failures \in Nat /\ kept \subseteq Nat
    /\ state \in States
    /\ raw \subseteq Rows
    /\ poll \in Polls \cup {NoPoll}
    /\ state.fingerprint = None => state.cursor = 0 /\ raw = {}

(* Within a generation the rows lie one after the other from offset 0, none *)
(* twice and none left out, and the cursor stands behind the last: through  *)
(* crashes, limits on what a poll takes, and files replaced while they are  *)
(* read.                                                                    *)
RowsAreContiguous ==
    /\ \A r \in raw : /\ r.generation <= state.generation
                      /\ r.generation = state.generation => End(r) <= state.cursor
                      /\ r.offset = 0 \/ \E q \in raw : q.generation = r.generation
                                                        /\ End(q) = r.offset
    /\ \A r, q \in raw : r.generation = q.generation /\ r # q =>
          End(r) <= q.offset \/ End(q) <= r.offset
    /\ state.cursor = 0 \/ \E r \in raw : r.generation = state.generation
                                           /\ End(r) = state.cursor

(* No part of a line becomes evidence twice, even when a file that was      *)
(* replaced is read from its start.  Only what a truncation has left is     *)
(* read again with a shortened file (service.py:373), and that is evidence  *)
(* of another generation.                                                   *)
ReceivedOnce ==
    \A r, q \in raw : \A i \in 1 .. Len(r.cells), j \in 1 .. Len(q.cells) :
        r.cells[i] = q.cells[j] =>
            r = q \/ (r.cells[i].id \in kept /\ r.generation # q.generation)

(* As long as the file is only appended to, the rows are its lines, whole   *)
(* and unchanged, however writes and polls interleave.                      *)
AppendedIsCollected ==
    changes = 0 => \A r \in raw :
        /\ r.cells = SubSeq(Now, r.offset + 1, End(r))
        /\ r.offset = 0 \/ Now[r.offset].end
        /\ Now[End(r)].end

Promise == INSTANCE EvidenceLog WITH lines <- raw, generation <- state.generation,
                                     position <- state.cursor, gaps <- state.gaps

(* Every step of a poll is a step of the promise or changes nothing that it *)
(* speaks of: evidence is only added, in whole lines, behind what is there, *)
(* and each new generation is recorded as one gap.                          *)
KeepsPromise == Promise!LogSpec

(* A truncated and rewritten, or a rotated file is a new generation, so the *)
(* loss is recorded (docs/usage.md:132; tests/test_observations.py:237): no *)
(* generation holds lines of two files.                                     *)
GenerationIsOneFile ==
    \A r, q \in raw : r.generation = q.generation => r.cells[1].file = q.cells[1].file

(* Polling catches up with a file that is only appended to, unless a line   *)
(* fills what a poll reads: such a line is refused for good.                *)
PollingCatchesUp ==
    \A k \in 1 .. MaxCells :
        (/\ changes = 0 /\ Len(Now) >= k /\ Now[k].end
         /\ \A i \in 1 .. k : \E j \in i .. k : j < i + ChunkCells - 1 /\ Now[j].end)
        ~> (changes > 0 \/ state.cursor >= k)
=============================================================================
