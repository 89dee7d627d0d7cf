---------------------------- MODULE EvidenceLog ----------------------------
(***************************************************************************)
(* What collecting a log file promises, without system calls, anchors or   *)
(* crashes: whole lines are added right behind those already collected, or *)
(* after one recorded gap from the start of a new generation.  A line that *)
(* is in stays in, and is not changed.                                     *)
(***************************************************************************)
EXTENDS Integers, Sequences

VARIABLES
    lines,          \* lines collected: [generation, offset, cells]
    generation,     \* generation that is collected now
    position,       \* where the next line of it begins
    gaps            \* gaps recorded

logVars == <<lines, generation, position, gaps>>

LogInit ==
    /\ lines = {}
    /\ generation = 0 /\ position = 0 /\ gaps = 0

Behind(r) == r.offset + Len(r.cells)

\* It ends with its last cell, and nowhere before.
Whole(r) == Len(r.cells) > 0 /\ \A i \in 1 .. Len(r.cells) : r.cells[i].end <=> i = Len(r.cells)

\* Each cell between the two places is in one of the lines, and in one only.
Fill(new, from, to) ==
    /\ \A r \in new : from <= r.offset /\ Behind(r) <= to
    /\ \A k \in from + 1 .. to : \E r \in new : r.offset < k /\ k <= Behind(r)
    /\ \A r, q \in new : r # q => Behind(r) <= q.offset \/ Behind(q) <= r.offset

Added(from) ==
    LET new == lines' \ lines
    IN  /\ lines \subseteq lines'
        /\ \A r \in new : r.generation = generation' /\ Whole(r)
        /\ Fill(new, from, position')

Continue == Added(position) /\ UNCHANGED <<generation, gaps>>

Restart ==
    /\ generation' = generation + 1
    /\ gaps' = gaps + 1
    /\ Added(0)

LogSpec == LogInit /\ [][Continue \/ Restart]_logVars
=============================================================================
