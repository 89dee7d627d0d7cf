--------------------------- MODULE MCObservation ---------------------------
(* Two adapters and two threads; of the conditions two overlap although *)
(* they differ, and two exclude each other.                             *)
EXTENDS Observation, TLC

CONSTANTS x, y, v, w

MCDocuments == {[p \in Paths |-> v]}
Asks(path, value) == [p \in Paths |-> IF p = path THEN value ELSE None]
MCDefinitions == {Asks(x, v), Asks(y, v), Asks(x, w)}

Symmetry == Permutations(Threads) \cup Permutations(Adapters)
=============================================================================
