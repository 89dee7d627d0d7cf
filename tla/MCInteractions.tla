--------------------------- MODULE MCInteractions ---------------------------
(* A review, its confirmation, and room for a third interaction. *)
EXTENDS Interactions, TLC

MCSymmetry == Permutations(Interactions) \cup Permutations(Handlers)
=============================================================================
