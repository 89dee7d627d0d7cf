----------------------------- MODULE MCRuntime -----------------------------
(* One service and one case; the configurations choose plans and threads. *)
EXTENDS Runtime, TLC

CONSTANTS s1, c1, p1, p2, owner, reviewer

MCServiceOf == c1 :> s1
MCCaseOf == [p \in Plans |-> c1]
MCRole == owner :> "admin" @@ reviewer :> "approver"
MCSymmetry == Permutations(Plans) \cup Permutations(Threads)
=============================================================================
