----------------------------- MODULE Operations -----------------------------
(***************************************************************************)
(* What executing approved plans promises, without databases, permits,     *)
(* threads or crashes: a plan reserves its service alone, is sent at most  *)
(* once, may take effect only while it holds the reservation, and gives    *)
(* the service back only with an outcome that is true of the target, or    *)
(* void, when it was never sent.                                           *)
(***************************************************************************)
EXTENDS Identifiers

VARIABLES
    stage,      \* plan -> "open", "held", "sent", "succeeded", "failed", "void"
    holder,     \* service -> the plan that reserves it, or None
    effect      \* plans whose operation the target carried out

opVars == <<stage, holder, effect>>

OpInit ==
    /\ stage = [p \in Plans |-> "open"]
    /\ holder = [s \in Services |-> None]
    /\ effect = {}

Reserve(p) ==
    /\ stage[p] = "open" /\ holder[Target(p)] = None
    /\ stage' = [stage EXCEPT ![p] = "held"]
    /\ holder' = [holder EXCEPT ![Target(p)] = p]
    /\ UNCHANGED effect

\* The target may act on it at once.
SendOnce(p) ==
    /\ stage[p] = "held" /\ holder[Target(p)] = p
    /\ stage' = [stage EXCEPT ![p] = "sent"]
    /\ effect' \in {effect, effect \cup {p}}
    /\ UNCHANGED holder

\* Or later, as long as nobody knows the outcome.
TakeEffect(p) ==
    /\ stage[p] = "sent" /\ p \notin effect
    /\ effect' = effect \cup {p}
    /\ UNCHANGED <<stage, holder>>

\* "failed" needs no sending: the last authorization can refuse.
SettleOutcome(p) ==
    /\ stage[p] \in {"held", "sent"} /\ holder[Target(p)] = p
    /\ \/ stage[p] = "sent" /\ p \in effect /\ stage' = [stage EXCEPT ![p] = "succeeded"]
       \/ p \notin effect /\ stage' = [stage EXCEPT ![p] = "failed"]
    /\ UNCHANGED <<holder, effect>>

Free(p) ==
    /\ stage[p] \in {"succeeded", "failed"} /\ holder[Target(p)] = p
    /\ holder' = [holder EXCEPT ![Target(p)] = None]
    /\ UNCHANGED <<stage, effect>>

Void(p) ==
    /\ stage[p] \in {"open", "held"}
    /\ stage' = [stage EXCEPT ![p] = "void"]
    /\ holder' = [holder EXCEPT ![Target(p)] = IF @ = p THEN None ELSE @]
    /\ UNCHANGED effect

OpNext ==
    \E p \in Plans : \/ Reserve(p) \/ SendOnce(p) \/ TakeEffect(p)
                     \/ SettleOutcome(p) \/ Free(p) \/ Void(p)

OpSpec == OpInit /\ [][OpNext]_opVars
=============================================================================
