------------------------------ MODULE Delivery ------------------------------
(***************************************************************************)
(* What delivering notifications promises, without senders, locks, clocks  *)
(* or restarts: a notification is attempted from the queue, may become a   *)
(* message only while an attempt is open, goes back to the queue only      *)
(* without a message, and is closed with the truth.                        *)
(***************************************************************************)
CONSTANT Events

VARIABLES
    stage,      \* event -> "new", "queued", "open", "sent", "failed"
    visible     \* events that became a message

deliveryVars == <<stage, visible>>

DeliveryInit ==
    /\ stage = [e \in Events |-> "new"]
    /\ visible = {}

Moved(e, from, to) == stage[e] = from /\ stage' = [stage EXCEPT ![e] = to]

Submit(e) == Moved(e, "new", "queued") /\ UNCHANGED visible

Attempt(e) == Moved(e, "queued", "open") /\ UNCHANGED visible

Show(e) ==
    /\ stage[e] = "open" /\ e \notin visible
    /\ visible' = visible \cup {e}
    /\ UNCHANGED stage

Postpone(e) == e \notin visible /\ Moved(e, "open", "queued") /\ UNCHANGED visible

Close(e) ==
    /\ \/ e \in visible /\ Moved(e, "open", "sent")
       \/ e \notin visible /\ Moved(e, "open", "failed")
    /\ UNCHANGED visible

DeliveryNext ==
    \E e \in Events : Submit(e) \/ Attempt(e) \/ Show(e) \/ Postpone(e) \/ Close(e)

DeliverySpec == DeliveryInit /\ [][DeliveryNext]_deliveryVars
=============================================================================
