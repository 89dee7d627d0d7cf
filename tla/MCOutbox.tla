------------------------------ MODULE MCOutbox ------------------------------
(* Notifications in an allowed channel and one in a removed channel. *)
EXTENDS Outbox

CONSTANTS e1, e2, e3
=============================================================================
