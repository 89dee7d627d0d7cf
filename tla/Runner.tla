------------------------------- MODULE Runner -------------------------------
(***************************************************************************)
(* The execution ledger (src/opsyne/runner/service.py): one durable row    *)
(* per plan, in a database of its own.  A row is never deleted; its id is  *)
(* the idempotency key of the operation, so the plan stands for it here.   *)
(***************************************************************************)
EXTENDS Identifiers

VARIABLE ledger     \* plan id -> status of its row, "NONE" without a row

Results == {"SUCCEEDED", "FAILED", "UNKNOWN"}
Terminal == {"SUCCEEDED", "FAILED"}
Unresolved == {"PENDING", "IN_FLIGHT", "UNKNOWN"}
LedgerStatuses == {"NONE"} \cup Unresolved \cup Terminal

LedgerTypeOK == ledger \in [Plans -> LedgerStatuses]

RunnerInit == ledger = [p \in Plans |-> "NONE"]

Recorded(p) == ledger[p] # "NONE"

\* INSERT of the intent; plan_id is UNIQUE.
RecordIntent(p) ==
    /\ ~Recorded(p)
    /\ ledger' = [ledger EXCEPT ![p] = "PENDING"]

Store(p, status) ==
    /\ Recorded(p)
    /\ ledger' = [ledger EXCEPT ![p] = status]

RecoverAsFailed ==      \* faulty: takes an interrupted operation for one not sent
    ledger' = [p \in Plans |-> IF ledger[p] \in {"PENDING", "IN_FLIGHT"} THEN "FAILED"
                               ELSE ledger[p]]

\* recover_in_flight: what was interrupted has an unknown outcome.
RecoverInFlight ==
    ledger' = [p \in Plans |-> IF ledger[p] \in {"PENDING", "IN_FLIGHT"} THEN "UNKNOWN"
                               ELSE ledger[p]]
=============================================================================
