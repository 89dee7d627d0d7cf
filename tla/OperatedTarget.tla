--------------------------- MODULE OperatedTarget ---------------------------
(***************************************************************************)
(* The operated service as the connectors reach it.  DemoConnector applies *)
(* an operation and records its result in one transaction; an HTTP         *)
(* request can be answered, refused, or lose its answer while it is still  *)
(* on its way, to be applied later or never.                               *)
(***************************************************************************)
EXTENDS Naturals, Identifiers

VARIABLES
    requests,   \* plan id -> how often its operation was handed to a connector
    applied,    \* plan id -> how often the target carried it out
    inTransit,  \* plans whose unanswered request may still reach the target
    history     \* plan id -> result in the demo target's table of operations

targetVars == <<requests, applied, inTransit, history>>

TargetTypeOK ==
    /\ requests \in [Plans -> Nat]
    /\ applied \in [Plans -> Nat]
    /\ inTransit \subseteq Plans
    /\ history \in [Plans -> {"NONE", "SUCCEEDED", "FAILED"}]

TargetInit ==
    /\ requests = [p \in Plans |-> 0]
    /\ applied = [p \in Plans |-> 0]
    /\ inTransit = {}
    /\ history = [p \in Plans |-> "NONE"]

\* One transaction applies the operation, or finds that the demo does not know
\* the service, and records the result; a recorded id changes nothing.  It may
\* fail, or fail to report its commit.
DemoExecute(p, result) ==
    /\ requests' = [requests EXCEPT ![p] = @ + 1]
    /\ \/ \E outcome \in (IF history[p] = "NONE" THEN {"SUCCEEDED", "FAILED"}
                         ELSE {history[p]}) :
             /\ result \in {outcome, "UNKNOWN"}
             /\ history' = [history EXCEPT ![p] = outcome]
             /\ applied' = [applied EXCEPT ![p] = IF outcome = "SUCCEEDED" THEN 1 ELSE @]
       \/ result = "UNKNOWN" /\ UNCHANGED <<applied, history>>
    /\ UNCHANGED inTransit

\* 2xx, a refusal (4xx or no credential), or no usable answer.
HttpExecute(p, result) ==
    /\ requests' = [requests EXCEPT ![p] = @ + 1]
    /\ \/ /\ result = "SUCCEEDED"
          /\ applied' = [applied EXCEPT ![p] = @ + 1]
          /\ UNCHANGED inTransit
       \/ /\ result = "FAILED"
          /\ UNCHANGED <<applied, inTransit>>
       \/ /\ result = "UNKNOWN"
          /\ inTransit' = inTransit \cup {p}
          /\ UNCHANGED applied
    /\ UNCHANGED history

\* The network settles an unanswered request.
Arrive(p) ==
    /\ p \in inTransit
    /\ inTransit' = inTransit \ {p}
    /\ applied' = [applied EXCEPT ![p] = @ + 1]
    /\ UNCHANGED <<requests, history>>

Vanish(p) ==
    /\ p \in inTransit
    /\ inTransit' = inTransit \ {p}
    /\ UNCHANGED <<requests, applied, history>>

DemoLookup(p) == IF history[p] = "NONE" THEN "UNKNOWN" ELSE history[p]

HttpLookupAbsent(p) == "FAILED"     \* faulty: no history taken for no effect

HttpLookup(p) == "UNKNOWN"

LookupNothing(kind, p) == "UNKNOWN"     \* faulty: ignores the demo history

Lookup(kind, p) == IF kind = "demo.restore" THEN DemoLookup(p) ELSE HttpLookup(p)
=============================================================================
