---------------------------- MODULE Identifiers ----------------------------
(* The finite sets of ids, and the immutable links between them, that the  *)
(* control database, the ledger and the target share.                      *)

CONSTANTS
    Services,           \* ids of registered services
    Cases,              \* ids of cases, opened by their first finding
    Plans,              \* ids of operation plans
    Actors,             \* authenticated users
    ServiceOf,          \* the service a case belongs to
    CaseOf,             \* the case a plan belongs to
    Role,               \* the role of each actor
    None                \* SQL NULL, or no row

Roles == {"admin", "operator", "approver", "viewer", "agent"}
Kinds == {"demo.restore", "http.request"}

ASSUME IdentifiersAssumption ==
    /\ ServiceOf \in [Cases -> Services]
    /\ CaseOf \in [Plans -> Cases]
    /\ Role \in [Actors -> Roles]
    /\ None \notin Plans \cup Actors

Target(p) == ServiceOf[CaseOf[p]]
=============================================================================
