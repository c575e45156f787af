------------------------- MODULE ProposalLifecycle -------------------------
(***************************************************************************)
(* What the proposal store promises, whoever calls it and in whatever      *)
(* order: a proposal is queued as pending, leaves pending exactly once,    *)
(* for one of the four resolutions and in one user's name, and afterwards  *)
(* only an approved (exported) proposal moves again, to applied, still in  *)
(* the name of the user who approved it.                                   *)
(***************************************************************************)

CONSTANTS
    Proposals,      \* proposal ids
    Users,          \* user ids
    None            \* no user

VARIABLES
    status,         \* status[p]: "absent" until p is inserted
    resolver        \* resolver[p]: proposals.resolved_by_user_id

lifecycleVars == <<status, resolver>>

Resolutions == {"approved", "rejected", "applied", "failed"}
Statuses == {"absent", "pending"} \cup Resolutions

\* A server starts on a database that may already hold pending proposals.
Init ==
    /\ status \in [Proposals -> {"absent", "pending"}]
    /\ resolver = [p \in Proposals |-> None]

Queue(p) ==
    /\ status[p] = "absent"
    /\ status' = [status EXCEPT ![p] = "pending"]
    /\ UNCHANGED resolver

Resolve(p, u, s) ==
    /\ status[p] = "pending"
    /\ status' = [status EXCEPT ![p] = s]
    /\ resolver' = [resolver EXCEPT ![p] = u]

Publish(p) ==
    /\ status[p] = "approved"
    /\ status' = [status EXCEPT ![p] = "applied"]
    /\ UNCHANGED resolver

Next ==
    \E p \in Proposals :
        \/ Queue(p)
        \/ \E u \in Users, s \in Resolutions : Resolve(p, u, s)
        \/ Publish(p)

Spec == Init /\ [][Next]_lifecycleVars

=============================================================================
