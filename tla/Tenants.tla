------------------------------- MODULE Tenants -------------------------------
(***************************************************************************)
(* Tenants, their members and settings, and the audit trail                *)
(* (tenants/tenantService.ts, auth/rbac.ts, routes/tenants.ts,             *)
(* audit/auditService.ts): each request as the statements it makes, one    *)
(* step each, after the guard that reads the acting user's role.           *)
(*                                                                         *)
(* A tenant is named by its slug.  Users are registered.                   *)
(***************************************************************************)
EXTENDS Naturals, FiniteSets, Sequences

CONSTANTS Calls,      \* requests; each is made once
          Users, Tenants,
          Home,       \* the tenant that exists from the start
          Assigned,   \* bound: roles that are given
          MaxCuts,    \* bound: requests that are cut off or fail
          Null, Old

VARIABLES tenant,      \* tenants
          membership,  \* memberships
          audit,       \* audit_entries, in order
          call,        \* where each request is
          cuts,        \* how many requests were cut off or failed
          crossed,     \* history: two requests have been under way at once
          authority    \* history: what held at some moment of the request

tenantVars == <<tenant, membership, audit>>

RoleRank == [none |-> 0, viewer |-> 1, contributor |-> 2, approver |-> 3,
             publisher |-> 4, tenant_admin |-> 5]
Roles == DOMAIN RoleRank
AtLeast(role, min) == RoleRank[role] >= RoleRank[min]

ASSUME TenantsAssumption ==
  /\ Home \in Tenants /\ Assigned \subseteq Roles \ {"none"}
  /\ Null \notin Calls \cup Users \cup Tenants \cup {Old} /\ Old \notin Calls
  /\ MaxCuts \in Nat

\* requireFourEyes of a tenant's row; a tenant is created with it on.
NoTenant  == [exists |-> FALSE, fourEyes |-> TRUE]
NewTenant == [exists |-> TRUE, fourEyes |-> TRUE]

\* An unknown tenant requires four eyes.
TenantRequiresFourEyes(t) == t \in Tenants => tenant[t].fourEyes

ListTenantsForUser(u) == {t \in Tenants : membership[t][u] # "none"}

Ended == {"ok", "refused", "cut"}
Under(c) == call[c].pc \notin Ended \cup {"idle"}
Quiet    == \A c \in Calls : ~Under(c)

At(c, pc) == call[c].pc = pc
Goto(c, pc) == call' = [call EXCEPT ![c].pc = pc]

Idle == [op |-> "none", pc |-> "idle", user |-> Null, tenant |-> Null,
         target |-> Null, role |-> "none", flag |-> FALSE, seen |-> FALSE,
         version |-> "v11", write |-> Null, intent |-> "read", tenants |-> {}, todo |-> {},
         key |-> Null, config |-> [scope |-> "none", write |-> FALSE],
         adapter |-> [kind |-> "none", key |-> Null, write |-> FALSE]]

\* What is left of a request that was refused.
Refused == [Idle EXCEPT !.pc = "refused"]
Refuse(c) == call' = [call EXCEPT ![c] = Refused]

Begin(c, request) ==
  /\ At(c, "idle")
  /\ call' = [call EXCEPT ![c] = request]
  /\ crossed' = (crossed \/ ~Quiet)

\* createRequireRole: authenticate has named the user; the role is read once.
RequireRole(c, min, request) ==
  Begin(c, IF AtLeast(membership[request.tenant][request.user], min)
           THEN request ELSE Refused)

Record(entry) == audit' = Append(audit, entry)

-----------------------------------------------------------------------------
(* POST /tenants: the slug is looked up, then row and first administrator  *)
(* are inserted in one transaction; the unique slug has the last word.     *)

StartCreateTenant(c) ==
  /\ \E u \in Users, t \in Tenants :
       Begin(c, IF tenant[t].exists THEN Refused
                ELSE [Idle EXCEPT !.op = "create", !.user = u, !.tenant = t, !.pc = "insertTenant"])
  /\ UNCHANGED <<tenantVars, cuts>>

CreateTenant(c) ==
  LET t == call[c].tenant IN
  /\ At(c, "insertTenant")
  /\ IF tenant[t].exists
     THEN Refuse(c) /\ UNCHANGED <<tenant, membership>>
     ELSE /\ tenant' = [tenant EXCEPT ![t] = NewTenant]
          /\ membership' = [membership EXCEPT ![t][call[c].user] = "tenant_admin"]
          /\ Goto(c, "ok")
  /\ UNCHANGED <<audit, crossed, cuts>>

-----------------------------------------------------------------------------
(* /tenants/:tenantId/members and /settings.                               *)

StartMemberChange(c) ==
  /\ \E u, v \in Users, t \in Tenants, op \in {"add", "update", "remove"}, r \in Assigned :
       RequireRole(c, "tenant_admin",
         [Idle EXCEPT !.op = op, !.user = u, !.tenant = t, !.target = v,
            !.role = IF op = "remove" THEN "none" ELSE r, !.pc = "setRole"])
  /\ UNCHANGED <<tenantVars, cuts>>

SetRole(c) ==
  LET r == call[c] IN
  /\ At(c, "setRole")
  /\ IF r.op = "update" /\ membership[r.tenant][r.target] = "none"
     THEN Refuse(c) /\ UNCHANGED membership
     ELSE /\ membership' = [membership EXCEPT ![r.tenant][r.target] = r.role]
          /\ Goto(c, "recordChange")
  /\ UNCHANGED <<tenant, audit, crossed, cuts>>

StartUpdateSettings(c) ==
  /\ \E u \in Users, t \in Tenants, on \in BOOLEAN :
       RequireRole(c, "tenant_admin",
         [Idle EXCEPT !.op = "settings", !.user = u, !.tenant = t, !.flag = on,
            !.pc = "readBefore"])
  /\ UNCHANGED <<tenantVars, cuts>>

\* Mutant: takes the requested value for the one before.
ReadsAfter(c) ==
  /\ At(c, "readBefore")
  /\ call' = [call EXCEPT ![c].seen = call[c].flag, ![c].pc = "setFourEyes"]
  /\ UNCHANGED <<tenantVars, crossed, cuts>>

ReadBefore(c) ==
  /\ At(c, "readBefore")
  /\ call' = [call EXCEPT ![c].seen = tenant[call[c].tenant].fourEyes, ![c].pc = "setFourEyes"]
  /\ UNCHANGED <<tenantVars, crossed, cuts>>

SetFourEyes(c) ==
  /\ At(c, "setFourEyes")
  /\ tenant' = [tenant EXCEPT ![call[c].tenant].fourEyes = call[c].flag]
  /\ Goto(c, "recordChange")
  /\ UNCHANGED <<membership, audit, crossed, cuts>>

\* The last statement of a change: its audit entry.
RecordChange(c) ==
  LET r == call[c] IN
  /\ At(c, "recordChange")
  /\ Record([action |-> r.op, tenant |-> r.tenant, by |-> r.user, on |-> r.target,
             role |-> r.role, before |-> r.seen, after |-> r.flag, version |-> r.version])
  /\ Goto(c, "ok")
  /\ UNCHANGED <<tenant, membership, crossed, cuts>>

\* A request is cut off, or its next statement fails.
Cut(c) ==
  /\ Under(c) /\ cuts < MaxCuts
  /\ cuts' = cuts + 1 /\ call' = [call EXCEPT ![c] = [Idle EXCEPT !.pc = "cut"]]
  /\ UNCHANGED <<tenantVars, crossed>>

TenantStep(c) ==
  \/ StartCreateTenant(c) \/ CreateTenant(c)
  \/ StartMemberChange(c) \/ SetRole(c)
  \/ StartUpdateSettings(c) \/ ReadBefore(c) \/ SetFourEyes(c)
  \/ RecordChange(c) \/ Cut(c)

-----------------------------------------------------------------------------

\* The i-th entry is about a change of this kind to tenant t.
About(i, t, kinds) == audit[i].tenant = t /\ audit[i].action \in kinds

\* Requests made one after the other, none of them cut off, leave a trail of
\* settings in which each entry starts from what the one before it left
\* (updateSettings reads the state before in a statement of its own).
SettingsTrail ==
  ~crossed /\ cuts = 0 => \A t \in Tenants, j \in 1 .. Len(audit) : \A i \in 1 .. j - 1 :
    /\ About(i, t, {"settings"}) /\ About(j, t, {"settings"})
    /\ \A k \in i + 1 .. j - 1 : ~About(k, t, {"settings"})
    => audit[i].after = audit[j].before

\* Such requests leave a trail that tells the present: the last entry about a
\* tenant's settings is what they are, the last one about a member their role
\* (updateMemberRole records nothing when there is no such member).
TrailTellsPresent ==
  ~crossed /\ cuts = 0 /\ Quiet => \A t \in Tenants, i \in 1 .. Len(audit) :
    /\ /\ About(i, t, {"settings"})
       /\ \A k \in i + 1 .. Len(audit) : ~About(k, t, {"settings"})
       => audit[i].after = tenant[t].fourEyes
    /\ \A u \in Users :
         LET OfMember(k) == About(k, t, {"add", "update", "remove"}) /\ audit[k].on = u IN
         OfMember(i) /\ (\A k \in i + 1 .. Len(audit) : ~OfMember(k))
         => audit[i].role = membership[t][u]

\* Read from its end, the audit trail tells how the tenant came to be as it is.
TrailIsTrue ==
  /\ SettingsTrail
  /\ TrailTellsPresent
=============================================================================
