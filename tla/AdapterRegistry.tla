---------------------------- MODULE AdapterRegistry ----------------------------
(***************************************************************************)
(* Who is handed an adapter (ptv/dbAdapterRegistry.ts): a tool call's      *)
(* token names user, tenant and API versions; membership, configuration    *)
(* and credential are read anew, by three statements, each time an adapter *)
(* is resolved.  The direct write tool (ptv_apply_changes) resolves one to *)
(* read the service and another to write it.                               *)
(***************************************************************************)
EXTENDS PtvConnections

VARIABLE written    \* external: the requests whose write reached PTV

vars == <<tenantVars, connectionVars, call, cuts, crossed, authority, written>>

\* toolContext: what a verified token says.  A read may be of a resource,
\* whose address names the tenant.
Claims(op, u, t, read, write) ==
  [Idle EXCEPT !.op = op, !.user = u, !.tenant = t, !.version = read, !.write = write]

MinRole(intent) == IF intent = "write" THEN "publisher" ELSE "viewer"

VersionOf(c) == IF call[c].intent = "write" THEN call[c].write ELSE call[c].version

\* Without a tenant: v11's published data, with no credential.
ResolvePublic(request) ==
  IF request.version = "v11"
  THEN [request EXCEPT !.pc = "ok", !.adapter.kind = "public"]
  ELSE Refused

StartRead(c) ==
  /\ \E u \in Users, t \in Tenants \cup {Null}, v \in Versions :
       LET request == Claims("read", u, t, v, Null) IN
       Begin(c, IF t = Null THEN ResolvePublic(request)
                ELSE [request EXCEPT !.pc = "membership"])
  /\ UNCHANGED <<tenantVars, connectionVars, cuts, written>>

\* requireNoFourEyes, then auditedApply's write version.
StartApply(c) ==
  /\ \E u \in Users, t \in Tenants, v \in Versions, w \in Versions \cup {Null} :
       Begin(c, IF TenantRequiresFourEyes(t) \/ w = Null THEN Refused
                ELSE [Claims("apply", u, t, v, w) EXCEPT !.pc = "approver"])
  /\ UNCHANGED <<tenantVars, connectionVars, cuts, written>>

\* proposeChanges: the role is looked up once for the whole tool call.
RequireApprover(c) ==
  LET r == call[c] IN
  /\ At(c, "approver")
  /\ IF AtLeast(membership[r.tenant][r.user], "approver") THEN Goto(c, "membership") ELSE Refuse(c)
  /\ UNCHANGED <<tenantVars, connectionVars, crossed, cuts, written>>

\* Mutant: a role good enough to read is good enough once looked up.
ReadsMembershipOnce(c) ==
  LET r == call[c] IN
  /\ At(c, "membership")
  /\ IF r.intent = "write" \/ AtLeast(membership[r.tenant][r.user], "viewer")
     THEN Goto(c, "config") ELSE Refuse(c)
  /\ UNCHANGED <<tenantVars, connectionVars, crossed, cuts, written>>

ReadMembership(c) ==
  LET r == call[c] IN
  /\ At(c, "membership")
  /\ IF AtLeast(membership[r.tenant][r.user], MinRole(r.intent)) THEN Goto(c, "config") ELSE Refuse(c)
  /\ UNCHANGED <<tenantVars, connectionVars, crossed, cuts, written>>

ListConfigs(c) ==
  LET cfg == config[call[c].tenant][VersionOf(c)]
      supported == cfg.exists /\ IF call[c].intent = "write" THEN cfg.write ELSE cfg.read
  IN
  /\ At(c, "config")
  /\ IF supported
     THEN call' = [call EXCEPT ![c].pc = "credential",
                               ![c].config = [scope |-> cfg.scope, write |-> cfg.write]]
     ELSE Refuse(c)
  /\ UNCHANGED <<tenantVars, connectionVars, crossed, cuts, written>>

CredentialFor(c) ==
  IF call[c].config.scope = "user" THEN ConnectionOf(call[c].user)
  ELSE credential[call[c].tenant][VersionOf(c)]

\* The factories: v12 takes a tenant's key only; a write needs a credential.
Constructs(c, key) ==
  /\ call[c].intent = "write" => key # Null
  /\ VersionOf(c) = "v12" => call[c].config.scope = "tenant" /\ key # Null

ResolveCredential(c) ==
  LET r == call[c]
      key == CredentialFor(c)
  IN
  /\ At(c, "credential")
  /\ IF Constructs(c, key)
     THEN call' = [call EXCEPT
            ![c].pc = IF r.op = "read" THEN "ok" ELSE IF r.intent = "read" THEN "propose" ELSE "write",
            ![c].adapter = [kind |-> r.config.scope, key |-> key,
                            write |-> r.intent = "write" /\ r.config.write]]
     ELSE Refuse(c)
  /\ UNCHANGED <<tenantVars, connectionVars, crossed, cuts, written>>

Entry(c, action) ==
  [action |-> action, tenant |-> call[c].tenant, by |-> call[c].user, on |-> Null,
   role |-> "none", before |-> FALSE, after |-> FALSE, version |-> VersionOf(c)]

\* The service is read, and the change recorded as proposed.
RecordProposed(c) ==
  /\ At(c, "propose")
  /\ Record(Entry(c, "propose")) /\ Goto(c, "validate")
  /\ UNCHANGED <<tenant, membership, connectionVars, crossed, cuts, written>>

\* Only a valid change goes on; the write adapter is resolved last.
RecordValidated(c) ==
  /\ At(c, "validate")
  /\ Record(Entry(c, "validate"))
  /\ \/ Refuse(c)
     \/ call' = [call EXCEPT ![c].pc = "membership", ![c].intent = "write"]
  /\ UNCHANGED <<tenant, membership, connectionVars, crossed, cuts, written>>

\* PTV may refuse, and may have carried out what it does not answer.
WritePtv(c) ==
  /\ At(c, "write")
  /\ \/ written' = written \cup {c} /\ Goto(c, "recordApplied")
     \/ UNCHANGED written /\ Goto(c, "recordFailed")
     \/ written' = written \cup {c} /\ Goto(c, "recordFailed")
  /\ UNCHANGED <<tenantVars, connectionVars, crossed, cuts>>

RecordApplied(c) ==
  /\ At(c, "recordApplied")
  /\ Record(Entry(c, "applied")) /\ Goto(c, "ok")
  /\ UNCHANGED <<tenant, membership, connectionVars, crossed, cuts, written>>

\* Mutant: only a success is recorded.
FailsSilently(c) ==
  /\ At(c, "recordFailed")
  /\ Goto(c, "refused")
  /\ UNCHANGED <<tenantVars, connectionVars, crossed, cuts, written>>

RecordFailed(c) ==
  /\ At(c, "recordFailed")
  /\ Record(Entry(c, "failed")) /\ Goto(c, "refused")
  /\ UNCHANGED <<tenant, membership, connectionVars, crossed, cuts, written>>

RegistryStep(c) ==
  \/ ConnectionStep(c) /\ UNCHANGED written
  \/ StartRead(c) \/ StartApply(c) \/ RequireApprover(c)
  \/ ReadMembership(c) \/ ListConfigs(c) \/ ResolveCredential(c)
  \/ RecordProposed(c) \/ RecordValidated(c)
  \/ WritePtv(c) \/ RecordApplied(c) \/ RecordFailed(c)

\* What a request could act on in this state; late: while the write adapter
\* is being resolved.
Facts(c) ==
  LET r == call[c]
      role == IF r.tenant = Null THEN "none" ELSE membership[r.tenant][r.user]
  IN {f \in {"member", "publisher", "admin", "late", "twoEyes"} :
        CASE f = "member" -> AtLeast(role, "viewer")
          [] f = "publisher" -> AtLeast(role, "publisher")
          [] f = "admin" -> AtLeast(role, "tenant_admin")
          [] f = "late" -> r.intent = "write" /\ AtLeast(role, "publisher")
          [] f = "twoEyes" -> r.tenant # Null /\ ~tenant[r.tenant].fourEyes}

Notes == authority' = [c \in Calls |-> IF Under(c)' THEN authority[c] \cup Facts(c)' ELSE authority[c]]

\* The server starts on a database someone has set up: a tenant with its
\* administrator and another user, with nothing configured, the read
\* defaults (and then perhaps a second tenant) or credentials, and everyone
\* connected to PTV or nobody.
Init ==
  /\ \E us \in Users, role \in Assigned \cup {"none"}, on \in BOOLEAN,
        had \in {"nothing", "defaults", "second", "keys"} :
       LET existing == IF had = "second" THEN Tenants ELSE {Home} IN
       /\ tenant = [t \in Tenants |-> CASE t = Home -> [exists |-> TRUE, fourEyes |-> on]
                                        [] t \in existing \ {Home} -> NewTenant
                                        [] OTHER -> NoTenant]
       /\ membership = [t \in Tenants |-> [u \in Users |->
            CASE t \in existing /\ u = us -> "tenant_admin"
              [] t = Home /\ u # us -> role
              [] OTHER -> "none"]]
       /\ credential = [t \in Tenants |-> [v \in Versions |->
            IF t = Home /\ had = "keys" THEN Old ELSE Null]]
       /\ config = [t \in Tenants |-> [v \in Versions |->
            CASE t = Home /\ had = "keys" -> SavedConfig[v]
              [] t = Home /\ had \in {"defaults", "second"} /\ v = "v11" -> DefaultConfig
              [] OTHER -> NoConfig]]
  /\ \E live \in BOOLEAN :
       connection = [u \in Users |-> [token |-> IF live THEN Old ELSE Null, live |-> live]]
  /\ revoked = {} /\ written = {}
  /\ audit = <<>>
  /\ call = [c \in Calls |-> Idle]
  /\ cuts = 0 /\ crossed = FALSE
  /\ authority = [c \in Calls |-> {}]

Next == (\E c \in Calls : RegistryStep(c)) /\ Notes

Spec == Init /\ [][Next]_vars

-----------------------------------------------------------------------------
TypeOK ==
  /\ tenant \in [Tenants -> [exists : BOOLEAN, fourEyes : BOOLEAN]]
  /\ membership \in [Tenants -> [Users -> Roles]]
  /\ config \in [Tenants -> [Versions -> Config]]
  /\ credential \in [Tenants -> [Versions -> Keys \cup {Null}]]
  /\ connection \in [Users -> [token : Keys \cup {Null}, live : BOOLEAN]]
  /\ revoked \subseteq Keys /\ written \subseteq Calls
  /\ cuts \in 0 .. MaxCuts /\ crossed \in BOOLEAN

\* Nothing is written to PTV, and no tenant's credential is used, for someone
\* who did not have the role at some moment of the request; a write needs the
\* Publisher role held after the change was validated, and four eyes off at
\* some moment (dbAdapterRegistry.resolve: re-checked on every call, never
\* cached, although connections and tokens outlive a membership).
ActsWithAuthority ==
  \A c \in Calls :
    /\ call[c].adapter.kind \in {"user", "tenant"} => "member" \in authority[c]
    /\ call[c].adapter.write => {"late", "twoEyes"} \subseteq authority[c]
    /\ c \in written => call[c].adapter.write \/ At(c, "cut")

\* A user's own PTV account never carries a write: the only configuration
\* that writes is the organisation's API user, and it is there whenever such
\* a configuration is (resolve reads the two tables one after the other).
WritesAsOrganisation ==
  \A c \in Calls : call[c].adapter.write =>
    call[c].adapter.kind = "tenant" /\ call[c].adapter.key # Null /\ call[c].write = "v11"

\* Whoever is handed an adapter may have it: in the right role, and with the
\* credential meant for what it does.
AdaptersAreEntitled ==
  /\ ActsWithAuthority
  /\ WritesAsOrganisation

\* A write that PTV carried out has its entry, as applied or as failed, once
\* the request has ended, unless it was cut off before it (auditedApply
\* records in both its branches).
WritesAreRecorded ==
  \A c \in written :
    \/ Under(c) \/ At(c, "cut")
    \/ \E i \in 1 .. Len(audit) :
         audit[i].action \in {"applied", "failed"} /\ audit[i].by = call[c].user
=============================================================================
