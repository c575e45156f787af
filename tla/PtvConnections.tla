---------------------------- MODULE PtvConnections ----------------------------
(***************************************************************************)
(* What connects a tenant to PTV (credentials/, routes/ptvConnections.ts,  *)
(* ptvV11ApiUser.ts, ptvV12.ts): per API version an adapter configuration  *)
(* and the tenant's own credential, in two tables that are saved by two    *)
(* statements, and each user's own PTV account.                            *)
(*                                                                         *)
(* One environment: the other has the same rows under another key.  A      *)
(* credential or token is named by the request that stored it.  Envelope   *)
(* encryption gives back what was stored, for as long as the master key is *)
(* the same.                                                               *)
(***************************************************************************)
EXTENDS Tenants

VARIABLES config,      \* ptv_adapter_configs
          credential,  \* tenant_environments: the active credential
          connection,  \* user_ptv_connections
          revoked      \* external: tokens PTV has been told to revoke

connectionVars == <<config, credential, connection, revoked>>

Versions == {"v11", "v12"}
Keys     == Calls \cup {Old}

Config == [exists : BOOLEAN, scope : {"none", "user", "tenant"}, read : BOOLEAN, write : BOOLEAN]
NoConfig == [exists |-> FALSE, scope |-> "none", read |-> FALSE, write |-> FALSE]

\* What saving a credential makes of the configuration, by version.
SavedConfig == [v11 |-> [exists |-> TRUE, scope |-> "tenant", read |-> TRUE, write |-> TRUE],
                v12 |-> [exists |-> TRUE, scope |-> "tenant", read |-> TRUE, write |-> FALSE]]

DefaultConfig == [exists |-> TRUE, scope |-> "user", read |-> TRUE, write |-> FALSE]

\* ensureV11ReadDefaults: only reading is switched on where a row exists.
WithReadDefaults(cfg) == IF cfg.exists THEN [cfg EXCEPT !.read = TRUE] ELSE DefaultConfig

\* getDecryptedConnection: not a revoked one; its expiry is not looked at.
ConnectionOf(u) == IF connection[u].live THEN connection[u].token ELSE Null

-----------------------------------------------------------------------------
(* PUT /tenants/:tenantId/ptv/v11/api-user and .../ptv/v12.                *)

SaveSteps == <<"readPrevious", "storeCredentials", "upsertConfig", "recordChange">>

\* Mutant: the configuration is saved before the credential.
ConfigFirst == <<"readPrevious", "upsertConfig", "storeCredentials", "recordChange">>

SaveOrder == SaveSteps

AfterSave(step) == LET i == CHOOSE i \in 1 .. 4 : SaveOrder[i] = step IN SaveOrder[i + 1]

StartSaveKey(c) ==
  /\ \E u \in Users, t \in Tenants, v \in Versions :
       RequireRole(c, "tenant_admin",
         [Idle EXCEPT !.op = "key", !.user = u, !.tenant = t, !.version = v, !.flag = TRUE,
            !.pc = SaveOrder[1]])
  /\ UNCHANGED <<tenantVars, connectionVars, cuts>>

ReadPrevious(c) ==
  LET r == call[c] IN
  /\ At(c, "readPrevious")
  /\ call' = [call EXCEPT ![c].seen = credential[r.tenant][r.version] # Null,
                          ![c].pc = AfterSave("readPrevious")]
  /\ UNCHANGED <<tenantVars, connectionVars, crossed, cuts>>

StoreCredentials(c) ==
  /\ At(c, "storeCredentials")
  /\ credential' = [credential EXCEPT ![call[c].tenant][call[c].version] = c]
  /\ Goto(c, AfterSave("storeCredentials"))
  /\ UNCHANGED <<tenantVars, config, connection, revoked, crossed, cuts>>

UpsertConfig(c) ==
  /\ At(c, "upsertConfig")
  /\ config' = [config EXCEPT ![call[c].tenant][call[c].version] = SavedConfig[call[c].version]]
  /\ Goto(c, AfterSave("upsertConfig"))
  /\ UNCHANGED <<tenantVars, credential, connection, revoked, crossed, cuts>>

-----------------------------------------------------------------------------
(* /ptv-connections: a user's own PTV account.                             *)

\* What the fragment of PTV's redirect parses to, and what PTV says of a token.
ParsedFragments == {"token", "error"}
Introspections  == {"active", "inactive", "failed"}

StartConnect(c) ==
  /\ \E u \in Users, parsed \in ParsedFragments, ptv \in Introspections :
       Begin(c, IF parsed = "token" /\ ptv = "active" THEN [Idle EXCEPT !.op = "connect", !.user = u, !.pc = "storeConnection"]
                ELSE Refused)
  /\ UNCHANGED <<tenantVars, connectionVars, cuts>>

StoreConnection(c) ==
  /\ At(c, "storeConnection")
  /\ connection' = [connection EXCEPT ![call[c].user] = [token |-> c, live |-> TRUE]]
  /\ Goto(c, "listTenants")
  /\ UNCHANGED <<tenantVars, config, credential, revoked, crossed, cuts>>

\* Fetched once: for the read defaults, and for the audit entries.
ListTenants(c) ==
  LET ts == ListTenantsForUser(call[c].user)
      next == IF ts = {} THEN "ok" ELSE IF call[c].op = "connect" THEN "readDefaults" ELSE "recordEvent"
  IN
  /\ At(c, "listTenants")
  /\ call' = [call EXCEPT ![c].tenants = ts, ![c].todo = ts, ![c].pc = next]
  /\ UNCHANGED <<tenantVars, connectionVars, crossed, cuts>>

\* Each tenant's transaction succeeds or fails by itself (allSettled).
Settle(c, t) ==
  LET left == call[c].todo \ {t} IN
  call' = [call EXCEPT ![c].todo = IF left = {} THEN call[c].tenants ELSE left,
                       ![c].pc = IF left = {} THEN "recordEvent" ELSE "readDefaults"]

EnsureV11ReadDefaults(c) ==
  /\ At(c, "readDefaults")
  /\ \E t \in call[c].todo :
       /\ config' = [config EXCEPT ![t]["v11"] = WithReadDefaults(@)]
       /\ Settle(c, t)
  /\ UNCHANGED <<tenantVars, credential, connection, revoked, crossed, cuts>>

ReadDefaultsFail(c) ==
  /\ At(c, "readDefaults") /\ cuts < MaxCuts
  /\ cuts' = cuts + 1
  /\ \E t \in call[c].todo : Settle(c, t)
  /\ UNCHANGED <<tenantVars, connectionVars, crossed>>

\* One entry per tenant that relies on the connection, in any order.
RecordConnectionEvent(c) ==
  LET r == call[c] IN
  /\ At(c, "recordEvent")
  /\ \E t \in r.todo :
       /\ Record([action |-> r.op, tenant |-> t, by |-> r.user, on |-> Null, role |-> "none",
                  before |-> FALSE, after |-> FALSE, version |-> "v11"])
       /\ call' = [call EXCEPT ![c].todo = @ \ {t},
                               ![c].pc = IF r.todo = {t} THEN "ok" ELSE "recordEvent"]
  /\ UNCHANGED <<tenant, membership, connectionVars, crossed, cuts>>

StartDisconnect(c) ==
  /\ \E u \in Users :
       Begin(c, [Idle EXCEPT !.op = "disconnect", !.user = u, !.key = ConnectionOf(u),
                   !.pc = IF ConnectionOf(u) = Null THEN "revokeConnection" ELSE "revokeToken"])
  /\ UNCHANGED <<tenantVars, connectionVars, cuts>>

\* Mutant: what PTV did not revoke stays.
StopsAtPtv(c) ==
  /\ At(c, "revokeToken")
  /\ \/ revoked' = revoked \cup {call[c].key} /\ Goto(c, "revokeConnection")
     \/ UNCHANGED revoked /\ Goto(c, "listTenants")
  /\ UNCHANGED <<tenantVars, config, credential, connection, crossed, cuts>>

\* PTV's answer does not matter: the row is the source of truth.
RevokeToken(c) ==
  /\ At(c, "revokeToken")
  /\ \/ revoked' = revoked \cup {call[c].key}
     \/ UNCHANGED revoked
  /\ Goto(c, "revokeConnection")
  /\ UNCHANGED <<tenantVars, config, credential, connection, crossed, cuts>>

RevokeConnection(c) ==
  /\ At(c, "revokeConnection")
  /\ connection' = [connection EXCEPT ![call[c].user].live = FALSE]
  /\ Goto(c, "listTenants")
  /\ UNCHANGED <<tenantVars, config, credential, revoked, crossed, cuts>>

ConnectionStep(c) ==
  \/ TenantStep(c) /\ UNCHANGED connectionVars
  \/ StartSaveKey(c) \/ ReadPrevious(c) \/ StoreCredentials(c) \/ UpsertConfig(c)
  \/ StartConnect(c) \/ StoreConnection(c) \/ ListTenants(c)
  \/ EnsureV11ReadDefaults(c) \/ ReadDefaultsFail(c) \/ RecordConnectionEvent(c)
  \/ StartDisconnect(c) \/ RevokeToken(c) \/ RevokeConnection(c)

-----------------------------------------------------------------------------
\* GET /tenants/:tenantId/ptv/v11/api-user: a row for a tenant-scoped
\* configuration, with the user it finds.
ApiUsers(t) == IF config[t]["v11"].scope = "tenant" THEN {credential[t]["v11"]} ELSE {}

\* A configuration that says the tenant's own credential is used is never
\* there without one, whatever crosses or is cut off between the two saves:
\* the page lists no API user without a name, and reads do not fail for want
\* of an API key.
ScopeHasCredential ==
  \A t \in Tenants :
    /\ Null \notin ApiUsers(t)
    /\ config[t]["v12"].exists => credential[t]["v12"] # Null

\* Neither connecting an account nor anything else takes back what saving an
\* API user set: writing stays on and the scope stays the tenant's
\* (ensureV11ReadDefaults, whose rows are the same ones).
WritingStaysOn ==
  \A t \in Tenants : config[t]["v11"].write =>
    config'[t]["v11"].write /\ config'[t]["v11"].scope = config[t]["v11"].scope

\* The API user of a tenant can be relied on: its configuration never names a
\* credential that is not there, and nothing switches it off.
ApiUserStays == [][ScopeHasCredential' /\ WritingStaysOn]_<<config, credential>>

\* A connection that was disconnected is never used again: the token the
\* request read is no longer the live one, whether PTV revoked it or not and
\* whoever connected in between.
DisconnectedStaysSo ==
  \A c \in Calls :
    call[c].op = "disconnect" /\ At(c, "ok") /\ call[c].key # Null
    => ConnectionOf(call[c].user) # call[c].key

\* Connecting reaches every tenant of the user although one of them fails:
\* each has its audit entry, and without failures each can be read.
ConnectReachesAll ==
  \A c \in Calls : call[c].op = "connect" /\ At(c, "ok") =>
    \A t \in call[c].tenants :
      /\ \E i \in 1 .. Len(audit) : /\ audit[i].action = "connect" /\ audit[i].tenant = t
                                    /\ audit[i].by = call[c].user
      /\ cuts = 0 => config[t]["v11"].read

\* A PTV account is connected everywhere, and disconnected for good.
ConnectionsTakeEffect ==
  /\ ConnectReachesAll
  /\ DisconnectedStaysSo
=============================================================================
