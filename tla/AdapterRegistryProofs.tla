------------------------ MODULE AdapterRegistryProofs ------------------------
(***************************************************************************)
(* What AdapterRegistry guarantees for every set of users, tenants and     *)
(* requests and any number of cuts: who is handed an adapter, that writes  *)
(* leave their entries, that an API user stays, that connections take      *)
(* effect, and that the trail tells the truth.                             *)
(***************************************************************************)
EXTENDS AdapterRegistry, TLAPS

Ops == {"none", "create", "add", "update", "remove", "settings", "key", "connect",
        "disconnect", "read", "apply"}

\* The steps, by the operations that take them.
MemberOps == {"add", "update", "remove"}
SettingsSteps == {"readBefore", "setFourEyes"}
KeySteps == {"readPrevious", "storeCredentials", "upsertConfig"}
ApplySteps == {"approver", "propose", "validate", "write", "recordApplied", "recordFailed"}
ResolveSteps == {"membership", "config", "credential"}
ConnectSteps == {"storeConnection", "readDefaults"}
DisconnectSteps == {"revokeToken", "revokeConnection"}
TenantSteps == {"insertTenant", "setRole", "recordChange"} \cup SettingsSteps
                  \cup KeySteps \cup ApplySteps \cup ResolveSteps

Pcs == TenantSteps \cup ConnectSteps \cup DisconnectSteps
          \cup {"idle", "listTenants", "recordEvent", "ok", "refused", "cut"}

CallRecord ==
  [op : Ops, pc : Pcs, user : Users \cup {Null}, tenant : Tenants \cup {Null},
   target : Users \cup {Null}, role : Roles, flag : BOOLEAN, seen : BOOLEAN,
   version : Versions, write : Versions \cup {Null}, intent : {"read", "write"},
   tenants : SUBSET Tenants, todo : SUBSET Tenants, key : Keys \cup {Null},
   config : [scope : {"none", "user", "tenant"}, write : BOOLEAN],
   adapter : [kind : {"none", "public", "user", "tenant"}, key : Keys \cup {Null},
              write : BOOLEAN]]

Entries ==
  [action : Ops \cup {"propose", "validate", "applied", "failed"}, tenant : Tenants,
   by : Users, on : Users \cup {Null}, role : Roles, before : BOOLEAN, after : BOOLEAN,
   version : Versions \cup {Null}]

\* Which operation a request at a given step is carrying out, and for whom.
Fits(r) ==
  /\ r.pc \notin Ended \cup {"idle"} => r.user \in Users
  /\ r.pc \in TenantSteps => r.tenant \in Tenants
  /\ r.pc = "insertTenant" => r.op = "create"
  /\ r.pc = "setRole" => r.op \in MemberOps /\ r.target \in Users
  /\ r.pc \in SettingsSteps => r.op = "settings"
  /\ r.pc \in KeySteps => r.op = "key"
  /\ r.pc = "recordChange" => r.op \in MemberOps \cup {"settings", "key"}
  /\ r.pc \in ConnectSteps => r.op = "connect"
  /\ r.pc \in DisconnectSteps => r.op = "disconnect"
  /\ r.pc = "revokeToken" => r.key # Null
  /\ r.pc \in {"listTenants", "recordEvent"} => r.op \in {"connect", "disconnect"}
  /\ r.pc \in ApplySteps => r.op = "apply"
  /\ r.pc \in ResolveSteps => r.op \in {"read", "apply"}
  /\ r.intent = "write" => r.op = "apply"
  /\ r.op = "apply" => r.write \in Versions

CallsTyped == call \in [Calls -> CallRecord] /\ \A c \in Calls : Fits(call[c])

Typed ==
  /\ TypeOK
  /\ CallsTyped
  /\ audit \in Seq(Entries)

-----------------------------------------------------------------------------
(* Roles, and what the operators of the modules evaluate to.                *)

LEMMA RolesAre ==
  Roles = {"none", "viewer", "contributor", "approver", "publisher", "tenant_admin"}
  BY DEF Roles, RoleRank

LEMMA RanksAre ==
  /\ RoleRank["none"] = 0 /\ RoleRank["viewer"] = 1 /\ RoleRank["contributor"] = 2
  /\ RoleRank["approver"] = 3 /\ RoleRank["publisher"] = 4 /\ RoleRank["tenant_admin"] = 5
  BY DEF RoleRank

\* Whoever may publish may read, and whoever may do anything is a member.
LEMMA RoleOrder ==
  \A role \in Roles :
     /\ AtLeast(role, "publisher") => AtLeast(role, "viewer")
     /\ AtLeast(role, "tenant_admin") => role # "none"
     /\ AtLeast(role, "viewer") => role # "none"
  BY RolesAre, RanksAre DEF AtLeast

LEMMA AfterSaveIs ==
  /\ SaveOrder[1] = "readPrevious"
  /\ AfterSave("readPrevious") = "storeCredentials"
  /\ AfterSave("storeCredentials") = "upsertConfig"
  /\ AfterSave("upsertConfig") = "recordChange"
  BY DEF AfterSave, SaveOrder, SaveSteps

LEMMA IdleTyped ==
  /\ Idle \in CallRecord /\ Fits(Idle)
  /\ Refused \in CallRecord /\ Fits(Refused)
  /\ [Idle EXCEPT !.pc = "cut"] \in CallRecord /\ Fits([Idle EXCEPT !.pc = "cut"])
  <1> USE DEF MemberOps, SettingsSteps, KeySteps, ApplySteps, ResolveSteps, ConnectSteps,
              DisconnectSteps, TenantSteps, Pcs, Ops, Ended
  <1>1. Idle \in CallRecord /\ Fits(Idle)
    BY RolesAre DEF Idle, CallRecord, Fits, Versions
  <1>2. Refused \in CallRecord /\ Fits(Refused)
    BY RolesAre DEF Idle, Refused, CallRecord, Fits, Versions
  <1>3. [Idle EXCEPT !.pc = "cut"] \in CallRecord /\ Fits([Idle EXCEPT !.pc = "cut"])
    BY RolesAre DEF Idle, CallRecord, Fits, Versions
  <1> QED
    BY <1>1, <1>2, <1>3

\* One request gets another record; the others keep theirs.
LEMMA Becomes ==
  ASSUME CallsTyped, NEW c \in Calls, NEW r \in CallRecord, Fits(r),
         call' = [call EXCEPT ![c] = r]
  PROVE  /\ CallsTyped'
         /\ call'[c] = r
         /\ \A d \in Calls : d # c => call'[d] = call[d]
  BY DEF CallsTyped

LEMMA GotoBecomes ==
  ASSUME CallsTyped, NEW c \in Calls, NEW s \in Pcs, Goto(c, s)
  PROVE  /\ [call[c] EXCEPT !.pc = s] \in CallRecord
         /\ call' = [call EXCEPT ![c] = [call[c] EXCEPT !.pc = s]]
         /\ \A d \in Calls : d # c => call'[d] = call[d]
         /\ call'[c] = [call[c] EXCEPT !.pc = s]
         /\ call'[c].pc = s
         /\ call'[c].op = call[c].op
         /\ call'[c].user = call[c].user
         /\ call'[c].tenant = call[c].tenant
         /\ call'[c].target = call[c].target
         /\ call'[c].role = call[c].role
         /\ call'[c].flag = call[c].flag
         /\ call'[c].seen = call[c].seen
         /\ call'[c].version = call[c].version
         /\ call'[c].write = call[c].write
         /\ call'[c].intent = call[c].intent
         /\ call'[c].tenants = call[c].tenants
         /\ call'[c].todo = call[c].todo
         /\ call'[c].key = call[c].key
         /\ call'[c].config = call[c].config
         /\ call'[c].adapter = call[c].adapter
  <1>1. call[c] \in CallRecord
    BY DEF CallsTyped
  <1>2. call' = [call EXCEPT ![c] = [call[c] EXCEPT !.pc = s]]
    BY DEF Goto, CallsTyped
  <1>3. [call[c] EXCEPT !.pc = s] \in CallRecord
    BY <1>1 DEF CallRecord
  <1>4. /\ \A d \in Calls : d # c => call'[d] = call[d]
        /\ call'[c] = [call[c] EXCEPT !.pc = s]
    BY <1>2 DEF CallsTyped
  <1> QED
    BY <1>1, <1>2, <1>3, <1>4 DEF CallRecord

LEMMA InitTyped == Init => Typed
  <1> SUFFICES ASSUME Init PROVE Typed
    OBVIOUS
  <1>1. CallsTyped
    BY IdleTyped DEF Init, CallsTyped
  <1>2. audit \in Seq(Entries)
    BY DEF Init
  <1>3. tenant \in [Tenants -> [exists : BOOLEAN, fourEyes : BOOLEAN]]
    BY DEF Init, NewTenant, NoTenant
  <1>4. membership \in [Tenants -> [Users -> Roles]]
    BY TenantsAssumption, RolesAre DEF Init
  <1>5. config \in [Tenants -> [Versions -> Config]]
    <2>1. PICK had \in {"nothing", "defaults", "second", "keys"} :
            config = [t \in Tenants |-> [v \in Versions |->
              CASE t = Home /\ had = "keys" -> SavedConfig[v]
                [] t = Home /\ had \in {"defaults", "second"} /\ v = "v11" -> DefaultConfig
                [] OTHER -> NoConfig]]
      BY DEF Init
    <2>2. /\ NoConfig \in Config /\ DefaultConfig \in Config
          /\ \A v \in Versions : SavedConfig[v] \in Config
      BY DEF Versions, Config, NoConfig, SavedConfig, DefaultConfig
    <2> QED
      BY <2>1, <2>2
  <1>6. credential \in [Tenants -> [Versions -> Keys \cup {Null}]]
    BY DEF Init, Keys
  <1>7. connection \in [Users -> [token : Keys \cup {Null}, live : BOOLEAN]]
    BY DEF Init, Keys
  <1>8. /\ revoked \subseteq Keys /\ written \subseteq Calls
        /\ cuts \in 0 .. MaxCuts /\ crossed \in BOOLEAN
    <2>1. revoked = {} /\ written = {} /\ cuts = 0 /\ crossed = FALSE
      BY DEF Init
    <2>2. cuts \in 0 .. MaxCuts
      BY <2>1, TenantsAssumption
    <2>3. crossed \in BOOLEAN
      BY <2>1
    <2> QED
      BY <2>1, <2>2, <2>3
  <1> QED
    BY <1>1, <1>2, <1>3, <1>4, <1>5, <1>6, <1>7, <1>8 DEF Typed, TypeOK

-----------------------------------------------------------------------------
(* What a step can change at all, table by table.                           *)

Starts(c) ==
  \/ StartCreateTenant(c) \/ StartMemberChange(c) \/ StartUpdateSettings(c)
  \/ StartSaveKey(c) \/ StartConnect(c) \/ StartDisconnect(c)
  \/ StartRead(c) \/ StartApply(c)

Records(c) ==
  \/ RecordChange(c) \/ RecordConnectionEvent(c) \/ RecordProposed(c)
  \/ RecordValidated(c) \/ RecordApplied(c) \/ RecordFailed(c)

LEMMA Footprint ==
  ASSUME NEW c \in Calls, RegistryStep(c)
  PROVE  /\ UNCHANGED tenant \/ CreateTenant(c) \/ SetFourEyes(c)
         /\ UNCHANGED membership \/ CreateTenant(c) \/ SetRole(c)
         /\ UNCHANGED config \/ UpsertConfig(c) \/ EnsureV11ReadDefaults(c)
         /\ UNCHANGED credential \/ StoreCredentials(c)
         /\ UNCHANGED connection \/ StoreConnection(c) \/ RevokeConnection(c)
         /\ UNCHANGED revoked \/ RevokeToken(c)
         /\ UNCHANGED written \/ WritePtv(c)
         /\ UNCHANGED audit \/ Records(c)
         /\ UNCHANGED cuts \/ Cut(c) \/ ReadDefaultsFail(c)
         /\ UNCHANGED crossed \/ Starts(c)
  <1>1. CASE TenantStep(c) /\ UNCHANGED connectionVars /\ UNCHANGED written
    BY <1>1 DEF TenantStep, tenantVars, connectionVars, Starts, Records, StartCreateTenant,
       CreateTenant, StartMemberChange, SetRole, StartUpdateSettings, ReadBefore,
       SetFourEyes, RecordChange, Cut
  <1>2. CASE /\ StartSaveKey(c) \/ StartConnect(c) \/ StartDisconnect(c)
             /\ UNCHANGED written
    BY <1>2 DEF tenantVars, connectionVars, Starts, StartSaveKey, StartConnect,
       StartDisconnect
  <1>3. CASE /\ \/ ReadPrevious(c) \/ StoreCredentials(c) \/ UpsertConfig(c)
                \/ StoreConnection(c) \/ ListTenants(c) \/ EnsureV11ReadDefaults(c)
                \/ ReadDefaultsFail(c) \/ RecordConnectionEvent(c) \/ RevokeToken(c)
                \/ RevokeConnection(c)
             /\ UNCHANGED written
    BY <1>3 DEF tenantVars, connectionVars, Records, ReadPrevious, StoreCredentials,
       UpsertConfig, StoreConnection, ListTenants, EnsureV11ReadDefaults, ReadDefaultsFail,
       RecordConnectionEvent, RevokeToken, RevokeConnection
  <1>4. CASE \/ StartRead(c) \/ StartApply(c)
             \/ RequireApprover(c) \/ ReadMembership(c) \/ ListConfigs(c)
             \/ ResolveCredential(c) \/ RecordProposed(c) \/ RecordValidated(c)
             \/ WritePtv(c) \/ RecordApplied(c) \/ RecordFailed(c)
    BY <1>4 DEF tenantVars, connectionVars, Records, Starts, StartRead, StartApply,
       RequireApprover, ReadMembership, ListConfigs, ResolveCredential, RecordProposed,
       RecordValidated, WritePtv, RecordApplied, RecordFailed
  <1> QED
    BY <1>1, <1>2, <1>3, <1>4 DEF RegistryStep, ConnectionStep

-----------------------------------------------------------------------------
(* The requests keep their type.                                            *)

\* A request that has just started: it has resolved nothing, except that one
\* without a tenant is handed the published data at once.
Fresh(r) ==
  /\ r.intent = "read" /\ ~r.adapter.write /\ r.adapter.kind \in {"none", "public"}
  /\ r.pc \in {"insertTenant", "setRole", "readBefore", "readPrevious", "storeConnection",
               "revokeToken", "revokeConnection", "membership", "approver", "ok", "refused"}
  /\ r.pc \in {"ok", "membership"} => r.op = "read"
  /\ r.op = "disconnect" => r.key = ConnectionOf(r.user) /\ r.pc \in DisconnectSteps
  /\ r.op # "disconnect" => r.key = Null
  /\ r.op = "apply" => r.tenant \in Tenants /\ ~tenant[r.tenant].fourEyes
  /\ r.pc \in {"setRole", "readBefore", "readPrevious"}
       => AtLeast(membership[r.tenant][r.user], "tenant_admin")

\* A request that starts is refused or has what its first step needs.
LEMMA StartsTyped ==
  ASSUME Typed, NEW c \in Calls, Starts(c)
  PROVE  \E r \in CallRecord :
           Fits(r) /\ Fresh(r) /\ call' = [call EXCEPT ![c] = r] /\ At(c, "idle")
  <1> USE RolesAre DEF MemberOps, SettingsSteps, KeySteps, ApplySteps, ResolveSteps,
          ConnectSteps, DisconnectSteps, TenantSteps, Pcs, Ops, Ended
  <1> DEFINE Begun(r) == r \in CallRecord /\ Fits(r) /\ Fresh(r)
             Goal == \E r : Begun(r) /\ call' = [call EXCEPT ![c] = r] /\ At(c, "idle")
  <1>1. SUFFICES Goal
    OBVIOUS
  <1>2. Begun(Refused)
    BY IdleTyped DEF Fresh, Refused, Idle
  <1>3. CASE StartCreateTenant(c)
    <2>1. PICK u \in Users, t \in Tenants :
            Begin(c, IF tenant[t].exists THEN Refused
                ELSE [Idle EXCEPT !.op = "create", !.user = u, !.tenant = t, !.pc = "insertTenant"])
      BY <1>3 DEF StartCreateTenant
    <2>2. Begun([Idle EXCEPT !.op = "create", !.user = u, !.tenant = t, !.pc = "insertTenant"])
      BY DEF Idle, CallRecord, Fits, Fresh, Versions
    <2> QED
      BY <1>2, <2>1, <2>2 DEF Begin
  <1>4. CASE StartMemberChange(c)
    <2>1. PICK u \in Users, v \in Users, t \in Tenants, op \in {"add", "update", "remove"},
               role \in Assigned :
             RequireRole(c, "tenant_admin",
               [Idle EXCEPT !.op = op, !.user = u, !.tenant = t, !.target = v,
                  !.role = IF op = "remove" THEN "none" ELSE role, !.pc = "setRole"])
      BY <1>4 DEF StartMemberChange
    <2>2. AtLeast(membership[t][u], "tenant_admin")
            => Begun([Idle EXCEPT !.op = op, !.user = u, !.tenant = t, !.target = v,
                        !.role = IF op = "remove" THEN "none" ELSE role, !.pc = "setRole"])
      <3>1. (IF op = "remove" THEN "none" ELSE role) \in Roles
        BY TenantsAssumption
      <3>2. ASSUME NEW z \in Roles, AtLeast(membership[t][u], "tenant_admin")
            PROVE  Begun([Idle EXCEPT !.op = op, !.user = u, !.tenant = t, !.target = v,
                            !.role = z, !.pc = "setRole"])
        BY <3>2 DEF Idle, CallRecord, Fits, Fresh, Versions
      <3> HIDE DEF Begun
      <3> QED
        BY <3>1, <3>2
    <2> QED
      BY <1>2, <2>1, <2>2 DEF Begin, RequireRole, Idle
  <1>5. CASE StartUpdateSettings(c)
    <2>1. PICK u \in Users, t \in Tenants, on \in BOOLEAN :
             RequireRole(c, "tenant_admin",
               [Idle EXCEPT !.op = "settings", !.user = u, !.tenant = t, !.flag = on,
                  !.pc = "readBefore"])
      BY <1>5 DEF StartUpdateSettings
    <2>2. AtLeast(membership[t][u], "tenant_admin")
            => Begun([Idle EXCEPT !.op = "settings", !.user = u, !.tenant = t, !.flag = on,
                  !.pc = "readBefore"])
      BY DEF Idle, CallRecord, Fits, Fresh, Versions
    <2> QED
      BY <1>2, <2>1, <2>2 DEF Begin, RequireRole, Idle
  <1>6. CASE StartSaveKey(c)
    <2>1. PICK u \in Users, t \in Tenants, v \in Versions :
             RequireRole(c, "tenant_admin",
               [Idle EXCEPT !.op = "key", !.user = u, !.tenant = t, !.version = v,
                  !.flag = TRUE, !.pc = "readPrevious"])
      BY <1>6, AfterSaveIs DEF StartSaveKey
    <2>2. AtLeast(membership[t][u], "tenant_admin")
            => Begun([Idle EXCEPT !.op = "key", !.user = u, !.tenant = t, !.version = v,
                  !.flag = TRUE, !.pc = "readPrevious"])
      BY DEF Idle, CallRecord, Fits, Fresh, Versions
    <2> QED
      BY <1>2, <2>1, <2>2 DEF Begin, RequireRole, Idle
  <1>7. CASE StartConnect(c)
    <2>1. PICK u \in Users, parsed \in ParsedFragments, ptv \in Introspections :
             Begin(c, IF parsed = "token" /\ ptv = "active"
                      THEN [Idle EXCEPT !.op = "connect", !.user = u, !.pc = "storeConnection"]
                      ELSE Refused)
      BY <1>7 DEF StartConnect
    <2>2. Begun([Idle EXCEPT !.op = "connect", !.user = u, !.pc = "storeConnection"])
      BY DEF Idle, CallRecord, Fits, Fresh, Versions
    <2> QED
      BY <1>2, <2>1, <2>2 DEF Begin
  <1>8. CASE StartDisconnect(c)
    <2>1. PICK u \in Users :
             Begin(c, [Idle EXCEPT !.op = "disconnect", !.user = u, !.key = ConnectionOf(u),
                   !.pc = IF ConnectionOf(u) = Null THEN "revokeConnection" ELSE "revokeToken"])
      BY <1>8 DEF StartDisconnect
    <2>2. ConnectionOf(u) \in Keys \cup {Null}
      BY DEF Typed, TypeOK, ConnectionOf
    <2>3. Begun([Idle EXCEPT !.op = "disconnect", !.user = u, !.key = ConnectionOf(u),
                   !.pc = IF ConnectionOf(u) = Null THEN "revokeConnection" ELSE "revokeToken"])
      BY <2>2 DEF Idle, CallRecord, Fits, Fresh, Versions
    <2> QED
      BY <2>1, <2>3 DEF Begin
  <1>9. CASE StartRead(c)
    <2>1. PICK u \in Users, t \in Tenants \cup {Null}, v \in Versions :
            Begin(c, IF t = Null THEN ResolvePublic(Claims("read", u, t, v, Null))
                     ELSE [Claims("read", u, t, v, Null) EXCEPT !.pc = "membership"])
      BY <1>9 DEF StartRead
    <2>2. CASE t = Null
      <3>1. Begun([Claims("read", u, t, v, Null) EXCEPT !.pc = "ok", !.adapter.kind = "public"])
        BY DEF Claims, Idle, CallRecord, Fits, Fresh, Versions
      <3> QED
        BY <1>2, <2>1, <2>2, <3>1 DEF Begin, ResolvePublic
    <2>3. CASE t # Null
      <3>1. Begun([Claims("read", u, t, v, Null) EXCEPT !.pc = "membership"])
        BY <2>3 DEF Claims, Idle, CallRecord, Fits, Fresh, Versions
      <3> QED
        BY <2>1, <2>3, <3>1 DEF Begin
    <2> QED
      BY <2>2, <2>3
  <1>10. CASE StartApply(c)
    <2>1. PICK u \in Users, t \in Tenants, v \in Versions, w \in Versions \cup {Null} :
             Begin(c, IF TenantRequiresFourEyes(t) \/ w = Null THEN Refused
                      ELSE [Claims("apply", u, t, v, w) EXCEPT !.pc = "approver"])
      BY <1>10 DEF StartApply
    <2>2. w # Null /\ ~TenantRequiresFourEyes(t)
            => Begun([Claims("apply", u, t, v, w) EXCEPT !.pc = "approver"])
      BY DEF TenantRequiresFourEyes, Claims, Idle, CallRecord, Fits, Fresh, Versions
    <2> QED
      BY <1>2, <2>1, <2>2 DEF Begin
  <1> QED
    BY <1>3, <1>4, <1>5, <1>6, <1>7, <1>8, <1>9, <1>10 DEF Starts

\* The step s that may follow in a request with record r.
Leads(r, s) ==
  \/ r.pc \in {"insertTenant", "recordChange", "listTenants", "recordEvent", "recordApplied"}
       /\ s = "ok"
  \/ r.pc = "credential" /\ s = "ok" /\ r.op = "read"
  \/ r.pc = "recordFailed" /\ s = "refused"
  \/ r.pc \in {"setRole", "setFourEyes", "upsertConfig"} /\ s = "recordChange"
  \/ r.pc = "readBefore" /\ s = "setFourEyes"
  \/ r.pc = "readPrevious" /\ s = "storeCredentials"
  \/ r.pc = "storeCredentials" /\ s = "upsertConfig"
  \/ r.pc \in {"storeConnection", "revokeConnection"} /\ s = "listTenants"
  \/ r.pc = "revokeToken" /\ s = "revokeConnection"
  \/ r.pc = "listTenants" /\ s = "readDefaults" /\ r.op = "connect"
  \/ r.pc \in {"listTenants", "readDefaults", "recordEvent"} /\ s = "recordEvent"
  \/ r.pc = "readDefaults" /\ s = "readDefaults"
  \/ r.pc \in {"approver", "validate"} /\ s = "membership"
  \/ r.pc = "membership" /\ s = "config"
  \/ r.pc = "config" /\ s = "credential"
  \/ r.pc = "credential" /\ s \in {"propose", "write"} /\ r.op = "apply"
  \/ r.pc = "propose" /\ s = "validate"
  \/ r.pc = "write" /\ s \in {"recordApplied", "recordFailed"}

\* What a request was started with stays.
Same(q, r) ==
  /\ q.op = r.op /\ q.user = r.user /\ q.tenant = r.tenant /\ q.target = r.target
  /\ q.role = r.role /\ q.flag = r.flag /\ q.version = r.version /\ q.write = r.write
  /\ q.key = r.key

\* The record q is what a step of c that neither refuses nor cuts off makes
\* of c's.
Follows(c, q) ==
  /\ Leads(call[c], q.pc)
  /\ Same(q, call[c])
  /\ q.seen = call[c].seen \/ ReadBefore(c) \/ ReadPrevious(c)
  /\ q.tenants = call[c].tenants \/ ListTenants(c)
  /\ \/ q.todo = call[c].todo
     \/ ListTenants(c) \/ EnsureV11ReadDefaults(c) \/ ReadDefaultsFail(c)
     \/ RecordConnectionEvent(c)
  /\ q.intent = call[c].intent \/ RecordValidated(c)
  /\ q.config = call[c].config \/ ListConfigs(c)
  /\ q.adapter = call[c].adapter \/ ResolveCredential(c)

CutOff == [Idle EXCEPT !.pc = "cut"]

\* A record q that follows r fits as r does.
LEMMA FitsFollows ==
  ASSUME NEW r, NEW q, NEW s,
         Fits(r), Leads(r, s),
         q.pc = s, q.op = r.op, q.user = r.user, q.tenant = r.tenant,
         q.target = r.target, q.key = r.key, q.write = r.write,
         q.intent = r.intent \/ r.pc = "validate"
  PROVE  Fits(q)
  <1> USE DEF MemberOps, SettingsSteps, KeySteps, ApplySteps, ResolveSteps, ConnectSteps,
              DisconnectSteps, TenantSteps, Ended
  <1>1. q.intent = "write" => q.op = "apply"
    BY DEF Fits
  <1>2. q.pc \notin Ended \cup {"idle"} => q.user \in Users
    BY DEF Fits, Leads
  <1>3. q.pc \in TenantSteps => q.tenant \in Tenants
    BY DEF Fits, Leads
  <1>4. /\ q.pc = "insertTenant" => q.op = "create"
        /\ q.pc = "setRole" => q.op \in MemberOps /\ q.target \in Users
        /\ q.pc \in SettingsSteps => q.op = "settings"
        /\ q.pc \in KeySteps => q.op = "key"
    BY DEF Fits, Leads
  <1>5. q.pc = "recordChange" => q.op \in MemberOps \cup {"settings", "key"}
    BY DEF Fits, Leads
  <1>6. /\ q.pc \in ConnectSteps => q.op = "connect"
        /\ q.pc \in DisconnectSteps => q.op = "disconnect"
        /\ q.pc = "revokeToken" => q.key # Null
    BY DEF Fits, Leads
  <1>7. q.pc \in {"listTenants", "recordEvent"} => q.op \in {"connect", "disconnect"}
    BY DEF Fits, Leads
  <1>8. /\ q.pc \in ApplySteps => q.op = "apply"
        /\ q.pc \in ResolveSteps => q.op \in {"read", "apply"}
    BY DEF Fits, Leads
  <1>9. q.op = "apply" => q.write \in Versions
    BY DEF Fits
  <1> QED
    BY <1>1, <1>2, <1>3, <1>4, <1>5, <1>6, <1>7, <1>8, <1>9 DEF Fits

\* The records of requests that have read something.
LEMMA ReadRecords ==
  ASSUME NEW x \in CallRecord, NEW s \in Pcs
  PROVE  /\ \A b \in BOOLEAN : [x EXCEPT !.seen = b, !.pc = s] \in CallRecord
         /\ \A ts \in SUBSET Tenants, us \in SUBSET Tenants :
               /\ [x EXCEPT !.tenants = ts, !.todo = us, !.pc = s] \in CallRecord
               /\ [x EXCEPT !.todo = us, !.pc = s] \in CallRecord
         /\ \A own \in [scope : {"none", "user", "tenant"}, write : BOOLEAN] :
               [x EXCEPT !.pc = s, !.config = own] \in CallRecord
         /\ \A a \in [kind : {"none", "public", "user", "tenant"}, key : Keys \cup {Null},
                      write : BOOLEAN] :
               [x EXCEPT !.pc = s, !.adapter = a] \in CallRecord
         /\ \A i \in {"read", "write"} : [x EXCEPT !.pc = s, !.intent = i] \in CallRecord
  <1>1. \A b \in BOOLEAN : [x EXCEPT !.seen = b, !.pc = s] \in CallRecord
    BY DEF CallRecord
  <1>2. \A ts \in SUBSET Tenants, us \in SUBSET Tenants :
               /\ [x EXCEPT !.tenants = ts, !.todo = us, !.pc = s] \in CallRecord
               /\ [x EXCEPT !.todo = us, !.pc = s] \in CallRecord
    BY DEF CallRecord
  <1>3. \A own \in [scope : {"none", "user", "tenant"}, write : BOOLEAN] :
               [x EXCEPT !.pc = s, !.config = own] \in CallRecord
    BY DEF CallRecord
  <1>4. \A a \in [kind : {"none", "public", "user", "tenant"}, key : Keys \cup {Null},
                      write : BOOLEAN] :
               [x EXCEPT !.pc = s, !.adapter = a] \in CallRecord
    BY DEF CallRecord
  <1>5. \A i \in {"read", "write"} : [x EXCEPT !.pc = s, !.intent = i] \in CallRecord
    BY DEF CallRecord
  <1> QED
    BY <1>1, <1>2, <1>3, <1>4, <1>5

\* A request that goes on keeps what it has, is refused or cut off, or notes
\* what it has read.
LEMMA StepsTyped ==
  ASSUME Typed, NEW c \in Calls, RegistryStep(c), ~Starts(c)
  PROVE  \E r \in CallRecord :
            /\ Fits(r) /\ call' = [call EXCEPT ![c] = r]
            /\ Follows(c, r) \/ r = Refused \/ (r = CutOff /\ Cut(c))
  <1> DEFINE Next1 == \E r \in CallRecord :
                        /\ Fits(r) /\ call' = [call EXCEPT ![c] = r]
                        /\ Follows(c, r) \/ r = Refused \/ (r = CutOff /\ Cut(c))
             x == call[c]
  <1>1. /\ CallsTyped
        /\ x \in CallRecord
        /\ Fits(x)
    BY DEF Typed, CallsTyped
  <1>2. ASSUME Refuse(c) PROVE Next1
    BY <1>2, IdleTyped DEF Refuse
  <1>3. ASSUME NEW r \in CallRecord, call' = [call EXCEPT ![c] = r], Follows(c, r)
        PROVE  Next1
    <2>1. r.intent = x.intent \/ x.pc = "validate"
      BY <1>3 DEF Follows, RecordValidated, At
    <2>2. Fits(r)
      BY <1>1, <1>3, <2>1, FitsFollows DEF Follows, Same
    <2> QED
      BY <1>3, <2>2
  <1>4. ASSUME NEW s \in Pcs, Goto(c, s), Leads(x, s) PROVE Next1
    <2> DEFINE r == [x EXCEPT !.pc = s]
    <2>1. r \in CallRecord /\ call' = [call EXCEPT ![c] = r]
      BY <1>1, <1>4, GotoBecomes
    <2>2. /\ r.pc = s /\ Same(r, x) /\ r.intent = x.intent /\ r.seen = x.seen
          /\ r.tenants = x.tenants /\ r.todo = x.todo
          /\ r.config = x.config /\ r.adapter = x.adapter
      BY <1>1 DEF CallRecord, Same
    <2> QED
      BY <1>3, <1>4, <2>1, <2>2 DEF Follows
  <1> USE DEF MemberOps, SettingsSteps, KeySteps, ApplySteps, ResolveSteps, ConnectSteps,
              DisconnectSteps, TenantSteps, Pcs, Ended
  <1>5. ASSUME TenantStep(c), ~Cut(c), ~ReadBefore(c) PROVE Next1
    BY <1>2, <1>4, <1>5 DEF TenantStep, Starts, CreateTenant, SetRole, SetFourEyes,
       RecordChange, Leads, At
  <1>6. ASSUME Cut(c) PROVE Next1
    BY <1>6, IdleTyped DEF Cut, CutOff
  <1>7. ASSUME ReadBefore(c) PROVE Next1
    <2> DEFINE b == tenant[x.tenant].fourEyes
               r == [x EXCEPT !.seen = b, !.pc = "setFourEyes"]
    <2>1. call' = [call EXCEPT ![c] = r] /\ x.pc = "readBefore"
      BY <1>1, <1>7 DEF ReadBefore, CallsTyped, At
    <2>2. b \in BOOLEAN
      BY <1>1, <2>1 DEF Typed, TypeOK, Fits
    <2>3. r \in CallRecord
      BY <1>1, <2>2, ReadRecords
    <2>4. Leads(x, "setFourEyes")
      BY <2>1 DEF Leads
    <2>5. /\ r.pc = "setFourEyes" /\ Same(r, x)
          /\ r.tenants = x.tenants /\ r.todo = x.todo /\ r.intent = x.intent
          /\ r.config = x.config /\ r.adapter = x.adapter
      BY <1>1 DEF CallRecord, Same
    <2> QED
      BY <1>3, <1>7, <2>1, <2>3, <2>4, <2>5 DEF Follows
  <1>8. ASSUME ReadPrevious(c) PROVE Next1
    <2> DEFINE b == credential[x.tenant][x.version] # Null
               r == [x EXCEPT !.seen = b, !.pc = "storeCredentials"]
    <2>1. call' = [call EXCEPT ![c] = r] /\ x.pc = "readPrevious"
      BY <1>1, <1>8, AfterSaveIs DEF ReadPrevious, CallsTyped, At
    <2>2. b \in BOOLEAN
      BY ZenonT(20)
    <2>3. r \in CallRecord
      <3> HIDE DEF b
      <3> QED
        BY <1>1, <2>2, ReadRecords
    <2>4. Leads(x, "storeCredentials")
      BY <2>1 DEF Leads
    <2>5. /\ r.pc = "storeCredentials" /\ Same(r, x)
          /\ r.tenants = x.tenants /\ r.todo = x.todo /\ r.intent = x.intent
          /\ r.config = x.config /\ r.adapter = x.adapter
      BY <1>1 DEF CallRecord, Same
    <2> QED
      BY <1>3, <1>8, <2>1, <2>3, <2>4, <2>5 DEF Follows
  <1>9. ASSUME StoreCredentials(c) \/ UpsertConfig(c) PROVE Next1
    BY <1>4, <1>9, AfterSaveIs DEF StoreCredentials, UpsertConfig, At, Leads
  <1>10. ASSUME StoreConnection(c) \/ RevokeToken(c) \/ RevokeConnection(c) PROVE Next1
    BY <1>4, <1>10 DEF StoreConnection, RevokeToken, RevokeConnection, At, Leads
  <1>11. ASSUME ListTenants(c) PROVE Next1
    <2> DEFINE ts == ListTenantsForUser(x.user)
               s == IF ts = {} THEN "ok" ELSE IF x.op = "connect" THEN "readDefaults"
                    ELSE "recordEvent"
               r == [x EXCEPT !.tenants = ts, !.todo = ts, !.pc = s]
    <2>1. call' = [call EXCEPT ![c] = r] /\ x.pc = "listTenants"
      <3>1. call' = [call EXCEPT ![c].tenants = ts, ![c].todo = ts, ![c].pc = s]
        BY <1>11 DEF ListTenants
      <3> HIDE DEF ts, s
      <3> QED
        BY <1>1, <1>11, <3>1 DEF ListTenants, CallsTyped, At
    <2>2. ts \in SUBSET Tenants
      BY DEF ListTenantsForUser
    <2>3. s \in Pcs /\ Leads(x, s)
      BY <2>1 DEF Leads
    <2> HIDE DEF ts, s
    <2>4. r \in CallRecord
      BY <1>1, <2>2, <2>3, ReadRecords
    <2>5. /\ r.pc = s /\ Same(r, x)
          /\ r.seen = x.seen /\ r.intent = x.intent /\ r.config = x.config
          /\ r.adapter = x.adapter
      BY <1>1 DEF CallRecord, Same
    <2> QED
      BY <1>3, <1>11, <2>1, <2>3, <2>4, <2>5 DEF Follows
  <1>12. ASSUME NEW us \in SUBSET Tenants, NEW s \in Pcs, Leads(x, s),
                call' = [call EXCEPT ![c].todo = us, ![c].pc = s],
                EnsureV11ReadDefaults(c) \/ ReadDefaultsFail(c) \/ RecordConnectionEvent(c)
         PROVE  Next1
    <2> DEFINE r == [x EXCEPT !.todo = us, !.pc = s]
    <2>1. call' = [call EXCEPT ![c] = r]
      BY <1>1, <1>12 DEF CallsTyped
    <2>2. r \in CallRecord
      BY <1>1, ReadRecords
    <2>3. /\ r.pc = s /\ Same(r, x)
          /\ r.seen = x.seen /\ r.tenants = x.tenants /\ r.intent = x.intent
          /\ r.config = x.config /\ r.adapter = x.adapter
      BY <1>1 DEF CallRecord, Same
    <2> QED
      BY <1>3, <1>12, <2>1, <2>2, <2>3 DEF Follows
  <1>13. ASSUME EnsureV11ReadDefaults(c) \/ ReadDefaultsFail(c) PROVE Next1
    <2>1. PICK t \in x.todo : Settle(c, t)
      BY <1>13 DEF EnsureV11ReadDefaults, ReadDefaultsFail
    <2>2. x.pc = "readDefaults"
      BY <1>13 DEF EnsureV11ReadDefaults, ReadDefaultsFail, At
    <2>3. x.todo \ {t} \in SUBSET Tenants /\ x.tenants \in SUBSET Tenants
      BY <1>1 DEF CallRecord
    <2>4. CASE x.todo \ {t} = {}
      <3>1. call' = [call EXCEPT ![c].todo = x.tenants, ![c].pc = "recordEvent"]
        BY <2>1, <2>4 DEF Settle
      <3> QED
        BY <1>12, <1>13, <2>2, <2>3, <3>1 DEF Leads
    <2>5. CASE x.todo \ {t} # {}
      <3>1. call' = [call EXCEPT ![c].todo = x.todo \ {t}, ![c].pc = "readDefaults"]
        BY <2>1, <2>5 DEF Settle
      <3> QED
        BY <1>12, <1>13, <2>2, <2>3, <3>1 DEF Leads
    <2> QED
      BY <2>4, <2>5
  <1>14. ASSUME RecordConnectionEvent(c) PROVE Next1
    <2>1. PICK t \in x.todo :
            call' = [call EXCEPT ![c].todo = @ \ {t},
                                 ![c].pc = IF x.todo = {t} THEN "ok" ELSE "recordEvent"]
      BY <1>14 DEF RecordConnectionEvent
    <2> DEFINE s == IF x.todo = {t} THEN "ok" ELSE "recordEvent"
    <2>2. call' = [call EXCEPT ![c].todo = x.todo \ {t}, ![c].pc = s]
      BY <2>1
    <2>3. x.todo \ {t} \in SUBSET Tenants
      BY <1>1 DEF CallRecord
    <2>4. s \in Pcs /\ Leads(x, s)
      BY <1>14 DEF RecordConnectionEvent, At, Leads
    <2> HIDE DEF s
    <2> QED
      BY <1>12, <1>14, <2>2, <2>3, <2>4
  <1>15. ASSUME RequireApprover(c) \/ ReadMembership(c) PROVE Next1
    BY <1>2, <1>4, <1>15 DEF RequireApprover, ReadMembership, At, Leads
  <1>16. ASSUME ListConfigs(c) PROVE Next1
    <2> DEFINE cfg == config[x.tenant][VersionOf(c)]
               own == [scope |-> cfg.scope, write |-> cfg.write]
               r == [x EXCEPT !.pc = "credential", !.config = own]
    <2>1. x.pc = "config"
      BY <1>16 DEF ListConfigs, At
    <2>2. CASE Refuse(c)
      BY <1>2, <2>2
    <2>3. CASE call' = [call EXCEPT ![c].pc = "credential", ![c].config = own]
      <3>1. call' = [call EXCEPT ![c] = r]
        BY <1>1, <2>3 DEF CallsTyped
      <3>2. x.tenant \in Tenants /\ VersionOf(c) \in Versions
        BY <1>1, <2>1 DEF Fits, VersionOf, CallRecord
      <3>3. cfg \in Config
        BY <3>2 DEF Typed, TypeOK
      <3>4. own \in [scope : {"none", "user", "tenant"}, write : BOOLEAN]
        BY <3>3 DEF Config
      <3>5. Leads(x, "credential")
        BY <2>1 DEF Leads
      <3> HIDE DEF own
      <3>6. r \in CallRecord
        BY <1>1, <3>4, ReadRecords
      <3>7. /\ r.pc = "credential" /\ Same(r, x)
            /\ r.seen = x.seen /\ r.tenants = x.tenants /\ r.todo = x.todo
            /\ r.intent = x.intent /\ r.adapter = x.adapter
        BY <1>1 DEF CallRecord, Same
      <3> QED
        BY <1>3, <1>16, <3>1, <3>5, <3>6, <3>7 DEF Follows
    <2> QED
      BY <1>16, <2>2, <2>3 DEF ListConfigs
  <1>17. ASSUME ResolveCredential(c) PROVE Next1
    <2> DEFINE key == CredentialFor(c)
               s == IF x.op = "read" THEN "ok" ELSE IF x.intent = "read" THEN "propose"
                    ELSE "write"
               a == [kind |-> x.config.scope, key |-> key,
                     write |-> x.intent = "write" /\ x.config.write]
               r == [x EXCEPT !.pc = s, !.adapter = a]
    <2>1. x.pc = "credential"
      BY <1>17 DEF ResolveCredential, At
    <2>2. CASE Refuse(c)
      BY <1>2, <2>2
    <2>3. CASE call' = [call EXCEPT ![c].pc = s, ![c].adapter = a]
      <3>1. call' = [call EXCEPT ![c] = r]
        <4> HIDE DEF s, a
        <4> QED
          BY <1>1, <2>3 DEF CallsTyped
      <3>2. x.tenant \in Tenants /\ VersionOf(c) \in Versions /\ x.user \in Users
        BY <1>1, <2>1 DEF Fits, VersionOf, CallRecord
      <3>3. key \in Keys \cup {Null}
        BY <3>2 DEF Typed, TypeOK, CredentialFor, ConnectionOf
      <3>4. /\ x.config.scope \in {"none", "user", "tenant"}
            /\ (x.intent = "write" /\ x.config.write) \in BOOLEAN
        BY <1>1 DEF CallRecord
      <3>5. s \in Pcs /\ Leads(x, s)
        <4>1. x.op \in {"read", "apply"}
          BY <1>1, <2>1 DEF Fits
        <4>2. s = "ok" \/ (s \in {"propose", "write"} /\ x.op = "apply")
          <5>1. CASE x.op = "read"
            BY <5>1
          <5>2. CASE x.op = "apply" /\ x.intent = "read"
            BY <5>2
          <5>3. CASE x.op = "apply" /\ x.intent # "read"
            BY <5>3
          <5> QED
            BY <4>1, <5>1, <5>2, <5>3
        <4> QED
          BY <2>1, <4>2 DEF Leads
      <3> HIDE DEF key, s
      <3>6. a \in [kind : {"none", "public", "user", "tenant"}, key : Keys \cup {Null},
                   write : BOOLEAN]
        BY <3>3, <3>4
      <3> HIDE DEF a
      <3>7. r \in CallRecord
        BY <1>1, <3>5, <3>6, ReadRecords
      <3>8. /\ r.pc = s /\ Same(r, x)
            /\ r.seen = x.seen /\ r.tenants = x.tenants /\ r.todo = x.todo
            /\ r.intent = x.intent /\ r.config = x.config
        BY <1>1 DEF CallRecord, Same
      <3> QED
        BY <1>3, <1>17, <3>1, <3>5, <3>7, <3>8 DEF Follows
    <2> QED
      BY <1>17, <2>2, <2>3 DEF ResolveCredential
  <1>18. ASSUME RecordProposed(c) \/ WritePtv(c) \/ RecordApplied(c) \/ RecordFailed(c)
         PROVE  Next1
    BY <1>4, <1>18 DEF RecordProposed, WritePtv, RecordApplied, RecordFailed, At, Leads
  <1>19. ASSUME RecordValidated(c) PROVE Next1
    <2> DEFINE r == [x EXCEPT !.pc = "membership", !.intent = "write"]
    <2>1. x.pc = "validate"
      BY <1>19 DEF RecordValidated, At
    <2>2. CASE Refuse(c)
      BY <1>2, <2>2
    <2>3. CASE call' = [call EXCEPT ![c].pc = "membership", ![c].intent = "write"]
      <3>1. call' = [call EXCEPT ![c] = r]
        BY <1>1, <2>3 DEF CallsTyped
      <3>2. Leads(x, "membership")
        BY <2>1 DEF Leads
      <3>3. r \in CallRecord
        BY <1>1, ReadRecords
      <3>4. /\ r.pc = "membership" /\ Same(r, x)
            /\ r.seen = x.seen /\ r.tenants = x.tenants /\ r.todo = x.todo
            /\ r.config = x.config /\ r.adapter = x.adapter
        BY <1>1 DEF CallRecord, Same
      <3> QED
        BY <1>3, <1>19, <3>1, <3>2, <3>3, <3>4 DEF Follows
    <2> QED
      BY <1>19, <2>2, <2>3 DEF RecordValidated
  <1> HIDE DEF Next1
  <1>20. Next1
    BY <1>5, <1>6, <1>7, <1>8, <1>9, <1>10, <1>11, <1>13, <1>14, <1>15, <1>16, <1>17,
       <1>18, <1>19 DEF RegistryStep, ConnectionStep, Starts
  <1> QED
    BY <1>20 DEF Next1

\* A step of one request: its record changes as its operation says, the
\* others keep theirs.
LEMMA OneRecordChanges ==
  ASSUME Typed, NEW c \in Calls, RegistryStep(c)
  PROVE  /\ CallsTyped'
         /\ \A d \in Calls : d # c => call'[d] = call[d]
         /\ call'[c] \in CallRecord /\ Fits(call'[c])
         /\ \/ Starts(c) /\ Fresh(call'[c]) /\ At(c, "idle")
            \/ ~Starts(c) /\ Follows(c, call'[c])
            \/ ~Starts(c) /\ call'[c] = Refused
            \/ Cut(c) /\ call'[c] = CutOff
         /\ Cut(c) => call'[c] = CutOff
  <1>1. Cut(c) => call'[c] = CutOff
    BY DEF Cut, CutOff, Typed, CallsTyped
  <1>2. CASE Starts(c)
    <2>1. PICK r \in CallRecord :
            Fits(r) /\ Fresh(r) /\ call' = [call EXCEPT ![c] = r] /\ At(c, "idle")
      BY <1>2, StartsTyped
    <2> QED
      BY <1>2, <1>1, <2>1, Becomes DEF Typed
  <1>3. CASE ~Starts(c)
    <2>1. PICK r \in CallRecord :
            /\ Fits(r) /\ call' = [call EXCEPT ![c] = r]
            /\ Follows(c, r) \/ r = Refused \/ (r = CutOff /\ Cut(c))
      BY <1>3, StepsTyped
    <2> QED
      BY <1>3, <1>1, <2>1, Becomes DEF Typed
  <1> QED
    BY <1>2, <1>3

\* What a request that is not cut off does at each of its steps.
LEMMA ActsAt ==
  ASSUME NEW c \in Calls, RegistryStep(c), ~Cut(c)
  PROVE  /\ At(c, "idle") => Starts(c)
         /\ At(c, "insertTenant") => CreateTenant(c)
         /\ At(c, "setRole") => SetRole(c)
         /\ At(c, "readBefore") => ReadBefore(c)
         /\ At(c, "setFourEyes") => SetFourEyes(c)
         /\ At(c, "recordChange") => RecordChange(c)
         /\ At(c, "readPrevious") => ReadPrevious(c)
         /\ At(c, "storeCredentials") => StoreCredentials(c)
         /\ At(c, "upsertConfig") => UpsertConfig(c)
         /\ At(c, "storeConnection") => StoreConnection(c)
         /\ At(c, "listTenants") => ListTenants(c)
         /\ At(c, "readDefaults") => EnsureV11ReadDefaults(c) \/ ReadDefaultsFail(c)
         /\ At(c, "recordEvent") => RecordConnectionEvent(c)
         /\ At(c, "revokeToken") => RevokeToken(c)
         /\ At(c, "revokeConnection") => RevokeConnection(c)
         /\ At(c, "approver") => RequireApprover(c)
         /\ At(c, "membership") => ReadMembership(c)
         /\ At(c, "config") => ListConfigs(c)
         /\ At(c, "credential") => ResolveCredential(c)
         /\ At(c, "propose") => RecordProposed(c)
         /\ At(c, "validate") => RecordValidated(c)
         /\ At(c, "write") => WritePtv(c)
         /\ At(c, "recordApplied") => RecordApplied(c)
         /\ At(c, "recordFailed") => RecordFailed(c)
         /\ call[c].pc \notin Ended
  <1>1. Starts(c) => call[c].pc = "idle"
    BY DEF Starts, StartCreateTenant, StartMemberChange, StartUpdateSettings, StartSaveKey,
       StartConnect, StartDisconnect, StartRead, StartApply, RequireRole, Begin, At
  <1>2. /\ CreateTenant(c) => call[c].pc = "insertTenant"
        /\ SetRole(c) => call[c].pc = "setRole"
        /\ ReadBefore(c) => call[c].pc = "readBefore"
        /\ SetFourEyes(c) => call[c].pc = "setFourEyes"
        /\ RecordChange(c) => call[c].pc = "recordChange"
        /\ ReadPrevious(c) => call[c].pc = "readPrevious"
        /\ StoreCredentials(c) => call[c].pc = "storeCredentials"
        /\ UpsertConfig(c) => call[c].pc = "upsertConfig"
        /\ StoreConnection(c) => call[c].pc = "storeConnection"
        /\ ListTenants(c) => call[c].pc = "listTenants"
        /\ EnsureV11ReadDefaults(c) \/ ReadDefaultsFail(c) => call[c].pc = "readDefaults"
        /\ RecordConnectionEvent(c) => call[c].pc = "recordEvent"
        /\ RevokeToken(c) => call[c].pc = "revokeToken"
        /\ RevokeConnection(c) => call[c].pc = "revokeConnection"
    BY DEF At, CreateTenant, SetRole, ReadBefore, SetFourEyes, RecordChange, ReadPrevious,
       StoreCredentials, UpsertConfig, StoreConnection, ListTenants, EnsureV11ReadDefaults,
       ReadDefaultsFail, RecordConnectionEvent, RevokeToken, RevokeConnection
  <1>3. /\ RequireApprover(c) => call[c].pc = "approver"
        /\ ReadMembership(c) => call[c].pc = "membership"
        /\ ListConfigs(c) => call[c].pc = "config"
        /\ ResolveCredential(c) => call[c].pc = "credential"
        /\ RecordProposed(c) => call[c].pc = "propose"
        /\ RecordValidated(c) => call[c].pc = "validate"
        /\ WritePtv(c) => call[c].pc = "write"
        /\ RecordApplied(c) => call[c].pc = "recordApplied"
        /\ RecordFailed(c) => call[c].pc = "recordFailed"
    BY DEF At, RequireApprover, ReadMembership, ListConfigs, ResolveCredential,
       RecordProposed, RecordValidated, WritePtv, RecordApplied, RecordFailed
  <1>4. \/ Starts(c) \/ CreateTenant(c) \/ SetRole(c) \/ ReadBefore(c) \/ SetFourEyes(c)
        \/ RecordChange(c) \/ ReadPrevious(c) \/ StoreCredentials(c) \/ UpsertConfig(c)
        \/ StoreConnection(c) \/ ListTenants(c) \/ EnsureV11ReadDefaults(c)
        \/ ReadDefaultsFail(c) \/ RecordConnectionEvent(c) \/ RevokeToken(c)
        \/ RevokeConnection(c) \/ RequireApprover(c) \/ ReadMembership(c) \/ ListConfigs(c)
        \/ ResolveCredential(c) \/ RecordProposed(c) \/ RecordValidated(c) \/ WritePtv(c)
        \/ RecordApplied(c) \/ RecordFailed(c)
    BY DEF RegistryStep, ConnectionStep, TenantStep, Starts
  <1> QED
    BY <1>1, <1>2, <1>3, <1>4 DEF At, Ended

\* A step that records appends one entry.
LEMMA RecordsTyped ==
  ASSUME Typed, NEW c \in Calls, Records(c)
  PROVE  \E e \in Entries : audit' = Append(audit, e)
  <1> DEFINE x == call[c]
  <1> USE DEF MemberOps, SettingsSteps, KeySteps, ApplySteps, ResolveSteps, ConnectSteps,
              DisconnectSteps, TenantSteps, Ops, Ended
  <1>1. x \in CallRecord /\ Fits(x)
    BY DEF Typed, CallsTyped
  <1>2. CASE RecordChange(c)
    <2>1. x.pc = "recordChange"
      BY <1>2 DEF RecordChange, At
    <2>2. /\ x.tenant \in Tenants /\ x.user \in Users /\ x.op \in Ops
          /\ x.target \in Users \cup {Null} /\ x.role \in Roles /\ x.seen \in BOOLEAN
          /\ x.flag \in BOOLEAN /\ x.version \in Versions \cup {Null}
      BY <1>1, <2>1 DEF Fits, CallRecord
    <2> DEFINE e == [action |-> x.op, tenant |-> x.tenant, by |-> x.user, on |-> x.target,
                     role |-> x.role, before |-> x.seen, after |-> x.flag,
                     version |-> x.version]
    <2>3. e \in Entries
      BY <2>2 DEF Entries
    <2>4. audit' = Append(audit, e)
      BY <1>2 DEF RecordChange, Record
    <2> QED
      BY <2>3, <2>4
  <1>3. CASE RecordConnectionEvent(c)
    <2>1. PICK t \in x.todo :
            audit' = Append(audit, [action |-> x.op, tenant |-> t, by |-> x.user,
                       on |-> Null, role |-> "none", before |-> FALSE, after |-> FALSE,
                       version |-> "v11"])
      BY <1>3 DEF RecordConnectionEvent, Record
    <2>2. x.pc = "recordEvent"
      BY <1>3 DEF RecordConnectionEvent, At
    <2>3. t \in Tenants /\ x.user \in Users /\ x.op \in Ops
      BY <1>1, <2>2 DEF Fits, CallRecord
    <2>4. [action |-> x.op, tenant |-> t, by |-> x.user, on |-> Null, role |-> "none",
           before |-> FALSE, after |-> FALSE, version |-> "v11"] \in Entries
      BY <2>3, RolesAre DEF Entries, Versions
    <2> QED
      BY <2>1, <2>4
  <1>4. ASSUME NEW a \in {"propose", "validate", "applied", "failed"},
               Record(Entry(c, a)), x.pc \in ApplySteps
        PROVE  \E e \in Entries : audit' = Append(audit, e)
    <2>1. x.tenant \in Tenants /\ x.user \in Users /\ VersionOf(c) \in Versions \cup {Null}
      BY <1>1, <1>4 DEF Fits, CallRecord, VersionOf
    <2>2. Entry(c, a) \in Entries
      BY <2>1, RolesAre DEF Entry, Entries
    <2> QED
      BY <1>4, <2>2 DEF Record
  <1>5. CASE RecordProposed(c) \/ RecordValidated(c) \/ RecordApplied(c) \/ RecordFailed(c)
    BY <1>4, <1>5 DEF RecordProposed, RecordValidated, RecordApplied, RecordFailed, At
  <1> QED
    BY <1>2, <1>3, <1>5 DEF Records

\* A table of tables, with one entry replaced.
LEMMA NestedExcept ==
  ASSUME NEW A, NEW B, NEW C, NEW f \in [A -> [B -> C]], NEW a \in A, NEW b \in B,
         NEW v \in C, NEW g, g = [f EXCEPT ![a][b] = v]
  PROVE  /\ g \in [A -> [B -> C]]
         /\ g[a][b] = v
         /\ \A x \in A, y \in B : x # a \/ y # b => g[x][y] = f[x][y]
  OBVIOUS

\* What a request at each of these steps has named.
LEMMA Named ==
  ASSUME CallsTyped, NEW c \in Calls
  PROVE  /\ At(c, "insertTenant") \/ At(c, "setRole") \/ At(c, "setFourEyes")
              \/ At(c, "storeCredentials") \/ At(c, "upsertConfig")
            => call[c].tenant \in Tenants
         /\ At(c, "insertTenant") \/ At(c, "storeConnection") \/ At(c, "revokeConnection")
            => call[c].user \in Users
         /\ At(c, "setRole") => call[c].target \in Users
         /\ At(c, "revokeToken") => call[c].key \in Keys
  BY DEF CallsTyped, CallRecord, Fits, At, Ended, TenantSteps, SettingsSteps, KeySteps

LEMMA StepTyped ==
  ASSUME Typed, NEW c \in Calls, RegistryStep(c)
  PROVE  Typed'
  <1> DEFINE x == call[c]
  <1>1. x \in CallRecord /\ CallsTyped
    BY DEF Typed, CallsTyped
  <1>2. CallsTyped'
    BY OneRecordChanges
  <1>3. tenant' \in [Tenants -> [exists : BOOLEAN, fourEyes : BOOLEAN]]
    <2>1. CASE UNCHANGED tenant
      BY <2>1 DEF Typed, TypeOK
    <2>2. CASE CreateTenant(c)
      <3>1. \/ UNCHANGED tenant
            \/ tenant' = [tenant EXCEPT ![x.tenant] = NewTenant]
        BY <2>2 DEF CreateTenant
      <3>2. NewTenant \in [exists : BOOLEAN, fourEyes : BOOLEAN]
        BY DEF NewTenant
      <3>3. tenant \in [Tenants -> [exists : BOOLEAN, fourEyes : BOOLEAN]]
        BY DEF Typed, TypeOK
      <3> QED
        BY <3>1, <3>2, <3>3
    <2>3. CASE SetFourEyes(c)
      <3>1. x.flag \in BOOLEAN
        BY <1>1 DEF CallRecord
      <3>2. tenant' = [tenant EXCEPT ![x.tenant].fourEyes = x.flag]
        BY <2>3 DEF SetFourEyes
      <3>3. tenant \in [Tenants -> [exists : BOOLEAN, fourEyes : BOOLEAN]]
        BY DEF Typed, TypeOK
      <3>4. x.tenant \in Tenants
        BY <1>1, <2>3, Named DEF SetFourEyes
      <3> HIDE DEF x
      <3> QED
        BY <3>1, <3>2, <3>3, <3>4
    <2> QED
      BY <2>1, <2>2, <2>3, Footprint
  <1>4. membership' \in [Tenants -> [Users -> Roles]]
    <2>1. CASE UNCHANGED membership
      BY <2>1 DEF Typed, TypeOK
    <2>2. CASE CreateTenant(c)
      <3>1. CASE UNCHANGED membership
        BY <3>1 DEF Typed, TypeOK
      <3>2. x.tenant \in Tenants /\ x.user \in Users
        BY <1>1, <2>2, Named DEF CreateTenant
      <3>3. membership \in [Tenants -> [Users -> Roles]] /\ "tenant_admin" \in Roles
        BY RolesAre DEF Typed, TypeOK
      <3>4. CASE membership' = [membership EXCEPT ![x.tenant][x.user] = "tenant_admin"]
        <4> HIDE DEF x
        <4> QED
          BY <3>2, <3>3, <3>4, NestedExcept
      <3> QED
        BY <2>2, <3>1, <3>4 DEF CreateTenant
    <2>3. CASE SetRole(c)
      <3>1. x.role \in Roles
        BY <1>1 DEF CallRecord
      <3>2. CASE UNCHANGED membership
        BY <3>2 DEF Typed, TypeOK
      <3>3. membership \in [Tenants -> [Users -> Roles]]
        BY DEF Typed, TypeOK
      <3>4. x.tenant \in Tenants /\ x.target \in Users
        BY <1>1, <2>3, Named DEF SetRole
      <3>5. CASE membership' = [membership EXCEPT ![x.tenant][x.target] = x.role]
        <4> HIDE DEF x
        <4> QED
          BY <3>1, <3>3, <3>4, <3>5, NestedExcept
      <3> QED
        BY <2>3, <3>2, <3>5 DEF SetRole
    <2> QED
      BY <2>1, <2>2, <2>3, Footprint
  <1>5. config' \in [Tenants -> [Versions -> Config]]
    <2>1. CASE UNCHANGED config
      BY <2>1 DEF Typed, TypeOK
    <2>2. CASE UpsertConfig(c)
      <3>1. SavedConfig["v11"] \in Config /\ SavedConfig["v12"] \in Config
        BY DEF Config, SavedConfig
      <3>2. x.version \in Versions /\ SavedConfig[x.version] \in Config
        BY <1>1, <3>1 DEF CallRecord, Versions
      <3>3. config' = [config EXCEPT ![x.tenant][x.version] = SavedConfig[x.version]]
        BY <2>2 DEF UpsertConfig
      <3>4. config \in [Tenants -> [Versions -> Config]]
        BY DEF Typed, TypeOK
      <3>5. x.tenant \in Tenants
        BY <1>1, <2>2, Named DEF UpsertConfig
      <3> HIDE DEF x
      <3> QED
        BY <3>2, <3>3, <3>4, <3>5, NestedExcept
    <2>3. CASE EnsureV11ReadDefaults(c)
      <3>1. \A cfg \in Config : WithReadDefaults(cfg) \in Config
        BY DEF WithReadDefaults, DefaultConfig, Config
      <3>2. PICK t \in x.todo :
              config' = [config EXCEPT ![t]["v11"] = WithReadDefaults(config[t]["v11"])]
        BY <2>3 DEF EnsureV11ReadDefaults
      <3>3. t \in Tenants /\ "v11" \in Versions
        BY <1>1 DEF CallRecord, Versions
      <3>4. config \in [Tenants -> [Versions -> Config]]
        BY DEF Typed, TypeOK
      <3>5. WithReadDefaults(config[t]["v11"]) \in Config
        BY <3>1, <3>3, <3>4
      <3> QED
        BY <3>2, <3>3, <3>4, <3>5, NestedExcept
    <2> QED
      BY <2>1, <2>2, <2>3, Footprint
  <1>6. credential' \in [Tenants -> [Versions -> Keys \cup {Null}]]
    <2>1. CASE UNCHANGED credential
      BY <2>1 DEF Typed, TypeOK
    <2>2. CASE StoreCredentials(c)
      <3>1. credential' = [credential EXCEPT ![x.tenant][x.version] = c]
        BY <2>2 DEF StoreCredentials
      <3>2. x.tenant \in Tenants /\ x.version \in Versions /\ c \in Keys \cup {Null}
        BY <1>1, <2>2, Named DEF StoreCredentials, CallRecord, Keys
      <3>3. credential \in [Tenants -> [Versions -> Keys \cup {Null}]]
        BY DEF Typed, TypeOK
      <3> HIDE DEF x
      <3> QED
        BY <3>1, <3>2, <3>3, NestedExcept
    <2> QED
      BY <2>1, <2>2, Footprint
  <1>7. connection' \in [Users -> [token : Keys \cup {Null}, live : BOOLEAN]]
    <2>1. connection \in [Users -> [token : Keys \cup {Null}, live : BOOLEAN]]
      BY DEF Typed, TypeOK
    <2>2. CASE UNCHANGED connection
      BY <2>1, <2>2
    <2>3. CASE StoreConnection(c) \/ RevokeConnection(c)
      <3>1. x.user \in Users /\ c \in Keys \cup {Null}
        BY <1>1, <2>3, Named DEF StoreConnection, RevokeConnection, Keys
      <3>2. CASE connection' = [connection EXCEPT ![x.user] = [token |-> c, live |-> TRUE]]
        <4>1. [token |-> c, live |-> TRUE] \in [token : Keys \cup {Null}, live : BOOLEAN]
          BY <3>1
        <4> HIDE DEF x
        <4> QED
          BY <2>1, <3>1, <3>2, <4>1
      <3>3. CASE connection' = [connection EXCEPT ![x.user].live = FALSE]
        <4> HIDE DEF x
        <4> QED
          BY <2>1, <3>1, <3>3
      <3> QED
        BY <2>3, <3>2, <3>3 DEF StoreConnection, RevokeConnection
    <2> QED
      BY <2>2, <2>3, Footprint
  <1>8. revoked' \subseteq Keys
    <2>1. CASE RevokeToken(c)
      <3>1. x.key \in Keys
        BY <1>1, <2>1, Named DEF RevokeToken
      <3> QED
        BY <2>1, <3>1 DEF Typed, TypeOK, RevokeToken
    <2> QED
      BY <2>1, Footprint DEF Typed, TypeOK
  <1>9. written' \subseteq Calls
    BY Footprint DEF Typed, TypeOK, WritePtv
  <1>10. cuts' \in 0 .. MaxCuts
    BY Footprint, TenantsAssumption DEF Typed, TypeOK, Cut, ReadDefaultsFail
  <1>11. crossed' \in BOOLEAN
    <2>1. Starts(c) => crossed' = (crossed \/ ~Quiet)
      BY DEF Starts, StartCreateTenant, StartMemberChange, StartUpdateSettings,
         StartSaveKey, StartConnect, StartDisconnect, StartRead, StartApply, RequireRole,
         Begin
    <2>2. (crossed \/ ~Quiet) \in BOOLEAN
      BY ZenonT(20)
    <2> QED
      BY <2>1, <2>2, Footprint DEF Typed, TypeOK
  <1>12. audit' \in Seq(Entries)
    BY RecordsTyped, Footprint DEF Typed
  <1> QED
    BY <1>2, <1>3, <1>4, <1>5, <1>6, <1>7, <1>8, <1>9, <1>10, <1>11, <1>12
    DEF Typed, TypeOK
-----------------------------------------------------------------------------
(* An API user stays.                                                       *)

\* A configuration that uses the tenant's credential, or is about to, has one;
\* only a v11 configuration that uses it writes.
Configured ==
  /\ \A t \in Tenants :
       /\ config[t]["v11"].scope = "tenant" => credential[t]["v11"] # Null
       /\ config[t]["v12"].exists => credential[t]["v12"] # Null
       /\ config[t]["v11"].write => config[t]["v11"].exists /\ config[t]["v11"].scope = "tenant"
       /\ ~config[t]["v12"].write
  /\ \A c \in Calls : At(c, "upsertConfig") => credential[call[c].tenant][call[c].version] # Null

LEMMA InitConfigured == Init => Configured
  <1> SUFFICES ASSUME Init PROVE Configured
    OBVIOUS
  <1>1. PICK had \in {"nothing", "defaults", "second", "keys"} :
          /\ config = [t \in Tenants |-> [v \in Versions |->
               CASE t = Home /\ had = "keys" -> SavedConfig[v]
                 [] t = Home /\ had \in {"defaults", "second"} /\ v = "v11" -> DefaultConfig
                 [] OTHER -> NoConfig]]
          /\ credential = [t \in Tenants |-> [v \in Versions |->
               IF t = Home /\ had = "keys" THEN Old ELSE Null]]
    BY DEF Init
  <1>2. Old # Null
    BY TenantsAssumption
  <1>3. \A c \in Calls : ~At(c, "upsertConfig")
    BY DEF Init, At, Idle
  <1>4. ASSUME NEW t \in Tenants
        PROVE  /\ config[t]["v11"] \in {SavedConfig["v11"], DefaultConfig, NoConfig}
               /\ config[t]["v12"] \in {SavedConfig["v12"], NoConfig}
               /\ config[t]["v11"] = SavedConfig["v11"] => credential[t]["v11"] # Null
               /\ config[t]["v12"] = SavedConfig["v12"] => credential[t]["v12"] # Null
    <2>1. CASE t = Home /\ had = "keys"
      BY <1>1, <1>2, <2>1 DEF Versions
    <2>2. CASE t = Home /\ had \in {"defaults", "second"}
      BY <1>1, <2>2 DEF Versions, SavedConfig, DefaultConfig, NoConfig
    <2>3. CASE ~(t = Home /\ had = "keys") /\ ~(t = Home /\ had \in {"defaults", "second"})
      BY <1>1, <2>3 DEF Versions, SavedConfig, NoConfig
    <2> QED
      BY <2>1, <2>2, <2>3
  <1>5. /\ SavedConfig["v11"].exists /\ SavedConfig["v11"].scope = "tenant"
        /\ ~SavedConfig["v12"].write
        /\ DefaultConfig.scope = "user" /\ ~DefaultConfig.write
        /\ NoConfig.scope = "none" /\ ~NoConfig.write /\ ~NoConfig.exists
    BY DEF SavedConfig, DefaultConfig, NoConfig
  <1>6. ASSUME NEW t \in Tenants
        PROVE  /\ config[t]["v11"].scope = "tenant" => credential[t]["v11"] # Null
               /\ config[t]["v12"].exists => credential[t]["v12"] # Null
               /\ config[t]["v11"].write
                    => config[t]["v11"].exists /\ config[t]["v11"].scope = "tenant"
               /\ ~config[t]["v12"].write
    BY <1>4, <1>5
  <1> QED
    BY <1>3, <1>6 DEF Configured

\* Credentials are replaced, never taken away.
LEMMA CredentialsStay ==
  ASSUME Typed, NEW c \in Calls, RegistryStep(c), NEW t \in Tenants, NEW v \in Versions,
         credential[t][v] # Null
  PROVE  credential'[t][v] # Null
  <1>1. CASE UNCHANGED credential
    BY <1>1
  <1>2. CASE StoreCredentials(c)
    <2>1. credential' = [credential EXCEPT ![call[c].tenant][call[c].version] = c]
      BY <1>2 DEF StoreCredentials
    <2>2. /\ call[c].tenant \in Tenants /\ call[c].version \in Versions
          /\ c \in Keys \cup {Null} /\ c # Null
      BY <1>2, Named, TenantsAssumption DEF StoreCredentials, Typed, CallsTyped, CallRecord, Keys
    <2>3. credential \in [Tenants -> [Versions -> Keys \cup {Null}]]
      BY DEF Typed, TypeOK
    <2> QED
      BY <2>1, <2>2, <2>3, NestedExcept
  <1> QED
    BY <1>1, <1>2, Footprint

LEMMA StepConfigured ==
  ASSUME Typed, Configured, NEW c \in Calls, RegistryStep(c)
  PROVE  Configured' /\ WritingStaysOn
  <1> DEFINE x == call[c]
  <1>1. CallsTyped /\ x \in CallRecord /\ config \in [Tenants -> [Versions -> Config]]
    BY DEF Typed, TypeOK, CallsTyped
  <1>2. ASSUME NEW t \in Tenants
        PROVE  /\ config[t]["v11"].scope = "tenant" => credential'[t]["v11"] # Null
               /\ config[t]["v12"].exists => credential'[t]["v12"] # Null
    BY CredentialsStay DEF Configured, Versions
  <1>3. ASSUME NEW t \in Tenants
        PROVE  /\ config'[t]["v11"].scope = "tenant" => credential'[t]["v11"] # Null
               /\ config'[t]["v12"].exists => credential'[t]["v12"] # Null
               /\ config'[t]["v11"].write => config'[t]["v11"].exists /\ config'[t]["v11"].scope = "tenant"
               /\ ~config'[t]["v12"].write
               /\ config[t]["v11"].write
                    => config'[t]["v11"].write /\ config'[t]["v11"].scope = config[t]["v11"].scope
    <2>1. CASE UNCHANGED config
      BY <1>2, <2>1 DEF Configured
    <2>2. CASE UpsertConfig(c)
      <3>0. SavedConfig["v11"] \in Config /\ SavedConfig["v12"] \in Config
        BY DEF Config, SavedConfig
      <3>1. /\ x.tenant \in Tenants /\ x.version \in Versions
            /\ SavedConfig[x.version] \in Config
        BY <1>1, <2>2, <3>0, Named DEF UpsertConfig, CallRecord, Versions
      <3>2. credential'[x.tenant][x.version] # Null
        BY <2>2, <3>1, CredentialsStay DEF UpsertConfig, Configured
      <3>3. config' = [config EXCEPT ![x.tenant][x.version] = SavedConfig[x.version]]
        BY <2>2 DEF UpsertConfig
      <3>4. /\ config'[x.tenant][x.version] = SavedConfig[x.version]
            /\ \A s \in Tenants, v \in Versions :
                 s # x.tenant \/ v # x.version => config'[s][v] = config[s][v]
        <4> HIDE DEF x
        <4> QED
          BY <1>1, <3>1, <3>3, NestedExcept
      <3>5. CASE t = x.tenant /\ x.version = "v11"
        BY <1>2, <3>2, <3>4, <3>5 DEF Configured, SavedConfig, Versions
      <3>6. CASE t = x.tenant /\ x.version = "v12"
        BY <1>2, <3>2, <3>4, <3>6 DEF Configured, SavedConfig, Versions
      <3>7. CASE t # x.tenant
        BY <1>2, <3>4, <3>7 DEF Configured, Versions
      <3> QED
        BY <3>1, <3>5, <3>6, <3>7 DEF Versions
    <2>3. CASE EnsureV11ReadDefaults(c)
      <3>1. PICK s \in x.todo :
              config' = [config EXCEPT ![s]["v11"] = WithReadDefaults(config[s]["v11"])]
        BY <2>3 DEF EnsureV11ReadDefaults
      <3>2. s \in Tenants /\ "v11" \in Versions /\ "v12" \in Versions
        BY <1>1 DEF CallRecord, Versions
      <3>3. WithReadDefaults(config[s]["v11"]) \in Config
        <4>1. \A cfg \in Config : WithReadDefaults(cfg) \in Config
          BY DEF WithReadDefaults, DefaultConfig, Config
        <4> QED
          BY <1>1, <3>2, <4>1
      <3>4. /\ config'[s]["v11"] = WithReadDefaults(config[s]["v11"])
            /\ \A r \in Tenants, v \in Versions :
                 r # s \/ v # "v11" => config'[r][v] = config[r][v]
        BY <1>1, <3>1, <3>2, <3>3, NestedExcept
      <3>5. CASE t = s
        <4>1. config[t]["v11"] \in Config
          BY <1>1, <3>2
        <4> QED
          BY <1>2, <3>2, <3>4, <3>5, <4>1 DEF Configured, WithReadDefaults, DefaultConfig, Config
      <3>6. CASE t # s
        BY <1>2, <3>2, <3>4, <3>6 DEF Configured
      <3> QED
        BY <3>5, <3>6
    <2> QED
      BY <2>1, <2>2, <2>3, Footprint
  <1>4. ASSUME NEW d \in Calls, At(d, "upsertConfig")'
        PROVE  credential'[call'[d].tenant][call'[d].version] # Null
    <2>1. CASE d # c
      <3>1. call'[d] = call[d]
        BY <2>1, OneRecordChanges
      <3>2. call[d].tenant \in Tenants /\ call[d].version \in Versions
        BY <1>1, <1>4, <3>1, Named DEF At, CallsTyped, CallRecord
      <3> QED
        BY <1>4, <3>1, <3>2, CredentialsStay DEF Configured, At
    <2>2. CASE d = c
      <3>1. Follows(c, call'[c])
        BY <1>4, <2>2, OneRecordChanges DEF At, Fresh, Refused, CutOff, Idle
      <3>2. At(c, "storeCredentials") /\ call'[c].tenant = x.tenant /\ call'[c].version = x.version
        BY <1>4, <2>2, <3>1 DEF Follows, Leads, Same, At
      <3>3. StoreCredentials(c)
        BY <1>4, <2>2, <3>2, ActsAt, OneRecordChanges DEF At, CutOff, Idle
      <3>4. credential' = [credential EXCEPT ![x.tenant][x.version] = c]
        BY <3>3 DEF StoreCredentials
      <3>5. /\ x.tenant \in Tenants /\ x.version \in Versions
            /\ c \in Keys \cup {Null} /\ c # Null
        BY <1>1, <3>2, Named, TenantsAssumption DEF CallRecord, Keys
      <3>6. credential \in [Tenants -> [Versions -> Keys \cup {Null}]]
        BY DEF Typed, TypeOK
      <3>7. credential'[x.tenant][x.version] = c
        <4> HIDE DEF x
        <4> QED
          BY <3>4, <3>5, <3>6, NestedExcept
      <3> QED
        BY <2>2, <3>2, <3>5, <3>7
    <2> QED
      BY <2>1, <2>2
  <1>5. Configured'
    BY <1>3, <1>4 DEF Configured
  <1>6. WritingStaysOn
    BY <1>3 DEF WritingStaysOn
  <1> QED
    BY <1>5, <1>6

\* Every state has the types TypeOK states, and requests with what their step
\* needs: at any number of users, tenants and requests.
THEOREM TypeCorrect == Spec => []Typed
  <1>1. Typed /\ [Next]_vars => Typed'
    <2> SUFFICES ASSUME Typed, [Next]_vars PROVE Typed'
      OBVIOUS
    <2>1. CASE UNCHANGED vars
      BY <2>1 DEF vars, tenantVars, connectionVars, Typed, TypeOK, CallsTyped
    <2>2. CASE Next
      BY <2>2, StepTyped DEF Next
    <2> QED
      BY <2>1, <2>2
  <1> QED
    BY <1>1, InitTyped, PTL DEF Spec

\* The API user of a tenant can be relied on (credentials/*.ts): whatever
\* requests cross or are cut off between the two saves, a configuration that
\* names the tenant's credential has one, and nothing takes writing back.
THEOREM ApiUsersStay == Spec => ApiUserStays
  <1>1. Typed /\ Configured /\ [Next]_vars
          => Configured' /\ ((ScopeHasCredential' /\ WritingStaysOn) \/ UNCHANGED <<config, credential>>)
    <2> SUFFICES ASSUME Typed, Configured, [Next]_vars
                 PROVE  /\ Configured'
                        /\ (ScopeHasCredential' /\ WritingStaysOn) \/ UNCHANGED <<config, credential>>
      OBVIOUS
    <2>1. CASE UNCHANGED vars
      BY <2>1 DEF vars, connectionVars, Configured, At
    <2>2. CASE Next
      <3>1. PICK c \in Calls : RegistryStep(c)
        BY <2>2 DEF Next
      <3>2. Configured' /\ WritingStaysOn
        BY <3>1, StepConfigured
      <3>3. ScopeHasCredential'
        BY <3>2 DEF Configured, ScopeHasCredential, ApiUsers
      <3> QED
        BY <3>2, <3>3
    <2> QED
      BY <2>1, <2>2
  <1> QED
    BY <1>1, InitConfigured, TypeCorrect, PTL DEF Spec, ApiUserStays

-----------------------------------------------------------------------------
(* Who is handed an adapter.                                                *)

\* What a request with record r may be relied on for, when a is what held at
\* some moment of it; and when its write reached PTV.
Entitled(r, a) ==
  /\ r.pc \in {"config", "credential"} => "member" \in a /\ (r.intent = "write" => "late" \in a)
  /\ r.op = "apply" /\ r.pc \notin Ended \cup {"idle"} => "twoEyes" \in a
  /\ r.pc = "credential" /\ r.intent = "write"
       => r.config.write /\ r.config.scope = "tenant" /\ r.write = "v11"
  /\ r.adapter.kind \in {"user", "tenant"} => "member" \in a
  /\ r.adapter.write => /\ {"late", "twoEyes"} \subseteq a
                        /\ r.adapter.kind = "tenant" /\ r.adapter.key # Null /\ r.write = "v11"
  /\ r.pc \in {"write", "recordApplied", "recordFailed"} => r.adapter.write

Wrote(r) ==
  /\ r.pc \in {"recordApplied", "recordFailed"} \cup Ended
  /\ r.adapter.write \/ r.pc = "cut"

AllEntitled ==
  \A c \in Calls : Entitled(call[c], authority[c]) /\ (c \in written => Wrote(call[c]))

LEMMA EntitledMore ==
  ASSUME NEW r, NEW a, NEW b, Entitled(r, a), a \subseteq b
  PROVE  Entitled(r, b)
  BY DEF Entitled

LEMMA InitEntitled == Init => AllEntitled
  <1> SUFFICES ASSUME Init, NEW c \in Calls
               PROVE  Entitled(call[c], authority[c]) /\ c \notin written
    BY DEF AllEntitled
  <1>1. call[c] = Idle /\ c \notin written
    BY DEF Init
  <1> QED
    BY <1>1 DEF Entitled, Idle, Ended

\* What is noted of a request under way stays noted.
LEMMA Noted ==
  ASSUME Notes, NEW c \in Calls
  PROVE  /\ authority[c] \subseteq authority'[c]
         /\ call'[c].pc \notin Ended \cup {"idle"} => Facts(c)' \subseteq authority'[c]
  BY DEF Notes, Under

LEMMA FactsAre ==
  ASSUME NEW c \in Calls, call'[c].tenant # Null
  PROVE  /\ AtLeast(membership'[call'[c].tenant][call'[c].user], "viewer") => "member" \in Facts(c)'
         /\ call'[c].intent = "write"
              /\ AtLeast(membership'[call'[c].tenant][call'[c].user], "publisher")
            => "late" \in Facts(c)'
         /\ ~tenant'[call'[c].tenant].fourEyes => "twoEyes" \in Facts(c)'
  <1>1. AtLeast(membership'[call'[c].tenant][call'[c].user], "viewer") => "member" \in Facts(c)'
    BY DEF Facts
  <1>2. call'[c].intent = "write" /\ AtLeast(membership'[call'[c].tenant][call'[c].user], "publisher")
          => "late" \in Facts(c)'
    BY DEF Facts
  <1>3. ~tenant'[call'[c].tenant].fourEyes => "twoEyes" \in Facts(c)'
    BY DEF Facts
  <1> QED
    BY <1>1, <1>2, <1>3

LEMMA StepEntitled ==
  ASSUME Typed, Configured, AllEntitled, NEW c \in Calls, RegistryStep(c), Notes
  PROVE  AllEntitled'
  <1> DEFINE x == call[c]
             y == call'[c]
             a == authority[c]
             b == authority'[c]
  <1>1. /\ CallsTyped /\ x \in CallRecord /\ Fits(x) /\ y \in CallRecord /\ Fits(y)
        /\ Entitled(x, a) /\ (c \in written => Wrote(x))
    BY OneRecordChanges DEF Typed, CallsTyped, AllEntitled
  <1>2. a \subseteq b
    BY Noted
  <1>3. ASSUME NEW d \in Calls, d # c
        PROVE  Entitled(call'[d], authority'[d]) /\ (d \in written' => Wrote(call'[d]))
    <2>1. /\ call'[d] = call[d] /\ authority[d] \subseteq authority'[d]
          /\ Entitled(call[d], authority[d]) /\ (d \in written => Wrote(call[d]))
      BY <1>3, OneRecordChanges, Noted DEF AllEntitled
    <2>2. d \in written' <=> d \in written
      BY <1>3, Footprint DEF WritePtv
    <2>3. Entitled(call[d], authority'[d])
      BY <2>1, EntitledMore
    <2> QED
      BY <2>1, <2>2, <2>3
  <1> SUFFICES Entitled(y, b) /\ (c \in written' => Wrote(y))
    BY <1>3 DEF AllEntitled
  <1>4. CASE Starts(c) /\ Fresh(y) /\ At(c, "idle")
    <2>1. c \notin written'
      BY <1>1, <1>4, Footprint DEF Wrote, At, Ended, WritePtv
    <2>2. y.op = "apply" /\ y.pc \notin Ended \cup {"idle"} => "twoEyes" \in b
      <3> SUFFICES ASSUME y.op = "apply", y.pc \notin Ended \cup {"idle"} PROVE "twoEyes" \in b
        OBVIOUS
      <3>1. UNCHANGED tenant
        BY <1>4, Footprint DEF At, CreateTenant, SetFourEyes
      <3>2. y.tenant \in Tenants /\ ~tenant'[y.tenant].fourEyes
        BY <1>4, <3>1 DEF Fresh
      <3>3. y.tenant # Null
        BY <3>2, TenantsAssumption
      <3> QED
        BY <3>2, <3>3, FactsAre, Noted
    <2>3. Entitled(y, b)
      BY <1>4, <2>2 DEF Entitled, Fresh
    <2> QED
      BY <2>1, <2>3
  <1>5. CASE y = CutOff
    <2>1. /\ y.pc = "cut" /\ y.op = "none" /\ ~y.adapter.write /\ y.adapter.kind = "none"
      BY <1>5 DEF CutOff, Idle
    <2> QED
      BY <2>1 DEF Entitled, Wrote, Ended
  <1>6. CASE ~Starts(c) /\ ~Cut(c) /\ y = Refused
    <2>1. c \notin written'
      <3>1. CASE x.pc \in {"write", "recordApplied", "recordFailed"}
        <4>1. x.adapter.write
          BY <1>1, <3>1 DEF Entitled
        <4>2. PICK s \in {"recordApplied", "recordFailed", "ok", "refused"} : Goto(c, s)
          BY <1>6, <3>1, ActsAt DEF At, WritePtv, RecordApplied, RecordFailed
        <4>3. y.adapter = x.adapter
          BY <1>1, <4>2, GotoBecomes DEF Pcs, TenantSteps, ApplySteps
        <4> QED
          BY <1>6, <4>1, <4>3 DEF Refused, Idle
      <3>2. CASE x.pc \notin {"write", "recordApplied", "recordFailed"}
        <4>1. x.pc \notin Ended
          BY <1>6, ActsAt
        <4> QED
          BY <1>1, <3>2, <4>1, Footprint DEF Wrote, WritePtv, At
      <3> QED
        BY <3>1, <3>2
    <2>2. /\ y.pc = "refused" /\ y.op = "none" /\ ~y.adapter.write /\ y.adapter.kind = "none"
      BY <1>6 DEF Refused, Idle
    <2>3. Entitled(y, b)
      BY <2>2 DEF Entitled
    <2> QED
      BY <2>1, <2>3
  <1>7. CASE ~Starts(c) /\ ~Cut(c) /\ Follows(c, y)
    <2>1. /\ y.op = x.op /\ y.user = x.user /\ y.tenant = x.tenant /\ y.write = x.write
          /\ Leads(x, y.pc)
      BY <1>7 DEF Follows, Same
    <2>2. x.pc \notin Ended \cup {"idle"}
      BY <1>7, ActsAt DEF At
    <2>3. y.pc \in {"config", "credential"}
            => "member" \in b /\ (y.intent = "write" => "late" \in b)
      <3>1. CASE y.pc = "config"
        <4>1. x.pc = "membership"
          BY <2>1, <3>1 DEF Leads
        <4>2. ReadMembership(c) /\ ~Refuse(c)
          BY <1>7, <3>1, <4>1, ActsAt, IdleTyped, Becomes DEF At, Refuse, Refused, Idle, Typed
        <4>3. /\ AtLeast(membership[x.tenant][x.user], MinRole(x.intent))
              /\ UNCHANGED membership
          BY <4>2 DEF ReadMembership, tenantVars
        <4>4. y.intent = x.intent
          BY <1>7, <4>1 DEF Follows, RecordValidated, At
        <4>5. x.tenant \in Tenants /\ x.user \in Users /\ x.tenant # Null
          BY <1>1, <4>1, TenantsAssumption DEF Fits, TenantSteps, ResolveSteps, Ended
        <4>6. membership[x.tenant][x.user] \in Roles
          BY <4>5 DEF Typed, TypeOK
        <4>7. AtLeast(membership[x.tenant][x.user], "viewer")
          BY <4>3, <4>6, RoleOrder DEF MinRole
        <4>8. y.intent = "write" => AtLeast(membership[x.tenant][x.user], "publisher")
          BY <4>3, <4>4 DEF MinRole
        <4> QED
          BY <2>1, <3>1, <4>3, <4>5, <4>7, <4>8, FactsAre, Noted DEF Ended
      <3>2. CASE y.pc = "credential"
        <4>1. x.pc = "config"
          BY <2>1, <3>2 DEF Leads
        <4>2. y.intent = x.intent
          BY <1>7, <4>1 DEF Follows, RecordValidated, At
        <4> QED
          BY <1>1, <1>2, <4>1, <4>2 DEF Entitled
      <3> QED
        BY <3>1, <3>2
    <2>4. y.op = "apply" => "twoEyes" \in b
      BY <1>1, <1>2, <2>1, <2>2 DEF Entitled
    <2>5. y.pc = "credential" /\ y.intent = "write"
            => y.config.write /\ y.config.scope = "tenant" /\ y.write = "v11"
      <3> SUFFICES ASSUME y.pc = "credential", y.intent = "write"
                   PROVE  y.config.write /\ y.config.scope = "tenant" /\ y.write = "v11"
        OBVIOUS
      <3>1. x.pc = "config"
        BY <2>1 DEF Leads
      <3>2. x.intent = "write"
        BY <1>7, <3>1 DEF Follows, RecordValidated, At
      <3>3. ListConfigs(c) /\ ~Refuse(c)
        BY <1>7, <3>1, ActsAt, IdleTyped, Becomes DEF At, Refuse, Refused, Idle, Typed
      <3>4. x.op = "apply" /\ x.write \in Versions /\ x.tenant \in Tenants /\ VersionOf(c) = x.write
        BY <1>1, <3>1, <3>2 DEF Fits, VersionOf, TenantSteps, ResolveSteps
      <3> DEFINE cfg == config[x.tenant][x.write]
                 own == [scope |-> cfg.scope, write |-> cfg.write]
      <3>5. /\ cfg.write
            /\ call' = [call EXCEPT ![c].pc = "credential", ![c].config = own]
        BY <3>2, <3>3, <3>4 DEF ListConfigs
      <3>6. x.write = "v11" /\ cfg.scope = "tenant"
        BY <3>4, <3>5 DEF Configured, Versions
      <3>7. y.config = own
        <4> HIDE DEF own
        <4> QED
          BY <1>1, <3>5 DEF CallsTyped, CallRecord
      <3> QED
        BY <2>1, <3>5, <3>6, <3>7
    <2>6. /\ y.adapter.kind \in {"user", "tenant"} => "member" \in b
          /\ y.adapter.write => /\ {"late", "twoEyes"} \subseteq b
                                /\ y.adapter.kind = "tenant" /\ y.adapter.key # Null
                                /\ y.write = "v11"
          /\ y.pc = "write" => y.adapter.write
      <3>1. CASE y.adapter = x.adapter /\ x.pc # "credential"
        BY <1>1, <1>2, <2>1, <3>1 DEF Entitled, Leads
      <3>2. CASE x.pc = "credential"
        <4> DEFINE s == IF x.op = "read" THEN "ok" ELSE IF x.intent = "read" THEN "propose"
                        ELSE "write"
                   key == CredentialFor(c)
                   own == [kind |-> x.config.scope, key |-> key,
                           write |-> x.intent = "write" /\ x.config.write]
        <4>1. ResolveCredential(c) /\ ~Refuse(c)
          BY <1>7, <2>1, <3>2, ActsAt, IdleTyped, Becomes
          DEF At, Refuse, Refused, Idle, Typed, Leads
        <4>2. /\ Constructs(c, key)
              /\ call' = [call EXCEPT ![c].pc = s, ![c].adapter = own]
          BY <4>1 DEF ResolveCredential
        <4>3. y.adapter = own /\ y.pc = s
          <5> HIDE DEF own, s
          <5> QED
            BY <1>1, <4>2 DEF CallsTyped, CallRecord
        <4>4. own.write => x.intent = "write"
          OBVIOUS
        <4>5. x.intent = "write" => /\ key # Null /\ x.op = "apply" /\ {"late", "twoEyes"} \subseteq a
                                    /\ x.config.write /\ x.config.scope = "tenant"
                                    /\ x.write = "v11"
          BY <1>1, <2>2, <3>2, <4>2 DEF Entitled, Constructs, Fits
        <4>6. "member" \in a
          BY <1>1, <3>2 DEF Entitled
        <4>7. y.pc = "write" => x.intent = "write"
          BY <1>1, <4>3 DEF CallRecord
        <4>8. x.intent = "write" => own.write
          BY <4>5
        <4>9. own.kind = x.config.scope /\ own.key = key
          OBVIOUS
        <4> HIDE DEF own, key, s
        <4> QED
          BY <1>2, <2>1, <4>3, <4>4, <4>5, <4>6, <4>7, <4>8, <4>9
      <3>3. y.adapter = x.adapter \/ x.pc = "credential"
        BY <1>7 DEF Follows, ResolveCredential, At
      <3> QED
        BY <3>1, <3>2, <3>3
    <2>7. y.pc \in {"recordApplied", "recordFailed"} => y.adapter.write
      <3>1. y.pc \in {"recordApplied", "recordFailed"} => x.pc = "write"
        BY <2>1 DEF Leads
      <3>2. x.pc = "write" => x.adapter.write /\ y.adapter = x.adapter
        BY <1>1, <1>7 DEF Entitled, Follows, ResolveCredential, At
      <3> QED
        BY <3>1, <3>2
    <2>8. c \in written' => /\ y.pc \in {"recordApplied", "recordFailed"} \cup Ended
                            /\ y.adapter.write
      <3>1. c \in written' => x.pc \in {"write", "recordApplied", "recordFailed"}
        BY <1>1, <2>2, Footprint DEF Wrote, WritePtv, At
      <3>2. x.pc \in {"write", "recordApplied", "recordFailed"}
              => x.adapter.write /\ y.adapter = x.adapter
        BY <1>1, <1>7 DEF Entitled, Follows, ResolveCredential, At
      <3>3. x.pc \in {"write", "recordApplied", "recordFailed"}
              => y.pc \in {"recordApplied", "recordFailed"} \cup Ended
        BY <2>1 DEF Leads, Ended
      <3> QED
        BY <3>1, <3>2, <3>3
    <2> QED
      BY <2>3, <2>4, <2>5, <2>6, <2>7, <2>8 DEF Entitled, Wrote
  <1> QED
    BY <1>4, <1>5, <1>6, <1>7, OneRecordChanges

\* Whoever is handed an adapter may have it (dbAdapterRegistry.resolve, which
\* re-checks on every call): the role held at some moment of the request, for a
\* write the Publisher's after the change was validated, with four eyes off
\* and the organisation's own credential; a user's account never writes.
THEOREM WhoIsHandedAnAdapter == Spec => []AdaptersAreEntitled
  <1>1. Typed /\ Configured /\ AllEntitled /\ [Next]_vars => Configured' /\ AllEntitled'
    <2> SUFFICES ASSUME Typed, Configured, AllEntitled, [Next]_vars
                 PROVE  Configured' /\ AllEntitled'
      OBVIOUS
    <2>1. CASE UNCHANGED vars
      BY <2>1 DEF vars, connectionVars, Configured, AllEntitled, At
    <2>2. CASE Next
      BY <2>2, StepConfigured, StepEntitled DEF Next
    <2> QED
      BY <2>1, <2>2
  <1>2. AllEntitled => AdaptersAreEntitled
    BY DEF AllEntitled, Entitled, Wrote, AdaptersAreEntitled, ActsWithAuthority, WritesAsOrganisation, At
  <1> QED
    BY <1>1, <1>2, InitConfigured, InitEntitled, TypeCorrect, PTL DEF Spec

-----------------------------------------------------------------------------
(* Writes leave their entries.                                              *)

\* The trail only grows.
LEMMA TrailGrows ==
  ASSUME Typed, NEW c \in Calls, RegistryStep(c)
  PROVE  /\ audit \in Seq(Entries) /\ audit' \in Seq(Entries)
         /\ Len(audit) \in Nat
         /\ Len(audit') \in {Len(audit), Len(audit) + 1}
         /\ \A i \in 1 .. Len(audit) : audit'[i] = audit[i]
         /\ ~Records(c) => audit' = audit
         /\ \A e : audit' = Append(audit, e)
                     => Len(audit') = Len(audit) + 1 /\ audit'[Len(audit) + 1] = e
  <1>1. audit \in Seq(Entries) /\ audit' \in Seq(Entries)
    BY StepTyped DEF Typed
  <1>2. ~Records(c) => audit' = audit
    BY Footprint
  <1>3. audit' = audit \/ \E e \in Entries : audit' = Append(audit, e)
    BY <1>2, RecordsTyped
  <1>4. ASSUME NEW e, audit' = Append(audit, e)
        PROVE  /\ Len(audit') = Len(audit) + 1 /\ audit'[Len(audit) + 1] = e
               /\ \A i \in 1 .. Len(audit) : audit'[i] = audit[i]
    BY <1>1, <1>4
  <1> QED
    BY <1>1, <1>2, <1>3, <1>4

Recorded ==
  \A c \in written :
    \/ call[c].pc \in {"recordApplied", "recordFailed", "cut"}
    \/ \E i \in 1 .. Len(audit) :
         audit[i].action \in {"applied", "failed"} /\ audit[i].by = call[c].user

LEMMA StepRecorded ==
  ASSUME Typed, AllEntitled, Recorded, NEW c \in Calls, RegistryStep(c)
  PROVE  Recorded'
  <1> DEFINE x == call[c]
             y == call'[c]
             Tells(u) == \E i \in 1 .. Len(audit) :
                           audit[i].action \in {"applied", "failed"} /\ audit[i].by = u
             TellsNow(u) == \E i \in 1 .. Len(audit') :
                              audit'[i].action \in {"applied", "failed"} /\ audit'[i].by = u
  <1>1. \A u : Tells(u) => TellsNow(u)
    BY TrailGrows
  <1>2. SUFFICES ASSUME NEW d \in written'
                 PROVE  \/ call'[d].pc \in {"recordApplied", "recordFailed", "cut"}
                        \/ TellsNow(call'[d].user)
    BY DEF Recorded
  <1>3. d \in Calls
    BY StepTyped DEF Typed, TypeOK
  <1>4. CASE d # c
    <2>1. call'[d] = call[d] /\ d \in written
      BY <1>3, <1>4, OneRecordChanges, Footprint DEF WritePtv
    <2> QED
      BY <1>1, <2>1 DEF Recorded
  <1>5. CASE d = c
    <2>1. CASE Cut(c)
      <3>1. y.pc = "cut"
        BY <2>1, OneRecordChanges DEF CutOff, Idle
      <3> QED
        BY <1>5, <3>1
    <2>2. CASE ~Cut(c) /\ x.pc = "write"
      <3>1. PICK s \in {"recordApplied", "recordFailed"} : Goto(c, s)
        BY <2>2, ActsAt DEF At, WritePtv
      <3>2. y.pc = s
        BY <3>1, GotoBecomes DEF Typed, Pcs, TenantSteps, ApplySteps
      <3> QED
        BY <1>5, <3>1, <3>2
    <2>3. CASE ~Cut(c) /\ x.pc \in {"recordApplied", "recordFailed"}
      <3>1. PICK a \in {"applied", "failed"}, s \in {"ok", "refused"} :
              Record(Entry(c, a)) /\ Goto(c, s)
        BY <2>3, ActsAt DEF At, RecordApplied, RecordFailed
      <3>2. y.user = x.user
        BY <3>1, GotoBecomes DEF Typed, Pcs
      <3>3. /\ Len(audit') = Len(audit) + 1 /\ audit'[Len(audit) + 1] = Entry(c, a)
            /\ Len(audit) \in Nat
        BY <3>1, TrailGrows DEF Record
      <3>4. Entry(c, a).action = a /\ Entry(c, a).by = x.user
        BY DEF Entry
      <3>5. TellsNow(x.user)
        BY <3>1, <3>3, <3>4
      <3> HIDE DEF TellsNow
      <3> QED
        BY <1>5, <3>2, <3>5
    <2>4. CASE ~Cut(c) /\ x.pc \notin {"write", "recordApplied", "recordFailed"}
      <3>1. c \in written
        BY <1>5, <2>4, Footprint DEF WritePtv, At
      <3>2. x.pc \in Ended
        BY <2>4, <3>1 DEF AllEntitled, Wrote
      <3> QED
        BY <2>4, <3>2, ActsAt
    <2> QED
      BY <2>1, <2>2, <2>3, <2>4
  <1> QED
    BY <1>4, <1>5

\* A write that PTV carried out has its entry once the request has ended,
\* unless it was cut off before it (auditedApply records in both its branches),
\* however many others write at the same time.
THEOREM EveryWriteIsRecorded == Spec => []WritesAreRecorded
  <1>1. Typed /\ Configured /\ AllEntitled /\ Recorded /\ [Next]_vars
          => Configured' /\ AllEntitled' /\ Recorded'
    <2> SUFFICES ASSUME Typed, Configured, AllEntitled, Recorded, [Next]_vars
                 PROVE  Configured' /\ AllEntitled' /\ Recorded'
      OBVIOUS
    <2>1. CASE UNCHANGED vars
      BY <2>1 DEF vars, tenantVars, connectionVars, Configured, AllEntitled, Recorded, At
    <2>2. CASE Next
      BY <2>2, StepConfigured, StepEntitled, StepRecorded DEF Next
    <2> QED
      BY <2>1, <2>2
  <1>2. Init => Recorded
    BY DEF Init, Recorded
  <1>3. Recorded => WritesAreRecorded
    BY DEF Recorded, WritesAreRecorded, Under, At, Ended
  <1> QED
    BY <1>1, <1>2, <1>3, InitConfigured, InitEntitled, TypeCorrect, PTL DEF Spec

-----------------------------------------------------------------------------
(* Connecting takes effect everywhere, disconnecting for good.              *)

\* ConnectionOf, of any table of connections.
TokenOf(table, u) == IF table[u].live THEN table[u].token ELSE Null

\* The connection of a request that has not stored it yet is nobody's, and
\* what a disconnection has read is gone once the row is revoked.
Spent ==
  /\ \A c \in Calls : call[c].pc \in {"idle", "storeConnection"} =>
       /\ \A u \in Users : connection[u].token # c
       /\ \A d \in Calls : call[d].key # c
  /\ \A c \in Calls :
       /\ call[c].op = "disconnect" /\ call[c].key # Null
       /\ call[c].pc \in {"listTenants", "recordEvent", "ok"}
       => call[c].user \in Users /\ TokenOf(connection, call[c].user) # call[c].key

LEMMA ConnectionChanges ==
  ASSUME Typed, NEW c \in Calls, RegistryStep(c)
  PROVE  \/ UNCHANGED connection
         \/ /\ StoreConnection(c) /\ call[c].user \in Users
            /\ connection'[call[c].user].token = c /\ TokenOf(connection', call[c].user) = c
            /\ \A u \in Users \ {call[c].user} : connection'[u] = connection[u]
         \/ /\ RevokeConnection(c) /\ call[c].user \in Users
            /\ connection'[call[c].user].token = connection[call[c].user].token
            /\ TokenOf(connection', call[c].user) = Null
            /\ \A u \in Users \ {call[c].user} : connection'[u] = connection[u]
  <1> DEFINE v == call[c].user
  <1>1. connection \in [Users -> [token : Keys \cup {Null}, live : BOOLEAN]] /\ CallsTyped
    BY DEF Typed, TypeOK
  <1>2. CASE StoreConnection(c)
    <2>1. v \in Users /\ connection' = [connection EXCEPT ![v] = [token |-> c, live |-> TRUE]]
      BY <1>1, <1>2, Named DEF StoreConnection
    <2>2. connection'[v] = [token |-> c, live |-> TRUE]
      BY <1>1, <2>1
    <2>3. \A u \in Users \ {v} : connection'[u] = connection[u]
      BY <1>1, <2>1
    <2> QED
      BY <1>2, <2>1, <2>2, <2>3 DEF TokenOf
  <1>3. CASE RevokeConnection(c)
    <2>1. v \in Users /\ connection' = [connection EXCEPT ![v].live = FALSE]
      BY <1>1, <1>3, Named DEF RevokeConnection
    <2>2. connection'[v].token = connection[v].token /\ connection'[v].live = FALSE
      BY <1>1, <2>1
    <2>3. \A u \in Users \ {v} : connection'[u] = connection[u]
      BY <1>1, <2>1
    <2> QED
      BY <1>3, <2>1, <2>2, <2>3 DEF TokenOf
  <1> QED
    BY <1>2, <1>3, Footprint

LEMMA InitSpent == Init => Spent
  <1> SUFFICES ASSUME Init PROVE Spent
    OBVIOUS
  <1>1. \A c \in Calls : c # Null /\ c # Old
    BY TenantsAssumption
  <1>2. \A u \in Users : connection[u].token \in {Old, Null}
    BY DEF Init
  <1>3. \A c \in Calls : call[c].key = Null /\ call[c].pc = "idle"
    BY DEF Init, Idle
  <1> QED
    BY <1>1, <1>2, <1>3 DEF Spent

LEMMA StepSpent ==
  ASSUME Typed, Spent, NEW c \in Calls, RegistryStep(c)
  PROVE  Spent'
  <1> DEFINE x == call[c]
             y == call'[c]
  <1>1. /\ CallsTyped /\ x \in CallRecord /\ Fits(x) /\ y \in CallRecord /\ Fits(y)
        /\ \A u \in Users : connection[u].token \in Keys \cup {Null}
    BY OneRecordChanges DEF Typed, TypeOK, CallsTyped
  <1>2. \A d \in Calls : d # Null
    BY TenantsAssumption
  <1>3. ASSUME NEW e \in Calls, call'[e].pc \in {"idle", "storeConnection"}
        PROVE  /\ \A u \in Users : connection'[u].token # e
               /\ \A d \in Calls : call'[d].key # e
    <2>1. call[e].pc \in {"idle", "storeConnection"} /\ (e = c => x.pc = "idle")
      <3>1. CASE e # c
        BY <1>3, <3>1, OneRecordChanges
      <3>2. CASE e = c
        BY <1>3, <3>2, OneRecordChanges DEF Follows, Leads, Refused, CutOff, Idle, At
      <3> QED
        BY <3>1, <3>2
    <2>2. /\ \A u \in Users : connection[u].token # e
          /\ \A d \in Calls : call[d].key # e
      BY <2>1 DEF Spent
    <2>3. ASSUME NEW u \in Users PROVE connection'[u].token # e
      BY <2>1, <2>2, ConnectionChanges DEF StoreConnection, At
    <2>4. ASSUME NEW d \in Calls PROVE call'[d].key # e
      <3>1. CASE d # c
        BY <2>2, <3>1, OneRecordChanges
      <3>2. CASE d = c /\ Fresh(y)
        <4>1. CASE y.op = "disconnect"
          <5>1. y.user \in Users /\ y.key = ConnectionOf(y.user)
            BY <1>1, <3>2, <4>1 DEF Fresh, Fits, DisconnectSteps, Ended
          <5> QED
            BY <1>2, <2>2, <3>2, <5>1 DEF ConnectionOf
        <4>2. CASE y.op # "disconnect"
          BY <1>2, <3>2, <4>2 DEF Fresh
        <4> QED
          BY <4>1, <4>2
      <3>3. CASE d = c /\ (y = Refused \/ y = CutOff)
        BY <1>2, <3>3 DEF Refused, CutOff, Idle
      <3>4. CASE d = c /\ Follows(c, y)
        BY <2>2, <3>4 DEF Follows, Same
      <3> QED
        BY <3>1, <3>2, <3>3, <3>4, OneRecordChanges
    <2> QED
      BY <2>3, <2>4
  <1>4. ASSUME NEW d \in Calls, call'[d].op = "disconnect", call'[d].key # Null,
               call'[d].pc \in {"listTenants", "recordEvent", "ok"}
        PROVE  call'[d].user \in Users /\ TokenOf(connection', call'[d].user) # call'[d].key
    <2>1. CASE d # c
      <3>1. call'[d] = call[d]
        BY <2>1, OneRecordChanges
      <3>2. call[d].user \in Users /\ TokenOf(connection, call[d].user) # call[d].key
        BY <1>4, <3>1 DEF Spent
      <3>3. StoreConnection(c) => call[d].key # c
        BY DEF Spent, StoreConnection, At
      <3>4. TokenOf(connection', call[d].user) # call[d].key
        BY <1>4, <3>1, <3>2, <3>3, ConnectionChanges DEF TokenOf
      <3> QED
        BY <3>1, <3>2, <3>4
    <2>2. CASE d = c
      <3>1. Follows(c, y) /\ ~Cut(c)
        BY <1>4, <2>2, OneRecordChanges
        DEF Fresh, Refused, CutOff, Idle, DisconnectSteps
      <3>2. /\ x.op = "disconnect" /\ y.key = x.key /\ y.user = x.user
            /\ Leads(x, y.pc) /\ x.key # Null
        BY <1>4, <2>2, <3>1 DEF Follows, Same
      <3>3. x.pc \in {"revokeConnection", "listTenants", "recordEvent"}
        BY <1>1, <1>4, <2>2, <3>2
        DEF Leads, Fits, ConnectSteps, MemberOps, KeySteps, SettingsSteps, ApplySteps
      <3>4. CASE x.pc = "revokeConnection"
        <4>1. RevokeConnection(c)
          BY <3>1, <3>4, ActsAt DEF At
        <4>2. connection' = [connection EXCEPT ![x.user].live = FALSE] /\ x.user \in Users
          BY <1>1, <4>1, Named DEF RevokeConnection
        <4>3. x.user \in Users /\ TokenOf(connection', x.user) = Null
          <5>1. connection'[x.user].live = FALSE
            BY <4>2 DEF Typed, TypeOK
          <5> QED
            BY <4>2, <5>1 DEF TokenOf
        <4> QED
          BY <2>2, <3>2, <4>3
      <3>5. CASE x.pc \in {"listTenants", "recordEvent"}
        <4>1. UNCHANGED connection
          BY <3>5, Footprint DEF StoreConnection, RevokeConnection, At
        <4>2. x.user \in Users /\ TokenOf(connection, x.user) # x.key
          BY <3>2, <3>5 DEF Spent
        <4> QED
          BY <2>2, <3>2, <4>1, <4>2
      <3> QED
        BY <3>3, <3>4, <3>5
    <2> QED
      BY <2>1, <2>2
  <1> QED
    BY <1>3, <1>4 DEF Spent

\* Every tenant of ts can be read unless something failed; every one has its
\* entry of u's connecting.
Readable(ts) == cuts = 0 => \A t \in ts : config[t]["v11"].read
Reached(ts, u) ==
  \A t \in ts : \E i \in 1 .. Len(audit) :
    audit[i].action = "connect" /\ audit[i].tenant = t /\ audit[i].by = u

Connecting ==
  \A c \in Calls : call[c].op = "connect" =>
    /\ call[c].pc = "readDefaults" => Readable(call[c].tenants \ call[c].todo)
    /\ call[c].pc = "recordEvent" => /\ Readable(call[c].tenants)
                                     /\ Reached(call[c].tenants \ call[c].todo, call[c].user)
    /\ call[c].pc = "ok" => Readable(call[c].tenants) /\ Reached(call[c].tenants, call[c].user)

\* Reading, once on, stays on.
LEMMA ReadingStays ==
  ASSUME Typed, NEW c \in Calls, RegistryStep(c), NEW t \in Tenants, config[t]["v11"].read
  PROVE  config'[t]["v11"].read
  <1> DEFINE x == call[c]
  <1>1. /\ CallsTyped /\ x \in CallRecord /\ config \in [Tenants -> [Versions -> Config]]
        /\ "v11" \in Versions
    BY DEF Typed, TypeOK, CallsTyped, Versions
  <1>2. CASE UNCHANGED config
    BY <1>2
  <1>3. CASE UpsertConfig(c)
    <2>1. /\ SavedConfig["v11"] \in Config /\ SavedConfig["v12"] \in Config
          /\ SavedConfig["v11"].read
      BY DEF Config, SavedConfig
    <2>2. /\ x.tenant \in Tenants /\ x.version \in Versions
          /\ SavedConfig[x.version] \in Config
      BY <1>1, <1>3, <2>1, Named DEF UpsertConfig, CallRecord, Versions
    <2>3. config' = [config EXCEPT ![x.tenant][x.version] = SavedConfig[x.version]]
      BY <1>3 DEF UpsertConfig
    <2>4. /\ config'[x.tenant][x.version] = SavedConfig[x.version]
          /\ \A s \in Tenants, v \in Versions :
               s # x.tenant \/ v # x.version => config'[s][v] = config[s][v]
      <3> HIDE DEF x
      <3> QED
        BY <1>1, <2>2, <2>3, NestedExcept
    <2>5. CASE t = x.tenant /\ x.version = "v11"
      BY <2>1, <2>4, <2>5
    <2>6. CASE ~(t = x.tenant /\ x.version = "v11")
      BY <1>1, <2>4, <2>6
    <2> QED
      BY <2>5, <2>6
  <1>4. ASSUME NEW s \in x.todo,
               config' = [config EXCEPT ![s]["v11"] = WithReadDefaults(config[s]["v11"])]
        PROVE  config'[t]["v11"].read /\ config'[s]["v11"].read
    <2>1. /\ \A cfg \in Config : WithReadDefaults(cfg) \in Config
          /\ \A cfg \in Config : WithReadDefaults(cfg).read
      BY DEF WithReadDefaults, DefaultConfig, Config
    <2>2. s \in Tenants /\ WithReadDefaults(config[s]["v11"]) \in Config
      BY <1>1, <2>1 DEF CallRecord
    <2>3. /\ config'[s]["v11"] = WithReadDefaults(config[s]["v11"])
          /\ \A r \in Tenants, v \in Versions :
               r # s \/ v # "v11" => config'[r][v] = config[r][v]
      BY <1>1, <1>4, <2>2, NestedExcept
    <2> QED
      BY <1>1, <2>1, <2>2, <2>3
  <1>5. CASE EnsureV11ReadDefaults(c)
    BY <1>4, <1>5 DEF EnsureV11ReadDefaults
  <1> QED
    BY <1>2, <1>3, <1>5, Footprint

\* What the step of one tenant leaves of those to do.
LEMMA Settles ==
  ASSUME Typed, NEW c \in Calls, NEW t \in call[c].todo, Settle(c, t)
  PROVE  LET y == call'[c] IN
         \/ /\ y.pc = "recordEvent" /\ call[c].todo \subseteq {t} /\ y.todo = call[c].tenants
            /\ y.tenants = call[c].tenants
         \/ /\ y.pc = "readDefaults" /\ y.todo = call[c].todo \ {t}
            /\ y.tenants = call[c].tenants
  <1> DEFINE left == call[c].todo \ {t}
  <1>1. call[c] \in CallRecord
    BY DEF Typed, CallsTyped
  <1>2. CASE left = {}
    <2>1. call' = [call EXCEPT ![c].todo = call[c].tenants, ![c].pc = "recordEvent"]
      BY <1>2 DEF Settle
    <2> QED
      BY <1>1, <1>2, <2>1 DEF Typed, CallsTyped, CallRecord
  <1>3. CASE left # {}
    <2>1. call' = [call EXCEPT ![c].todo = left, ![c].pc = "readDefaults"]
      BY <1>3 DEF Settle
    <2> QED
      BY <1>1, <1>3, <2>1 DEF Typed, CallsTyped, CallRecord
  <1> QED
    BY <1>2, <1>3

LEMMA ReadEnsured ==
  ASSUME Typed, NEW c \in Calls, NEW t \in call[c].todo,
         config' = [config EXCEPT ![t]["v11"] = WithReadDefaults(config[t]["v11"])]
  PROVE  config'[t]["v11"].read
  <1>1. /\ \A cfg \in Config : WithReadDefaults(cfg) \in Config
        /\ \A cfg \in Config : WithReadDefaults(cfg).read
    BY DEF WithReadDefaults, DefaultConfig, Config
  <1>2. /\ t \in Tenants /\ "v11" \in Versions
        /\ config \in [Tenants -> [Versions -> Config]]
    BY DEF Typed, TypeOK, CallsTyped, CallRecord, Versions
  <1>3. config'[t]["v11"] = WithReadDefaults(config[t]["v11"])
    BY <1>1, <1>2, NestedExcept
  <1> QED
    BY <1>1, <1>2, <1>3

LEMMA StepConnecting ==
  ASSUME Typed, Connecting, NEW c \in Calls, RegistryStep(c)
  PROVE  Connecting'
  <1> DEFINE x == call[c]
             y == call'[c]
             Read(ts) == cuts' = 0 => \A t \in ts : config'[t]["v11"].read
             Told(ts, u) == \A t \in ts : \E i \in 1 .. Len(audit') :
                 audit'[i].action = "connect" /\ audit'[i].tenant = t /\ audit'[i].by = u
  <1>1. /\ CallsTyped /\ x \in CallRecord /\ Fits(x) /\ y \in CallRecord /\ Fits(y)
        /\ \A d \in Calls : call[d] \in CallRecord
    BY OneRecordChanges DEF Typed, CallsTyped
  <1>2. cuts' = 0 => cuts = 0
    BY Footprint, TenantsAssumption DEF Typed, TypeOK, Cut, ReadDefaultsFail
  <1>3. ASSUME NEW ts \in SUBSET Tenants, Readable(ts) PROVE Read(ts)
    BY <1>2, <1>3, ReadingStays DEF Readable
  <1>4. ASSUME NEW ts, NEW u, Reached(ts, u) PROVE Told(ts, u)
    BY <1>4, TrailGrows DEF Reached
  <1>5. SUFFICES ASSUME NEW d \in Calls, call'[d].op = "connect"
                 PROVE  /\ call'[d].pc = "readDefaults" => Read(call'[d].tenants \ call'[d].todo)
                        /\ call'[d].pc = "recordEvent"
                             => /\ Read(call'[d].tenants)
                                /\ Told(call'[d].tenants \ call'[d].todo, call'[d].user)
                        /\ call'[d].pc = "ok"
                             => Read(call'[d].tenants) /\ Told(call'[d].tenants, call'[d].user)
    BY DEF Connecting, Readable, Reached
  <1> HIDE DEF Read, Told
  <1>6. CASE d # c
    <2>1. /\ call'[d] = call[d] /\ call[d].tenants \in SUBSET Tenants
          /\ call[d].tenants \ call[d].todo \in SUBSET Tenants
      BY <1>1, <1>6, OneRecordChanges DEF CallRecord
    <2> QED
      BY <1>3, <1>4, <1>5, <2>1 DEF Connecting
  <1>7. CASE d = c /\ (Fresh(y) \/ y = Refused \/ y = CutOff)
    BY <1>5, <1>7 DEF Fresh, Refused, CutOff, Idle
  <1>8. CASE d = c /\ Follows(c, y) /\ ~Cut(c)
    <2>1. /\ x.op = "connect" /\ y.user = x.user /\ Leads(x, y.pc)
          /\ x.tenants \in SUBSET Tenants /\ x.todo \in SUBSET Tenants
      BY <1>1, <1>5, <1>8 DEF Follows, Same, CallRecord
    <2>2. CASE x.pc = "listTenants"
      <3> DEFINE ts == ListTenantsForUser(x.user)
                 s == IF ts = {} THEN "ok" ELSE "readDefaults"
      <3>1. call' = [call EXCEPT ![c].tenants = ts, ![c].todo = ts, ![c].pc = s]
        BY <1>8, <2>1, <2>2, ActsAt DEF At, ListTenants
      <3>2. y.tenants = ts /\ y.todo = ts /\ y.pc = s
        <4> HIDE DEF ts, s
        <4> QED
          BY <1>1, <3>1 DEF CallsTyped, CallRecord
      <3>3. Read({}) /\ Told({}, y.user)
        BY DEF Read, Told
      <3>4. ts \ ts = {}
        OBVIOUS
      <3>5. s = "readDefaults" \/ (s = "ok" /\ ts = {})
        OBVIOUS
      <3> HIDE DEF ts, s
      <3> QED
        BY <1>8, <3>2, <3>3, <3>4, <3>5
    <2>3. CASE x.pc = "readDefaults"
      <3>1. Readable(x.tenants \ x.todo)
        BY <2>1, <2>3 DEF Connecting
      <3>2. x.tenants \ x.todo \in SUBSET Tenants
        BY <2>1
      <3>3. Read(x.tenants \ x.todo)
        BY <1>3, <3>1, <3>2
      <3>4. PICK t \in x.todo : /\ Settle(c, t)
                                /\ cuts' = 0 => config'[t]["v11"].read
        <4>1. CASE EnsureV11ReadDefaults(c)
          BY <4>1, ReadEnsured DEF EnsureV11ReadDefaults
        <4>2. CASE ReadDefaultsFail(c)
          <5>1. cuts' # 0
            BY <4>2, TenantsAssumption DEF ReadDefaultsFail, Typed, TypeOK
          <5> QED
            BY <4>2, <5>1 DEF ReadDefaultsFail
        <4> QED
          BY <1>8, <2>3, <4>1, <4>2, ActsAt DEF At
      <3>5. Read((x.tenants \ x.todo) \cup {t})
        BY <3>3, <3>4 DEF Read
      <3>6. \/ /\ y.pc = "recordEvent" /\ x.todo \subseteq {t} /\ y.todo = x.tenants
               /\ y.tenants = x.tenants
            \/ /\ y.pc = "readDefaults" /\ y.todo = x.todo \ {t} /\ y.tenants = x.tenants
        BY <3>4, Settles
      <3>7. CASE y.pc = "recordEvent"
        <4>1. Read(y.tenants)
          BY <3>5, <3>6, <3>7 DEF Read
        <4>2. y.tenants \ y.todo = {}
          BY <3>6, <3>7
        <4>3. Told(y.tenants \ y.todo, y.user)
          BY <4>2 DEF Told
        <4> QED
          BY <1>8, <3>7, <4>1, <4>3
      <3>8. CASE y.pc = "readDefaults"
        <4>1. Read(y.tenants \ y.todo)
          BY <3>5, <3>6, <3>8 DEF Read
        <4> QED
          BY <1>8, <3>8, <4>1
      <3> QED
        BY <3>6, <3>7, <3>8
    <2>4. CASE x.pc = "recordEvent"
      <3>1. Readable(x.tenants) /\ Reached(x.tenants \ x.todo, x.user)
        BY <2>1, <2>4 DEF Connecting
      <3>2. Read(x.tenants) /\ Told(x.tenants \ x.todo, x.user)
        BY <1>3, <1>4, <2>1, <3>1
      <3>3. RecordConnectionEvent(c)
        BY <1>8, <2>4, ActsAt DEF At
      <3>4. PICK t \in x.todo :
              /\ audit' = Append(audit, [action |-> x.op, tenant |-> t, by |-> x.user,
                            on |-> Null, role |-> "none", before |-> FALSE, after |-> FALSE,
                            version |-> "v11"])
              /\ call' = [call EXCEPT ![c].todo = x.todo \ {t},
                                      ![c].pc = IF x.todo = {t} THEN "ok" ELSE "recordEvent"]
        BY <3>3 DEF RecordConnectionEvent, Record
      <3> DEFINE s == IF x.todo = {t} THEN "ok" ELSE "recordEvent"
                 e == [action |-> x.op, tenant |-> t, by |-> x.user,
                       on |-> Null, role |-> "none", before |-> FALSE, after |-> FALSE,
                       version |-> "v11"]
      <3>5. y.todo = x.todo \ {t} /\ y.pc = s /\ y.tenants = x.tenants
        <4>1. call' = [call EXCEPT ![c].todo = x.todo \ {t}, ![c].pc = s]
          BY <3>4
        <4> HIDE DEF s
        <4> QED
          BY <1>1, <4>1 DEF CallsTyped, CallRecord
      <3>6. /\ Len(audit') = Len(audit) + 1 /\ audit'[Len(audit) + 1] = e
            /\ Len(audit) \in Nat
        BY <3>4, TrailGrows
      <3>7. e.action = "connect" /\ e.tenant = t /\ e.by = x.user
        BY <2>1
      <3>8. Told({t}, x.user)
        BY <3>6, <3>7 DEF Told
      <3>9. Told((x.tenants \ x.todo) \cup {t}, x.user)
        BY <3>2, <3>8 DEF Told
      <3>10. CASE x.todo = {t}
        <4>1. Told(y.tenants, y.user)
          BY <2>1, <3>5, <3>9, <3>10 DEF Told
        <4> QED
          BY <1>8, <3>2, <3>5, <3>10, <4>1
      <3>11. CASE x.todo # {t}
        <4>1. Told(y.tenants \ y.todo, y.user)
          BY <2>1, <3>5, <3>9, <3>11 DEF Told
        <4> QED
          BY <1>8, <3>2, <3>5, <3>11, <4>1
      <3> QED
        BY <3>10, <3>11
    <2>5. CASE x.pc \notin {"listTenants", "readDefaults", "recordEvent"}
      BY <1>1, <1>8, <2>1, <2>5
      DEF Leads, Fits, MemberOps, KeySteps, SettingsSteps, ApplySteps
    <2> QED
      BY <2>2, <2>3, <2>4, <2>5
  <1> QED
    BY <1>6, <1>7, <1>8, OneRecordChanges

\* A PTV account is connected everywhere, and disconnected for good
\* (routes/ptvConnections.ts): each of the user's tenants gets its entry
\* although others fail, and can be read if none does; and the token that was
\* disconnected is never the live one again, whoever connects in between.
THEOREM ConnectingAndDisconnecting == Spec => []ConnectionsTakeEffect
  <1>1. Typed /\ Spent /\ Connecting /\ [Next]_vars => Spent' /\ Connecting'
    <2> SUFFICES ASSUME Typed, Spent, Connecting, [Next]_vars PROVE Spent' /\ Connecting'
      OBVIOUS
    <2>1. CASE UNCHANGED vars
      BY <2>1 DEF vars, tenantVars, connectionVars, Spent, Connecting, Readable, Reached
    <2>2. CASE Next
      BY <2>2, StepSpent, StepConnecting DEF Next
    <2> QED
      BY <2>1, <2>2
  <1>2. Init => Connecting
    BY DEF Init, Connecting, Idle
  <1>3. Connecting => ConnectReachesAll
    BY DEF Connecting, ConnectReachesAll, Readable, Reached, At
  <1>4. Spent => DisconnectedStaysSo
    BY DEF Spent, DisconnectedStaysSo, At, ConnectionOf, TokenOf
  <1> QED
    BY <1>1, <1>2, <1>3, <1>4, InitSpent, TypeCorrect, PTL DEF Spec, ConnectionsTakeEffect

-----------------------------------------------------------------------------
(* The trail tells the truth.                                               *)

\* Requests that are not made at once are under way one at a time.
OneUnder == ~crossed => \A c, d \in Calls : Under(c) /\ Under(d) => c = d

\* Whoever has a role has it in a tenant that exists, and so has every change
\* under way or told of.
TenantsThere ==
  /\ \A t \in Tenants, u \in Users : membership[t][u] # "none" => tenant[t].exists
  /\ \A c \in Calls :
       call[c].pc \in {"setRole", "recordChange"} \cup SettingsSteps \cup KeySteps
         => tenant[call[c].tenant].exists
  /\ \A i \in 1 .. Len(audit) :
       audit[i].action \in MemberOps \cup {"settings"} => tenant[audit[i].tenant].exists

\* The last entry of the trail about t's settings, and about u in t.
OfSettings(e, t) == e.tenant = t /\ e.action \in {"settings"}
OfMember(e, t, u) == e.tenant = t /\ e.action \in MemberOps /\ e.on = u
LastSettings(trail, i, t) ==
  /\ i \in 1 .. Len(trail) /\ OfSettings(trail[i], t)
  /\ \A k \in i + 1 .. Len(trail) : ~OfSettings(trail[k], t)
LastMember(trail, i, t, u) ==
  /\ i \in 1 .. Len(trail) /\ OfMember(trail[i], t, u)
  /\ \A k \in i + 1 .. Len(trail) : ~OfMember(trail[k], t, u)

\* A request that has made its change and not recorded it.
Changed(r, t) == r.pc = "recordChange" /\ r.op = "settings" /\ r.tenant = t
ChangedMember(r, t, u) ==
  r.pc = "recordChange" /\ r.op \in MemberOps /\ r.tenant = t /\ r.target = u

\* While no request has crossed another or been cut off, the last entry tells
\* what is, or what the request that is yet to record its change found.
SettingsTold ==
  ~crossed /\ cuts = 0 =>
    /\ \A c \in Calls :
         /\ At(c, "setFourEyes") => call[c].seen = tenant[call[c].tenant].fourEyes
         /\ At(c, "recordChange") /\ call[c].op = "settings"
              => call[c].flag = tenant[call[c].tenant].fourEyes
    /\ \A t \in Tenants : \A i \in 1 .. Len(audit) : LastSettings(audit, i, t) =>
         /\ \A c \in Calls : Changed(call[c], t) => audit[i].after = call[c].seen
         /\ (\A c \in Calls : ~Changed(call[c], t)) => audit[i].after = tenant[t].fourEyes

MembersTold ==
  ~crossed /\ cuts = 0 =>
    /\ \A c \in Calls : At(c, "recordChange") /\ call[c].op \in MemberOps
         => membership[call[c].tenant][call[c].target] = call[c].role
    /\ \A t \in Tenants, u \in Users : \A i \in 1 .. Len(audit) :
         /\ LastMember(audit, i, t, u)
         /\ \A c \in Calls : ~ChangedMember(call[c], t, u)
         => audit[i].role = membership[t][u]

LEMMA InitTrail == Init => OneUnder /\ TenantsThere /\ SettingsTold /\ MembersTold /\ SettingsTrail
  <1> SUFFICES ASSUME Init
               PROVE  OneUnder /\ TenantsThere /\ SettingsTold /\ MembersTold /\ SettingsTrail
    OBVIOUS
  <1>1. Len(audit) = 0 /\ \A c \in Calls : call[c].pc = "idle"
    BY DEF Init, Idle
  <1>2. ASSUME NEW x \in Tenants, NEW y \in Users, membership[x][y] # "none"
        PROVE  tenant[x].exists
    BY <1>2, TenantsAssumption DEF Init, NewTenant, NoTenant
  <1>3. OneUnder
    BY <1>1 DEF OneUnder, Under
  <1>4. TenantsThere
    BY <1>1, <1>2 DEF TenantsThere, SettingsSteps, KeySteps
  <1>5. SettingsTold /\ MembersTold /\ SettingsTrail
    BY <1>1 DEF SettingsTold, MembersTold, SettingsTrail, At, Changed
  <1> QED
    BY <1>3, <1>4, <1>5

\* Requests of which no two are under way at once: the one that steps is alone.
LEMMA StepsAlone ==
  ASSUME Typed, OneUnder, NEW c \in Calls, RegistryStep(c), ~crossed'
  PROVE  /\ ~crossed /\ OneUnder'
         /\ \A d \in Calls : d # c => ~Under(d) /\ call'[d] = call[d]
  <1>1. Starts(c) => crossed' = (crossed \/ ~Quiet)
    BY DEF Starts, StartCreateTenant, StartMemberChange, StartUpdateSettings, StartSaveKey,
       StartConnect, StartDisconnect, StartRead, StartApply, RequireRole, Begin
  <1>2. ~crossed
    BY <1>1, Footprint
  <1>3. Starts(c) => \A d \in Calls : ~Under(d)
    BY <1>1 DEF Quiet
  <1>4. ~Starts(c) => Under(c)
    <2>1. CASE Cut(c)
      BY <2>1 DEF Cut
    <2>2. CASE ~Starts(c) /\ ~Cut(c)
      BY <2>2, ActsAt DEF Under, At
    <2> QED
      BY <2>1, <2>2
  <1>5. ASSUME NEW d \in Calls, d # c PROVE ~Under(d) /\ call'[d] = call[d]
    BY <1>2, <1>3, <1>4, <1>5, OneRecordChanges DEF OneUnder
  <1>6. \A d \in Calls : d # c => ~Under(d)'
    BY <1>5 DEF Under
  <1> QED
    BY <1>2, <1>5, <1>6 DEF OneUnder

\* What a step does to the tenants and their members.
LEMMA TenantChanges ==
  ASSUME Typed, NEW c \in Calls, RegistryStep(c)
  PROVE  LET r == call[c] IN
         \/ UNCHANGED <<tenant, membership>> /\ ~SetFourEyes(c)
         \/ /\ CreateTenant(c) /\ r.tenant \in Tenants /\ ~tenant[r.tenant].exists
            /\ tenant'[r.tenant] = NewTenant
            /\ \A t \in Tenants \ {r.tenant} : tenant'[t] = tenant[t] /\ membership'[t] = membership[t]
         \/ /\ SetFourEyes(c) /\ r.tenant \in Tenants
            /\ tenant'[r.tenant].exists = tenant[r.tenant].exists
            /\ tenant'[r.tenant].fourEyes = r.flag
            /\ \A t \in Tenants \ {r.tenant} : tenant'[t] = tenant[t]
            /\ UNCHANGED membership
         \/ /\ SetRole(c) /\ Goto(c, "recordChange")
            /\ r.tenant \in Tenants /\ r.target \in Users /\ UNCHANGED tenant
            /\ membership'[r.tenant][r.target] = r.role
            /\ \A t \in Tenants, u \in Users :
                 t # r.tenant \/ u # r.target => membership'[t][u] = membership[t][u]
  <1> DEFINE r == call[c]
  <1>1. /\ CallsTyped /\ r \in CallRecord
        /\ tenant \in [Tenants -> [exists : BOOLEAN, fourEyes : BOOLEAN]]
        /\ membership \in [Tenants -> [Users -> Roles]]
    BY DEF Typed, TypeOK, CallsTyped
  <1>2. CASE CreateTenant(c)
    <2>1. r.tenant \in Tenants /\ r.user \in Users
      BY <1>1, <1>2, Named DEF CreateTenant
    <2>2. CASE tenant[r.tenant].exists
      <3>1. UNCHANGED <<tenant, membership>>
        BY <1>2, <2>2 DEF CreateTenant
      <3>2. ~SetFourEyes(c)
        BY <1>2 DEF CreateTenant, SetFourEyes, At
      <3> QED
        BY <3>1, <3>2
    <2>3. CASE ~tenant[r.tenant].exists
      <3>1. /\ tenant' = [tenant EXCEPT ![r.tenant] = NewTenant]
            /\ membership' = [membership EXCEPT ![r.tenant][r.user] = "tenant_admin"]
        BY <1>2, <2>3 DEF CreateTenant
      <3> HIDE DEF r
      <3>2. /\ tenant'[r.tenant] = NewTenant
            /\ \A t \in Tenants \ {r.tenant} : tenant'[t] = tenant[t]
        BY <1>1, <2>1, <3>1
      <3>3. \A t \in Tenants \ {r.tenant} : membership'[t] = membership[t]
        BY <1>1, <2>1, <3>1
      <3> QED
        BY <1>2, <2>1, <2>3, <3>2, <3>3 DEF r
    <2> QED
      BY <2>2, <2>3
  <1>3. CASE SetFourEyes(c)
    <2>1. /\ r.tenant \in Tenants /\ UNCHANGED membership
          /\ tenant' = [tenant EXCEPT ![r.tenant].fourEyes = r.flag]
      BY <1>1, <1>3, Named DEF SetFourEyes
    <2>2. /\ tenant'[r.tenant].exists = tenant[r.tenant].exists
          /\ tenant'[r.tenant].fourEyes = r.flag
          /\ \A t \in Tenants \ {r.tenant} : tenant'[t] = tenant[t]
      <3> HIDE DEF r
      <3> QED
        BY <1>1, <2>1
    <2> QED
      BY <1>3, <2>1, <2>2
  <1>4. CASE SetRole(c)
    <2>1. r.tenant \in Tenants /\ r.target \in Users /\ r.role \in Roles /\ UNCHANGED tenant
      BY <1>1, <1>4, Named DEF SetRole, CallRecord
    <2>2. CASE UNCHANGED membership
      <3>1. ~SetFourEyes(c)
        BY <1>4 DEF SetRole, SetFourEyes, At
      <3> QED
        BY <2>1, <2>2, <3>1
    <2>3. CASE membership' = [membership EXCEPT ![r.tenant][r.target] = r.role] /\ Goto(c, "recordChange")
      <3>1. /\ membership'[r.tenant][r.target] = r.role
            /\ \A t \in Tenants, u \in Users :
                 t # r.tenant \/ u # r.target => membership'[t][u] = membership[t][u]
        <4> HIDE DEF r
        <4> QED
          BY <1>1, <2>1, <2>3, NestedExcept
      <3> QED
        BY <1>4, <2>1, <2>3, <3>1
    <2> QED
      BY <1>4, <2>2, <2>3 DEF SetRole
  <1>5. CASE ~CreateTenant(c) /\ ~SetFourEyes(c) /\ ~SetRole(c)
    BY <1>5, Footprint
  <1> QED
    BY <1>2, <1>3, <1>4, <1>5

\* What a step adds to the trail.
LEMMA EntryAdded ==
  ASSUME Typed, NEW c \in Calls, RegistryStep(c)
  PROVE  LET r == call[c]
             n == Len(audit) + 1
         IN
         \/ audit' = audit /\ ~RecordChange(c)
         \/ /\ RecordChange(c) /\ Len(audit') = n
            /\ audit'[n].action = r.op /\ audit'[n].tenant = r.tenant
            /\ audit'[n].on = r.target /\ audit'[n].role = r.role
            /\ audit'[n].before = r.seen /\ audit'[n].after = r.flag
            /\ UNCHANGED <<tenant, membership>>
         \/ /\ ~RecordChange(c) /\ Len(audit') = n
            /\ audit'[n].action \notin MemberOps \cup {"settings"}
            /\ UNCHANGED <<tenant, membership>>
  <1> DEFINE r == call[c]
             n == Len(audit) + 1
  <1>1. CASE RecordChange(c)
    <2> DEFINE e == [action |-> r.op, tenant |-> r.tenant, by |-> r.user, on |-> r.target,
                     role |-> r.role, before |-> r.seen, after |-> r.flag,
                     version |-> r.version]
    <2>1. audit' = Append(audit, e) /\ UNCHANGED <<tenant, membership>>
      BY <1>1 DEF RecordChange, Record
    <2>2. Len(audit') = n /\ audit'[n] = e
      BY <2>1, TrailGrows
    <2>3. /\ e.action = r.op /\ e.tenant = r.tenant /\ e.on = r.target
          /\ e.role = r.role /\ e.before = r.seen /\ e.after = r.flag
      OBVIOUS
    <2> HIDE DEF e, n, r
    <2> QED
      BY <1>1, <2>1, <2>2, <2>3 DEF n, r
  <1>2. ASSUME NEW e, audit' = Append(audit, e), e.action \notin MemberOps \cup {"settings"}
        PROVE  Len(audit') = n /\ audit'[n].action \notin MemberOps \cup {"settings"}
    BY <1>2, TrailGrows
  <1>3. CASE RecordConnectionEvent(c)
    <2>1. r.op \in {"connect", "disconnect"}
      BY <1>3 DEF RecordConnectionEvent, At, Typed, CallsTyped, Fits
    <2>2. PICK t \in r.todo :
            audit' = Append(audit, [action |-> r.op, tenant |-> t, by |-> r.user,
                       on |-> Null, role |-> "none", before |-> FALSE, after |-> FALSE,
                       version |-> "v11"])
      BY <1>3 DEF RecordConnectionEvent, Record
    <2>3. ~RecordChange(c) /\ UNCHANGED <<tenant, membership>>
      BY <1>3 DEF RecordChange, RecordConnectionEvent, At
    <2> QED
      BY <1>2, <2>1, <2>2, <2>3 DEF MemberOps
  <1>4. CASE RecordProposed(c) \/ RecordValidated(c) \/ RecordApplied(c) \/ RecordFailed(c)
    <2>1. PICK a \in {"propose", "validate", "applied", "failed"} : Record(Entry(c, a))
      BY <1>4 DEF RecordProposed, RecordValidated, RecordApplied, RecordFailed
    <2>2. Entry(c, a).action \notin MemberOps \cup {"settings"}
      BY DEF Entry, MemberOps
    <2>3. ~RecordChange(c) /\ UNCHANGED <<tenant, membership>>
      BY <1>4 DEF RecordChange, RecordProposed, RecordValidated, RecordApplied, RecordFailed, At
    <2> QED
      BY <1>2, <2>1, <2>2, <2>3 DEF Record
  <1>5. CASE ~Records(c)
    BY <1>5, TrailGrows DEF Records
  <1> QED
    BY <1>1, <1>3, <1>4, <1>5 DEF Records

\* Which entries are the last ones after a step.
LEMMA LastEntries ==
  ASSUME Typed, NEW c \in Calls, RegistryStep(c), NEW i \in 1 .. Len(audit')
  PROVE  /\ i \in 1 .. Len(audit) \/ (i = Len(audit) + 1 /\ Len(audit') = i)
         /\ i \in 1 .. Len(audit) =>
              /\ audit'[i] = audit[i]
              /\ \A t : LastSettings(audit', i, t) => LastSettings(audit, i, t)
              /\ \A t, u : LastMember(audit', i, t, u) => LastMember(audit, i, t, u)
              /\ Len(audit') = Len(audit) + 1 =>
                   /\ \A t : LastSettings(audit', i, t) => ~OfSettings(audit'[Len(audit')], t)
                   /\ \A t, u : LastMember(audit', i, t, u) => ~OfMember(audit'[Len(audit')], t, u)
  <1>1. /\ Len(audit) \in Nat /\ Len(audit') \in {Len(audit), Len(audit) + 1}
        /\ \A k \in 1 .. Len(audit) : audit'[k] = audit[k]
    BY TrailGrows
  <1>2. i \in 1 .. Len(audit) \/ (i = Len(audit) + 1 /\ Len(audit') = i)
    BY <1>1
  <1>3. ASSUME i \in 1 .. Len(audit), NEW t, LastSettings(audit', i, t)
        PROVE  /\ LastSettings(audit, i, t)
               /\ Len(audit') = Len(audit) + 1 => ~OfSettings(audit'[Len(audit')], t)
    BY <1>1, <1>3 DEF LastSettings
  <1>4. ASSUME i \in 1 .. Len(audit), NEW t, NEW u, LastMember(audit', i, t, u)
        PROVE  /\ LastMember(audit, i, t, u)
               /\ Len(audit') = Len(audit) + 1 => ~OfMember(audit'[Len(audit')], t, u)
    BY <1>1, <1>4 DEF LastMember
  <1> QED
    BY <1>1, <1>2, <1>3, <1>4

LEMMA StepTenantsThere ==
  ASSUME Typed, TenantsThere, NEW c \in Calls, RegistryStep(c)
  PROVE  TenantsThere'
  <1> DEFINE x == call[c]
             y == call'[c]
             Named4(r) == r.pc \in {"setRole", "recordChange"} \cup SettingsSteps \cup KeySteps
  <1>1. /\ membership \in [Tenants -> [Users -> Roles]]
        /\ \A d \in Calls : Fits(call[d]) /\ Fits(call'[d])
    BY OneRecordChanges DEF Typed, TypeOK, CallsTyped
  <1>2. NewTenant.exists
    BY DEF NewTenant
  <1>3. ASSUME NEW t \in Tenants, tenant[t].exists PROVE tenant'[t].exists
    BY <1>2, <1>3, TenantChanges
  <1>4. ASSUME NEW t \in Tenants, NEW u \in Users, membership'[t][u] # "none"
        PROVE  tenant'[t].exists
    <2>1. CASE membership'[t][u] = membership[t][u]
      BY <1>3, <1>4, <2>1 DEF TenantsThere
    <2>2. CASE membership'[t][u] # membership[t][u]
      <3>1. \/ CreateTenant(c) /\ t = x.tenant /\ tenant'[x.tenant] = NewTenant
            \/ SetRole(c) /\ t = x.tenant
        BY <2>2, TenantChanges
      <3>2. SetRole(c) => tenant[x.tenant].exists
        BY DEF SetRole, At, TenantsThere
      <3> QED
        BY <1>2, <1>3, <3>1, <3>2
    <2> QED
      BY <2>1, <2>2
  <1>5. ASSUME NEW d \in Calls, Named4(call'[d]) PROVE tenant'[call'[d].tenant].exists
    <2>1. call'[d].tenant \in Tenants
      BY <1>1, <1>5 DEF Fits, TenantSteps, SettingsSteps, KeySteps
    <2>2. CASE d # c
      BY <1>3, <1>5, <2>1, <2>2, OneRecordChanges DEF TenantsThere
    <2>3. CASE d = c /\ Starts(c) /\ Fresh(y)
      <3>1. y.pc \in {"setRole", "readBefore", "readPrevious"}
        BY <1>5, <2>3 DEF Fresh, SettingsSteps, KeySteps
      <3>2. y.user \in Users
        BY <1>1, <3>1 DEF Fits, Ended
      <3>3. AtLeast(membership[y.tenant][y.user], "tenant_admin")
        BY <2>3, <3>1 DEF Fresh
      <3>4. membership[y.tenant][y.user] # "none"
        BY <1>1, <2>1, <2>3, <3>2, <3>3, RoleOrder
      <3> QED
        BY <1>3, <2>1, <2>3, <3>2, <3>4 DEF TenantsThere
    <2>4. CASE d = c /\ Follows(c, y)
      <3>1. Named4(x) /\ y.tenant = x.tenant
        BY <1>5, <2>4 DEF Follows, Leads, Same, SettingsSteps, KeySteps
      <3> QED
        BY <1>3, <2>1, <2>4, <3>1 DEF TenantsThere
    <2>5. CASE d = c /\ (y = Refused \/ y = CutOff)
      BY <1>5, <2>5 DEF Refused, CutOff, Idle, SettingsSteps, KeySteps
    <2> QED
      BY <2>2, <2>3, <2>4, <2>5, OneRecordChanges
  <1>6. ASSUME NEW i \in 1 .. Len(audit'), audit'[i].action \in MemberOps \cup {"settings"}
        PROVE  tenant'[audit'[i].tenant].exists
    <2>1. CASE i \in 1 .. Len(audit)
      <3>0. audit'[i] = audit[i] /\ audit[i] \in Entries
        BY <2>1, TrailGrows
      <3>1. audit'[i] = audit[i] /\ audit[i].tenant \in Tenants
        BY <3>0 DEF Entries
      <3> QED
        BY <1>3, <1>6, <2>1, <3>1 DEF TenantsThere
    <2>2. CASE i \notin 1 .. Len(audit)
      <3>1. i = Len(audit) + 1 /\ Len(audit') = i
        BY <2>2, LastEntries
      <3>2. Len(audit) \in Nat /\ audit' # audit
        BY <3>1, TrailGrows
      <3>3. RecordChange(c) /\ audit'[i].tenant = x.tenant
        BY <1>6, <3>1, <3>2, EntryAdded
      <3>4. x.pc = "recordChange"
        BY <3>3 DEF RecordChange, At
      <3>5. tenant[x.tenant].exists /\ x.tenant \in Tenants
        BY <1>1, <3>4 DEF TenantsThere, Fits, TenantSteps
      <3> QED
        BY <1>3, <3>3, <3>5
    <2> QED
      BY <2>1, <2>2
  <1> QED
    BY <1>4, <1>5, <1>6 DEF TenantsThere

\* Nobody but the request that steps is changing anything.
LEMMA AloneStep ==
  ASSUME Typed, OneUnder, NEW c \in Calls, RegistryStep(c), ~crossed', cuts' = 0
  PROVE  /\ ~crossed /\ cuts = 0 /\ ~Cut(c)
         /\ \A d \in Calls : d # c =>
              call'[d] = call[d] /\ call[d].pc \notin {"setFourEyes", "recordChange"}
  <1>1. cuts \in Nat
    BY DEF Typed, TypeOK
  <1>2. cuts' = cuts \/ cuts' = cuts + 1
    BY Footprint DEF Cut, ReadDefaultsFail
  <1>3. cuts = 0 /\ ~Cut(c)
    BY <1>1, <1>2 DEF Cut
  <1>4. ~crossed /\ \A d \in Calls : d # c => call'[d] = call[d] /\ ~Under(d)
    BY StepsAlone
  <1> QED
    BY <1>3, <1>4 DEF Under, Ended

\* What a request that is alone in changing something steps from and to.
LEMMA PlainStep ==
  ASSUME Typed, NEW c \in Calls, RegistryStep(c), ~Cut(c)
  PROVE  LET x == call[c]
             y == call'[c]
         IN
         \/ ReadBefore(c) /\ y.pc = "setFourEyes" /\ y.tenant = x.tenant
              /\ y.seen = tenant[x.tenant].fourEyes
         \/ /\ SetFourEyes(c) \/ (SetRole(c) /\ Goto(c, "recordChange"))
            /\ y.pc = "recordChange" /\ Same(y, x) /\ y.seen = x.seen
         \/ RecordChange(c) /\ y.pc = "ok"
         \/ /\ x.pc \notin {"setFourEyes", "recordChange"}
            /\ ~(SetRole(c) /\ Goto(c, "recordChange"))
            /\ y.pc # "setFourEyes"
            /\ y.pc = "recordChange" => y.op = "key"
  <1> DEFINE x == call[c]
             y == call'[c]
  <1>1. CallsTyped /\ x \in CallRecord /\ Fits(x) /\ Fits(y)
    BY OneRecordChanges DEF Typed, CallsTyped
  <1>2. CASE x.pc = "readBefore"
    <2>1. ReadBefore(c)
      BY <1>2, ActsAt DEF At
    <2>2. call' = [call EXCEPT ![c].seen = tenant[x.tenant].fourEyes, ![c].pc = "setFourEyes"]
      BY <2>1 DEF ReadBefore
    <2>3. y.pc = "setFourEyes" /\ y.tenant = x.tenant /\ y.seen = tenant[x.tenant].fourEyes
      BY <1>1, <2>2 DEF CallsTyped, CallRecord
    <2> QED
      BY <2>1, <2>3
  <1>3. CASE x.pc \in {"setFourEyes", "recordChange"} \/ (SetRole(c) /\ Goto(c, "recordChange"))
    <2>1. \/ x.pc = "setFourEyes" /\ SetFourEyes(c) /\ Goto(c, "recordChange")
          \/ x.pc = "recordChange" /\ RecordChange(c) /\ Goto(c, "ok")
          \/ SetRole(c) /\ Goto(c, "recordChange")
      BY <1>3, ActsAt DEF At, SetFourEyes, RecordChange
    <2>2. Goto(c, "recordChange") => y.pc = "recordChange" /\ Same(y, x) /\ y.seen = x.seen
      BY <1>1, GotoBecomes DEF Same, Pcs, TenantSteps
    <2>3. Goto(c, "ok") => y.pc = "ok"
      BY <1>1, GotoBecomes DEF Pcs
    <2> QED
      BY <2>1, <2>2, <2>3
  <1>4. CASE /\ x.pc \notin {"readBefore", "setFourEyes", "recordChange"}
             /\ ~(SetRole(c) /\ Goto(c, "recordChange"))
    <2>1. ASSUME x.pc = "setRole" PROVE y.pc = "refused"
      <3>1. Refuse(c)
        BY <1>4, <2>1, ActsAt DEF At, SetRole
      <3> QED
        BY <1>1, <3>1 DEF Refuse, Refused, Idle, CallsTyped
    <2>2. ASSUME Follows(c, y), y.pc \in {"setFourEyes", "recordChange"}
          PROVE  y.pc = "recordChange" /\ y.op = "key"
      <3>1. y.pc = "recordChange" /\ x.pc = "upsertConfig" /\ y.op = x.op
        BY <1>4, <2>1, <2>2 DEF Follows, Leads, Same
      <3>2. x.op = "key"
        BY <1>1, <3>1 DEF Fits, KeySteps
      <3> QED
        BY <3>1, <3>2
    <2>3. CASE Follows(c, y)
      BY <1>4, <2>2, <2>3
    <2>4. CASE Fresh(y) \/ y = Refused
      BY <1>4, <2>4 DEF Fresh, Refused, Idle
    <2> QED
      BY <2>3, <2>4, OneRecordChanges
  <1> QED
    BY <1>2, <1>3, <1>4

LEMMA StepSettingsTold ==
  ASSUME Typed, OneUnder, TenantsThere, SettingsTold, SettingsTrail,
         NEW c \in Calls, RegistryStep(c)
  PROVE  SettingsTold' /\ SettingsTrail'
  <1> DEFINE x == call[c]
             y == call'[c]
             n == Len(audit) + 1
  <1> SUFFICES ASSUME ~crossed', cuts' = 0
               PROVE  SettingsTold' /\ SettingsTrail'
    BY DEF SettingsTold, SettingsTrail
  <1>1. /\ ~crossed /\ cuts = 0 /\ ~Cut(c)
        /\ \A d \in Calls : d # c =>
             call'[d] = call[d] /\ call[d].pc \notin {"setFourEyes", "recordChange"}
    BY AloneStep
  <1>2. CallsTyped /\ Fits(x) /\ Fits(y) /\ x \in CallRecord
    BY OneRecordChanges DEF Typed, CallsTyped
  <1>3. /\ x.pc = "setFourEyes" => x.seen = tenant[x.tenant].fourEyes
        /\ x.pc = "recordChange" /\ x.op = "settings" => x.flag = tenant[x.tenant].fourEyes
    BY <1>1 DEF SettingsTold, At
  <1>4. \A t \in Tenants : \A i \in 1 .. Len(audit) : LastSettings(audit, i, t) =>
          /\ Changed(x, t) => audit[i].after = x.seen
          /\ ~Changed(x, t) => audit[i].after = tenant[t].fourEyes
    BY <1>1 DEF SettingsTold, Changed
  <1>6. SettingsTrail'
    <2> SUFFICES ASSUME NEW t \in Tenants, NEW j \in 1 .. Len(audit'), NEW i \in 1 .. j - 1,
                        OfSettings(audit'[i], t), OfSettings(audit'[j], t),
                        \A k \in i + 1 .. j - 1 : ~OfSettings(audit'[k], t)
                 PROVE  audit'[i].after = audit'[j].before
      BY DEF SettingsTrail, About, OfSettings
    <2>1. /\ Len(audit) \in Nat /\ Len(audit') \in Nat
          /\ \A k \in 1 .. Len(audit) : audit'[k] = audit[k]
      BY TrailGrows
    <2>2. CASE j \in 1 .. Len(audit)
      <3>1. /\ i \in 1 .. Len(audit)
            /\ \A k \in i + 1 .. j - 1 : k \in 1 .. Len(audit)
        BY <2>1, <2>2
      <3>2. /\ About(i, t, {"settings"}) /\ About(j, t, {"settings"})
            /\ \A k \in i + 1 .. j - 1 : ~About(k, t, {"settings"})
        BY <2>1, <2>2, <3>1 DEF About, OfSettings
      <3>3. audit[i].after = audit[j].before
        BY <1>1, <2>2, <3>2 DEF SettingsTrail
      <3> QED
        BY <2>1, <2>2, <3>1, <3>3
    <2>3. CASE j \notin 1 .. Len(audit)
      <3>1. j = n /\ Len(audit') = n
        BY <2>3, LastEntries
      <3>2. audit' # audit
        BY <2>1, <3>1
      <3>3. RecordChange(c) /\ Changed(x, t) /\ audit'[j].before = x.seen
        BY <3>1, <3>2, EntryAdded DEF OfSettings, Changed, RecordChange, At
      <3>4. i \in 1 .. Len(audit) /\ \A k \in i + 1 .. Len(audit) : k \in i + 1 .. j - 1
        BY <2>1, <3>1
      <3>5. LastSettings(audit, i, t)
        BY <2>1, <3>4 DEF LastSettings
      <3> QED
        BY <1>4, <2>1, <3>3, <3>4, <3>5
    <2> QED
      BY <2>2, <2>3
  <1> DEFINE Told == \A t \in Tenants : \A i \in 1 .. Len(audit') : LastSettings(audit', i, t) =>
                       /\ Changed(y, t) => audit'[i].after = y.seen
                       /\ ~Changed(y, t) => audit'[i].after = tenant'[t].fourEyes
             Fixed == /\ y.pc = "setFourEyes" => y.seen = tenant'[y.tenant].fourEyes
                      /\ y.pc = "recordChange" /\ y.op = "settings"
                           => y.flag = tenant'[y.tenant].fourEyes
  <1>5. SUFFICES Told /\ Fixed
    BY <1>1, <1>6 DEF SettingsTold, Changed, At
  <1>7. ASSUME \A i : i \in 1 .. Len(audit') /\ i \notin 1 .. Len(audit)
                        => audit'[i].action # "settings",
               NEW t \in Tenants, NEW i \in 1 .. Len(audit'), LastSettings(audit', i, t)
        PROVE  /\ i \in 1 .. Len(audit) /\ audit'[i] = audit[i] /\ LastSettings(audit, i, t)
    BY <1>7, LastEntries DEF LastSettings, OfSettings
  <1>8. ~RecordChange(c) => \A i : i \in 1 .. Len(audit') /\ i \notin 1 .. Len(audit)
                                     => audit'[i].action # "settings"
    BY LastEntries, TrailGrows, EntryAdded
  <1>9. CASE ReadBefore(c) /\ y.pc = "setFourEyes" /\ y.tenant = x.tenant
               /\ y.seen = tenant[x.tenant].fourEyes
    <2>1. UNCHANGED tenant /\ ~RecordChange(c) /\ x.pc = "readBefore"
      BY <1>9 DEF ReadBefore, RecordChange, At, tenantVars
    <2>2. Fixed
      BY <1>9, <2>1
    <2>3. Told
      BY <1>4, <1>7, <1>8, <1>9, <2>1 DEF Changed
    <2> QED
      BY <2>2, <2>3
  <1>10. CASE SetFourEyes(c) /\ y.pc = "recordChange" /\ Same(y, x) /\ y.seen = x.seen
    <2>1. /\ x.pc = "setFourEyes" /\ ~RecordChange(c) /\ ~SetRole(c) /\ ~CreateTenant(c)
      BY <1>10 DEF SetFourEyes, RecordChange, SetRole, CreateTenant, At
    <2>2. x.op = "settings"
      BY <1>2, <2>1 DEF Fits, SettingsSteps
    <2>3. /\ tenant'[x.tenant].fourEyes = x.flag
          /\ \A t \in Tenants \ {x.tenant} : tenant'[t] = tenant[t]
      BY <1>10, <2>1, TenantChanges
    <2>4. y.tenant = x.tenant /\ y.flag = x.flag /\ y.op = x.op
      BY <1>10 DEF Same
    <2>5. Fixed
      BY <1>10, <2>3, <2>4
    <2>6. ASSUME NEW t \in Tenants, NEW i \in 1 .. Len(audit'), LastSettings(audit', i, t)
          PROVE  /\ Changed(y, t) => audit'[i].after = y.seen
                 /\ ~Changed(y, t) => audit'[i].after = tenant'[t].fourEyes
      <3>1. audit'[i].after = tenant[t].fourEyes
        BY <1>4, <1>7, <1>8, <2>1, <2>6 DEF Changed
      <3>2. CASE t = x.tenant
        BY <1>3, <1>10, <2>1, <2>2, <2>4, <3>1, <3>2 DEF Changed
      <3>3. CASE t # x.tenant
        BY <2>3, <2>4, <3>1, <3>3 DEF Changed
      <3> QED
        BY <3>2, <3>3
    <2> QED
      BY <2>5, <2>6
  <1>11. CASE SetRole(c) /\ y.pc = "recordChange" /\ Same(y, x) /\ y.seen = x.seen
    <2>1. /\ x.pc = "setRole" /\ ~RecordChange(c) /\ UNCHANGED tenant
      BY <1>11 DEF RecordChange, SetRole, At
    <2>2. y.op # "settings"
      BY <1>2, <1>11, <2>1 DEF Fits, MemberOps, Same
    <2>3. Told
      BY <1>4, <1>7, <1>8, <2>1, <2>2 DEF Changed
    <2> QED
      BY <1>11, <2>2, <2>3
  <1>12. CASE RecordChange(c) /\ y.pc = "ok"
    <2>1. x.pc = "recordChange" /\ UNCHANGED tenant
      BY <1>12 DEF RecordChange, At
    <2>2. /\ Len(audit) \in Nat /\ Len(audit') = n
          /\ audit'[n].action = x.op /\ audit'[n].tenant = x.tenant /\ audit'[n].after = x.flag
      BY <1>12, EntryAdded, TrailGrows
    <2>3. ASSUME NEW t \in Tenants, NEW i \in 1 .. Len(audit'), LastSettings(audit', i, t)
          PROVE  audit'[i].after = tenant[t].fourEyes
      <3>1. CASE i \in 1 .. Len(audit)
        <4>1. /\ audit'[i] = audit[i] /\ LastSettings(audit, i, t)
              /\ ~OfSettings(audit'[n], t)
          BY <2>2, <2>3, <3>1, LastEntries
        <4>2. ~Changed(x, t)
          BY <2>2, <4>1 DEF Changed, OfSettings
        <4> QED
          BY <1>4, <3>1, <4>1, <4>2
      <3>2. CASE i \notin 1 .. Len(audit)
        <4>1. i = n
          BY <3>2, LastEntries
        <4>2. x.op = "settings" /\ x.tenant = t
          BY <2>2, <2>3, <4>1 DEF LastSettings, OfSettings
        <4> QED
          BY <1>3, <2>1, <2>2, <4>1, <4>2
      <3> QED
        BY <3>1, <3>2
    <2>4. Told
      BY <1>12, <2>1, <2>3 DEF Changed
    <2> QED
      BY <1>12, <2>4
  <1>13. CASE /\ x.pc \notin {"setFourEyes", "recordChange"}
              /\ y.pc # "setFourEyes"
              /\ y.pc = "recordChange" => y.op = "key"
    <2>1. ~RecordChange(c) /\ ~SetFourEyes(c)
      BY <1>13 DEF RecordChange, SetFourEyes, At
    <2>2. ASSUME NEW t \in Tenants, NEW i \in 1 .. Len(audit'), LastSettings(audit', i, t)
          PROVE  audit'[i].after = tenant'[t].fourEyes
      <3>1. /\ i \in 1 .. Len(audit) /\ audit'[i] = audit[i] /\ LastSettings(audit, i, t)
        BY <1>7, <1>8, <2>1, <2>2
      <3>2. audit'[i].after = tenant[t].fourEyes
        BY <1>4, <1>13, <3>1 DEF Changed
      <3>3. tenant[t].exists
        BY <3>1 DEF TenantsThere, LastSettings, OfSettings
      <3>4. tenant'[t] = tenant[t]
        BY <2>1, <3>3, TenantChanges
      <3> QED
        BY <3>2, <3>4
    <2>3. Told /\ Fixed
      BY <1>13, <2>2 DEF Changed
    <2> QED
      BY <2>3
  <1> QED
    BY <1>1, <1>9, <1>10, <1>11, <1>12, <1>13, PlainStep

LEMMA StepMembersTold ==
  ASSUME Typed, OneUnder, TenantsThere, MembersTold, NEW c \in Calls, RegistryStep(c)
  PROVE  MembersTold'
  <1> DEFINE x == call[c]
             y == call'[c]
             n == Len(audit) + 1
             Fixed == y.pc = "recordChange" /\ y.op \in MemberOps
                        => membership'[y.tenant][y.target] = y.role
             Told == \A t \in Tenants, u \in Users : \A i \in 1 .. Len(audit') :
                       LastMember(audit', i, t, u) /\ ~ChangedMember(y, t, u)
                         => audit'[i].role = membership'[t][u]
  <1> SUFFICES ASSUME ~crossed', cuts' = 0
               PROVE  MembersTold'
    BY DEF MembersTold
  <1>1. /\ ~crossed /\ cuts = 0 /\ ~Cut(c)
        /\ \A d \in Calls : d # c =>
             call'[d] = call[d] /\ call[d].pc \notin {"setFourEyes", "recordChange"}
    BY AloneStep
  <1>2. CallsTyped /\ Fits(x) /\ Fits(y) /\ x \in CallRecord
    BY OneRecordChanges DEF Typed, CallsTyped
  <1>3. x.pc = "recordChange" /\ x.op \in MemberOps => membership[x.tenant][x.target] = x.role
    BY <1>1 DEF MembersTold, At
  <1>4. \A t \in Tenants, u \in Users : \A i \in 1 .. Len(audit) :
          LastMember(audit, i, t, u) /\ ~ChangedMember(x, t, u) => audit[i].role = membership[t][u]
    BY <1>1 DEF MembersTold, ChangedMember
  <1>5. SUFFICES Told /\ Fixed
    BY <1>1 DEF MembersTold, ChangedMember, At
  <1>6. ASSUME \A i : i \in 1 .. Len(audit') /\ i \notin 1 .. Len(audit)
                        => audit'[i].action \notin MemberOps,
               NEW t \in Tenants, NEW u \in Users, NEW i \in 1 .. Len(audit'),
               LastMember(audit', i, t, u)
        PROVE  /\ i \in 1 .. Len(audit) /\ audit'[i] = audit[i] /\ LastMember(audit, i, t, u)
    BY <1>6, LastEntries DEF LastMember, OfMember
  <1>7. ~RecordChange(c) => \A i : i \in 1 .. Len(audit') /\ i \notin 1 .. Len(audit)
                                     => audit'[i].action \notin MemberOps
    BY LastEntries, TrailGrows, EntryAdded
  <1>8. CASE ReadBefore(c) /\ y.pc = "setFourEyes"
    <2>1. UNCHANGED membership /\ ~RecordChange(c) /\ x.pc = "readBefore"
      BY <1>8 DEF ReadBefore, RecordChange, At, tenantVars
    <2>2. Told
      BY <1>4, <1>6, <1>7, <2>1 DEF ChangedMember
    <2> QED
      BY <1>8, <2>2
  <1>9. CASE SetFourEyes(c) /\ Same(y, x)
    <2>1. /\ UNCHANGED membership /\ ~RecordChange(c) /\ x.pc = "setFourEyes"
      BY <1>9 DEF SetFourEyes, RecordChange, At
    <2>2. y.op \notin MemberOps
      BY <1>2, <1>9, <2>1 DEF Fits, SettingsSteps, MemberOps, Same
    <2>3. Told
      BY <1>4, <1>6, <1>7, <2>1, <2>2 DEF ChangedMember
    <2> QED
      BY <2>2, <2>3
  <1>10. CASE SetRole(c) /\ Goto(c, "recordChange") /\ y.pc = "recordChange" /\ Same(y, x)
    <2>1. x.pc = "setRole" /\ ~RecordChange(c) /\ ~SetFourEyes(c) /\ ~CreateTenant(c)
      BY <1>10 DEF SetRole, RecordChange, SetFourEyes, CreateTenant, At
    <2>2. /\ x.op \in MemberOps
          /\ y.op = x.op /\ y.tenant = x.tenant /\ y.target = x.target /\ y.role = x.role
      BY <1>2, <1>10, <2>1 DEF Fits, Same
    <2>3. /\ membership'[x.tenant][x.target] = x.role
          /\ \A t \in Tenants, u \in Users :
               t # x.tenant \/ u # x.target => membership'[t][u] = membership[t][u]
      <3>1. ~Refuse(c)
        BY <1>2, <1>10 DEF Refuse, Refused, Idle, CallsTyped
      <3>2. membership' = [membership EXCEPT ![x.tenant][x.target] = x.role]
        BY <1>10, <3>1 DEF SetRole
      <3>3. /\ membership \in [Tenants -> [Users -> Roles]] /\ x.role \in Roles
            /\ x.tenant \in Tenants /\ x.target \in Users
        BY <1>2, <2>1, Named DEF Typed, TypeOK, At, CallRecord
      <3> HIDE DEF x
      <3> QED
        BY <3>2, <3>3, NestedExcept
    <2>4. Fixed
      BY <2>2, <2>3
    <2>5. ASSUME NEW t \in Tenants, NEW u \in Users, NEW i \in 1 .. Len(audit'),
                 LastMember(audit', i, t, u), ~ChangedMember(y, t, u)
          PROVE  audit'[i].role = membership'[t][u]
      <3>1. t # x.tenant \/ u # x.target
        BY <1>10, <2>2, <2>5 DEF ChangedMember
      <3>2. ~ChangedMember(x, t, u)
        BY <2>1 DEF ChangedMember
      <3> QED
        BY <1>4, <1>6, <1>7, <2>1, <2>3, <2>5, <3>1, <3>2
    <2> QED
      BY <2>4, <2>5
  <1>11. CASE RecordChange(c) /\ y.pc = "ok"
    <2>1. x.pc = "recordChange" /\ UNCHANGED membership
      BY <1>11 DEF RecordChange, At
    <2>2. /\ Len(audit) \in Nat /\ Len(audit') = n
          /\ audit'[n].action = x.op /\ audit'[n].tenant = x.tenant
          /\ audit'[n].on = x.target /\ audit'[n].role = x.role
      BY <1>11, EntryAdded, TrailGrows
    <2>3. ASSUME NEW t \in Tenants, NEW u \in Users, NEW i \in 1 .. Len(audit'),
                 LastMember(audit', i, t, u)
          PROVE  audit'[i].role = membership[t][u]
      <3>1. CASE i \in 1 .. Len(audit)
        <4>1. /\ audit'[i] = audit[i] /\ LastMember(audit, i, t, u)
              /\ ~OfMember(audit'[n], t, u)
          BY <2>2, <2>3, <3>1, LastEntries
        <4>2. ~ChangedMember(x, t, u)
          BY <2>2, <4>1 DEF ChangedMember, OfMember
        <4> QED
          BY <1>4, <3>1, <4>1, <4>2
      <3>2. CASE i \notin 1 .. Len(audit)
        <4>1. i = n
          BY <3>2, LastEntries
        <4>2. x.op \in MemberOps /\ x.tenant = t /\ x.target = u
          BY <2>2, <2>3, <4>1 DEF LastMember, OfMember
        <4> QED
          BY <1>3, <2>1, <2>2, <4>1, <4>2
      <3> QED
        BY <3>1, <3>2
    <2> QED
      BY <1>11, <2>1, <2>3
  <1>12. CASE /\ x.pc \notin {"setFourEyes", "recordChange"}
              /\ ~(SetRole(c) /\ Goto(c, "recordChange"))
              /\ y.pc = "recordChange" => y.op = "key"
    <2>1. ~RecordChange(c) /\ ~SetFourEyes(c)
      BY <1>12 DEF RecordChange, SetFourEyes, At
    <2>2. ASSUME NEW t \in Tenants, NEW u \in Users, NEW i \in 1 .. Len(audit'),
                 LastMember(audit', i, t, u)
          PROVE  audit'[i].role = membership'[t][u]
      <3>1. /\ i \in 1 .. Len(audit) /\ audit'[i] = audit[i] /\ LastMember(audit, i, t, u)
        BY <1>6, <1>7, <2>1, <2>2
      <3>2. audit[i].role = membership[t][u]
        BY <1>4, <1>12, <3>1 DEF ChangedMember
      <3>3. tenant[t].exists
        BY <3>1 DEF TenantsThere, LastMember, OfMember
      <3>4. membership'[t] = membership[t]
        BY <1>12, <2>1, <3>3, TenantChanges
      <3> QED
        BY <3>1, <3>2, <3>4
    <2>3. Told /\ Fixed
      BY <1>12, <2>2 DEF MemberOps
    <2> QED
      BY <2>3
  <1> QED
    BY <1>1, <1>8, <1>9, <1>10, <1>11, <1>12, PlainStep

\* The trail is true, for any number of requests made one after the other and
\* not cut off: each entry about a tenant's settings starts from what the one
\* before it left, and when no request is under way the last entry about the
\* settings tells what they are, and the last one about a member their role.
THEOREM TheTrailIsTrue == Spec => []TrailIsTrue
  <1> DEFINE Inv == OneUnder /\ TenantsThere /\ SettingsTold /\ MembersTold /\ SettingsTrail
  <1>1. Typed /\ Inv /\ [Next]_vars => Inv'
    <2> SUFFICES ASSUME Typed, Inv, [Next]_vars PROVE Inv'
      OBVIOUS
    <2>1. CASE UNCHANGED vars
      BY <2>1 DEF vars, tenantVars, connectionVars, OneUnder, Under, TenantsThere,
         SettingsTold, MembersTold, SettingsTrail, About, At
    <2>2. CASE Next
      <3>1. PICK c \in Calls : RegistryStep(c)
        BY <2>2 DEF Next
      <3>2. OneUnder'
        BY <3>1, StepsAlone DEF OneUnder
      <3> QED
        BY <3>1, <3>2, StepTenantsThere, StepSettingsTold, StepMembersTold
    <2> QED
      BY <2>1, <2>2
  <1>2. MembersTold /\ SettingsTold => TrailTellsPresent
    <2> SUFFICES ASSUME MembersTold, SettingsTold, ~crossed, cuts = 0, Quiet,
                        NEW t \in Tenants, NEW i \in 1 .. Len(audit)
                 PROVE  /\ LastSettings(audit, i, t) => audit[i].after = tenant[t].fourEyes
                        /\ \A u \in Users : LastMember(audit, i, t, u) => audit[i].role = membership[t][u]
      BY DEF TrailTellsPresent, About, MemberOps, LastMember, OfMember, LastSettings, OfSettings
    <2>1. ASSUME NEW u \in Users, NEW c \in Calls
          PROVE  ~ChangedMember(call[c], t, u)
      BY DEF Quiet, Under, Ended, ChangedMember
    <2>2. ASSUME NEW c \in Calls PROVE ~Changed(call[c], t)
      BY DEF Quiet, Under, Ended, Changed
    <2> QED
      BY <2>1, <2>2 DEF MembersTold, SettingsTold
  <1>3. Inv => TrailIsTrue
    BY <1>2 DEF TrailIsTrue
  <1>4. Init => Inv
    BY InitTrail
  <1> QED
    BY <1>1, <1>3, <1>4, TypeCorrect, PTL DEF Spec

=============================================================================
