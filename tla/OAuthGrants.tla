---------------------------- MODULE OAuthGrants ----------------------------
(***************************************************************************)
(* How an MCP client gets its access to a tenant (mcp/oauthService.ts,     *)
(* mcp/oauthRoutes.ts), over the two ways to sign in of Accounts and       *)
(* OidcSignIn: selection of a connection, authorization code, tokens.      *)
(* One client, one organisation and one environment; a redirect address is *)
(* "here", the one requests name, or "elsewhere".                          *)
(***************************************************************************)
EXTENDS OidcSignIn

CONSTANT Tenant  \* the organisation

ASSUME TenantAssumption == Tenant # Null

VARIABLES client,     \* oauth_clients: the registered redirect address
          selection,  \* selection tokens (signed, not stored): their user
          code,       \* oauth_authorization_codes
          grant,      \* oauth_refresh_tokens
          access,     \* access tokens
          asked,      \* the selection a request has submitted
          member, config  \* memberships, ptv_adapter_configs

grantVars == <<client, selection, code, grant, access, asked, member, config>>
vars == <<accountVars, oidcVars, grantVars>>

Versions  == {"v11", "v12"}
Configs   == {"v11 read", "v11 write", "v12 read"}
Reads(v)  == IF v = "v11" THEN "v11 read" ELSE "v12 read"

\* What a connection may do (type Grant); user Null stands for no row.
Scope    == [user : Emails \cup {Null}, tenant : {Tenant, Null}, read : Versions,
             write : {"v11", Null}]
NoScope  == [user |-> Null, tenant |-> Null, read |-> "v11", write |-> Null]

GrantsTypeOK ==
  /\ client \in {"none", "here", "elsewhere"}
  /\ selection \in [Names -> Emails \cup {Null}]
  /\ code \in [Names -> [scope : Scope, state : {"none", "open", "expired", "used"}]]
  /\ grant \in [Names -> [scope : Scope, from : Names \cup {Null}]]
  /\ access \in [Calls -> Scope] /\ asked \in [Calls -> Scope]
  /\ member \subseteq Emails /\ config \subseteq Configs

AllowedWithoutTenant(read, write) == read = "v11" /\ write = Null
Allowed(scope) == scope.tenant = Null => AllowedWithoutTenant(scope.read, scope.write)

Refused(c) == Moves(c, "refused") /\ UNCHANGED <<oidcVars, grantVars>>
On(c, pc)  == Moves(c, pc) /\ UNCHANGED <<oidcVars, grantVars>>

ValidClient == client = "here"

-----------------------------------------------------------------------------

\* POST /oauth/register: an upsert of the client's whole row.
RegisterClient(c) ==
  /\ Begin(c, "client", Null, Null, "ok")
  /\ client' \in {"here", "elsewhere"}
  /\ UNCHANGED <<account, session, ticket, events, wrong, ends, caught, oidcVars>>
  /\ UNCHANGED <<selection, code, grant, access, asked, member, config>>

\* A selection token is signed and carries the user; it verifies if one was
\* made.
SelectionFor(c) == call[c].user
Verifies(t)     == selection[t] # Null

\* The page where a signed-in user selects: its token is good for any number
\* of submissions until it runs out.  A single sign-on has its request
\* validated once more; a password sign-in has not.
ConnectionSelectionPage(c) ==
  /\ At(c, "selectionPage")
  /\ call[c].op = "oauth" => ValidClient
  /\ selection' = [selection EXCEPT ![c] = SelectionFor(c)]
  /\ Moves(c, "ok")
  /\ UNCHANGED <<oidcVars, client, code, grant, access, asked, member, config>>

RequestNoLongerValid(c) ==
  /\ At(c, "selectionPage") /\ call[c].op = "oauth" /\ ~ValidClient
  /\ Refused(c)

\* POST /oauth/authorize with a selection.
StartSelect(c) ==
  /\ \E t \in Names, tenant \in {Tenant, Null}, read \in Versions, write \in {"v11", Null} :
       /\ Verifies(t)
       /\ asked' = [asked EXCEPT ![c] =
                       [user |-> selection[t], tenant |-> tenant, read |-> read, write |-> write]]
       /\ Begin(c, "select", selection[t], t,
                CASE tenant = Null /\ AllowedWithoutTenant(read, write) -> "validateClient"
                  [] tenant = Tenant /\ selection[t] \in member ->
                       IF read = "v11" THEN "ensureDefaults" ELSE "checkConfigs"
                  [] OTHER -> "refused")
  /\ UNCHANGED <<account, session, ticket, events, wrong, ends, caught, oidcVars>>
  /\ UNCHANGED <<client, selection, code, grant, access, member, config>>

EnsureV11ReadDefaults(c) ==
  /\ At(c, "ensureDefaults")
  /\ config' = config \cup {"v11 read"}
  /\ Moves(c, "checkConfigs")
  /\ UNCHANGED <<oidcVars, client, selection, code, grant, access, asked, member>>

\* Mutant: only the connection for reads is looked up.
ChecksReads(c) ==
  /\ At(c, "checkConfigs")
  /\ IF Reads(asked[c].read) \in config THEN On(c, "validateClient") ELSE Refused(c)

CheckConfigs(c) ==
  /\ At(c, "checkConfigs")
  /\ IF Reads(asked[c].read) \in config /\ (asked[c].write # Null => "v11 write" \in config)
     THEN On(c, "validateClient")
     ELSE Refused(c)

ValidateClient(c) ==
  /\ At(c, "validateClient")
  /\ IF ValidClient /\ Allowed(asked[c]) THEN On(c, "insertCode") ELSE Refused(c)

CreateAuthorizationCode(c) ==
  /\ At(c, "insertCode")
  /\ code' = [code EXCEPT ![c] = [scope |-> asked[c], state |-> "open"]]
  /\ Moves(c, "ok")
  /\ UNCHANGED <<oidcVars, client, selection, grant, access, asked, member, config>>

-----------------------------------------------------------------------------
(* POST /oauth/token.                                                      *)

\* The access token carries what was granted; nothing stores it.
IssueAccessToken(c, scope) == access' = [access EXCEPT ![c] = scope]

\* `proves`: the client, its address and the verifier fit the code.
StartExchange(c) ==
  /\ \E t \in Names, proves \in BOOLEAN :
       /\ code[t].state # "none"
       /\ Begin(c, "exchange", code[t].scope.user, t,
                IF proves /\ code[t].state = "open" THEN "consumeCode" ELSE "refused")
  /\ UNCHANGED <<account, session, ticket, events, wrong, ends, caught, oidcVars, grantVars>>

\* The update is conditional, but what it changed is not looked at.
ConsumeCode(c) ==
  /\ At(c, "consumeCode")
  /\ code' = [code EXCEPT ![call[c].tok].state = "used"]
  /\ Moves(c, IF Allowed(code[call[c].tok].scope) THEN "insertGrant" ELSE "refused")
  /\ UNCHANGED <<oidcVars, client, selection, grant, access, asked, member, config>>

InsertGrant(c) ==
  LET scope == code[call[c].tok].scope IN
  /\ At(c, "insertGrant")
  /\ grant' = [grant EXCEPT ![c] = [scope |-> scope, from |-> call[c].tok]]
  /\ IssueAccessToken(c, scope)
  /\ Moves(c, "ok")
  /\ UNCHANGED <<oidcVars, client, selection, code, asked, member, config>>

\* A refresh token is not rotated: it serves again and again.
RefreshGrant(c) ==
  /\ \E t \in Names :
       /\ grant[t].scope.user # Null
       /\ Begin(c, "refreshGrant", grant[t].scope.user, t, IF Allowed(grant[t].scope) THEN "ok" ELSE "refused")
       /\ IF Allowed(grant[t].scope) THEN IssueAccessToken(c, grant[t].scope) ELSE UNCHANGED access
  /\ UNCHANGED <<account, session, ticket, events, wrong, ends, caught, oidcVars>>
  /\ UNCHANGED <<client, selection, code, grant, asked, member, config>>

\* The command line (mcp/token.ts): a member's token, for any versions; that
\* they are configured shows when it is used.
MintToken(c) ==
  /\ At(c, "mintToken")
  /\ IF call[c].user \notin member THEN Refused(c)
     ELSE /\ \E read \in Versions :
               IssueAccessToken(c, [user |-> call[c].user, tenant |-> Tenant, read |-> read, write |-> "v11"])
          /\ Moves(c, "ok")
          /\ UNCHANGED <<oidcVars, client, selection, code, grant, asked, member, config>>

\* A code runs out (60 seconds).
ExpireCode ==
  /\ events < MaxEvents /\ events' = events + 1
  /\ \E t \in Names : code[t].state = "open" /\ code' = [code EXCEPT ![t].state = "expired"]
  /\ UNCHANGED <<account, session, ticket, call, crossed, wrong, ends, caught, oidcVars>>
  /\ UNCHANGED <<client, selection, grant, access, asked, member, config>>

\* An administrator removes a member or a configuration.
Administer ==
  /\ events < MaxEvents /\ events' = events + 1
  /\ crossed' = (crossed \/ ~Quiet)
  /\ \/ /\ \E e \in member : member' = member \ {e}
        /\ UNCHANGED config
     \/ /\ \E x \in config : config' = config \ {x}
        /\ UNCHANGED member
  /\ UNCHANGED <<account, session, ticket, call, wrong, ends, caught, oidcVars>>
  /\ UNCHANGED <<client, selection, code, grant, access, asked>>

-----------------------------------------------------------------------------

\* A connection made before, for a user who is a member.
GrantsInit ==
  LET users == {e \in Emails : Registered(e)}
      old   == [t \in Names |-> IF t = Old /\ users # {} THEN CHOOSE e \in users : TRUE ELSE Null]
      scope == [t \in Names |-> IF old[t] = Null THEN NoScope
                                ELSE [NoScope EXCEPT !.user = old[t], !.tenant = Tenant]]
  IN
  /\ client = "here"
  /\ selection = old
  /\ code = [t \in Names |-> [scope |-> scope[t], state |-> IF old[t] = Null THEN "none" ELSE "open"]]
  /\ grant = [t \in Names |-> [scope |-> scope[t], from |-> Null]]
  /\ access = [c \in Calls |-> NoScope] /\ asked = [c \in Calls |-> NoScope]
  /\ member = users /\ config = {"v11 write", "v12 read"}

\* Entry points: the sign-in form of an authorization request, the command
\* line, and the token endpoint.
StartConsent(c) == StartSignIn(c, "consent")
StartCli(c)     == StartSignIn(c, "cli")
TokenRequest(c) == StartExchange(c) \/ RefreshGrant(c)

GrantStep(c) ==
  \/ RegisterClient(c) \/ ConnectionSelectionPage(c) \/ RequestNoLongerValid(c)
  \/ StartSelect(c) \/ EnsureV11ReadDefaults(c) \/ CheckConfigs(c) \/ ValidateClient(c)
  \/ CreateAuthorizationCode(c)
  \/ TokenRequest(c) \/ ConsumeCode(c) \/ InsertGrant(c)
  \/ MintToken(c)

Init == AccountsInit /\ OidcInit /\ GrantsInit

Next ==
  \/ \E c \in Calls :
       \/ (AccountStep(c) \/ StartConsent(c) \/ StartCli(c)) /\ UNCHANGED <<oidcVars, grantVars>>
       \/ OidcStep(c) /\ UNCHANGED grantVars
       \/ GrantStep(c)
  \/ Expire /\ UNCHANGED <<oidcVars, grantVars>>
  \/ DiscoveryEnds /\ UNCHANGED grantVars
  \/ ExpireCode
  \/ Administer

Spec == Init /\ [][Next]_vars

TypeOK == AccountsTypeOK /\ OidcTypeOK /\ GrantsTypeOK

-----------------------------------------------------------------------------
(* Properties.                                                             *)

\* Without an organisation a connection reads published data over v11 and
\* writes nothing, whatever is selected, exchanged or refreshed.
PublicReadsOnly ==
  \A scope \in {code[t].scope : t \in Names} \cup {grant[t].scope : t \in Names}
               \cup {access[c] : c \in Calls} :
    scope.tenant = Null => scope.read = "v11" /\ scope.write = Null

\* As long as requests do not cross, a code is exchanged once.  Two exchanges
\* that cross both get tokens: the conditional update consumes the code once,
\* but neither looks at whose update it was.
CodeServesOnce ==
  ~crossed => \A t, u \in Names : t # u /\ grant[t].from # Null => grant[t].from # grant[u].from

\* What is good for one use is used once: a started sign-in and its code for
\* the web, a session's token, a mailed token, an authorization code.
UsedOnce ==
  /\ SignInStateOnce
  /\ OneSuccessor
  /\ MailedTokenOnce
  /\ CodeServesOnce

\* A code for an organisation is made for a member, over connections the
\* organisation has configured.
ConnectionIsConfigured ==
  \A c \in Calls : code'[c] # code[c] /\ code[c].state = "none" /\ ~crossed'
    => LET scope == code'[c].scope IN
       scope.tenant # Null => /\ scope.user \in member
                              /\ Reads(scope.read) \in config
                              /\ scope.write # Null => "v11 write" \in config

\* A connection never may do more than was selected for it properly.
ConnectionsFit == [][PublicReadsOnly' /\ ConnectionIsConfigured]_vars
=============================================================================
