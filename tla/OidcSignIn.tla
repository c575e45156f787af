----------------------------- MODULE OidcSignIn -----------------------------
(***************************************************************************)
(* Single sign-on over OpenID Connect (oidc/oidcService.ts,                *)
(* oidc/oidcClient.ts, routes/oidc.ts) for one identity of the provider:   *)
(* start, callback, and the exchange of the one-time code for a session.   *)
(* A started sign-in is a ticket of kind "web" or "oauth" (its purpose), a *)
(* finished one of the web a ticket of kind "handoff".                     *)
(***************************************************************************)
EXTENDS Accounts

CONSTANT CreateUsers  \* OIDC_CREATE_USERS

ASSUME CreateUsersAssumption == CreateUsers \in BOOLEAN

VARIABLES linked,    \* oidc_identities: the identity's user
          discovery, \* OidcClient.configuration, a cached promise
          claims     \* what a callback's claims hold: a trusted email, or none

oidcVars == <<linked, discovery, claims>>

OidcTypeOK ==
  /\ linked \in Emails \cup {Null}
  /\ discovery \in {"none", "pending", "ready"}
  /\ claims \in [Calls -> Emails \cup {Null}]

\* Same tables, another statement: everything but the call stays.
Moves(c, pc) == /\ Goto(c, pc)
                /\ UNCHANGED <<account, session, ticket, events, crossed, wrong, ends, caught>>

-----------------------------------------------------------------------------
(* Discovery, shared by the requests of the process.                       *)

\* Where a request goes on once the provider's configuration is there.
Discovered(op) == IF op = "oidcStart" THEN "saveState" ELSE "redeem"

Discover(c) ==
  /\ At(c, "discover")
  /\ discovery' = IF discovery = "none" THEN "pending" ELSE discovery
  /\ Moves(c, IF discovery = "ready" THEN Discovered(call[c].op) ELSE "discovering")
  /\ UNCHANGED <<linked, claims>>

\* All who wait go on, or fail; a failure is dropped from the cache.
DiscoveryEnds ==
  /\ discovery = "pending"
  /\ \E found \in BOOLEAN :
       /\ discovery' = IF found THEN "ready" ELSE "none"
       /\ call' = [c \in Calls |-> IF ~At(c, "discovering") THEN call[c]
                     ELSE [call[c] EXCEPT !.pc = IF found THEN Discovered(call[c].op) ELSE "refused"]]
  /\ UNCHANGED <<account, session, ticket, events, crossed, wrong, ends, caught, linked, claims>>

-----------------------------------------------------------------------------
(* GET /oidc/login.                                                        *)

StartOidcLogin(c) ==
  /\ \E purpose \in {"web", "oauth"} : Begin(c, "oidcStart", Null, purpose, "discover")
  /\ UNCHANGED <<account, session, ticket, events, wrong, ends, caught, oidcVars>>

\* The deletion of events rows is not told apart from their being events.
SaveLoginState(c) ==
  /\ At(c, "saveState")
  /\ Issue(call[c].tok, c, Null) /\ Goto(c, "ok")
  /\ UNCHANGED <<account, session, events, crossed, wrong, ends, caught, oidcVars>>

-----------------------------------------------------------------------------
(* GET /oidc/callback.                                                     *)

\* Mutant: the row is read and left where it is.
LooksUp(kind, t) == UNCHANGED ticket

\* DELETE ... RETURNING takes the row out; only an open one is of use.
Consume(kind, t) == ticket' = [ticket EXCEPT ![kind][t].state = "used"]

\* `same`: the state in the query is the cookie's; `error`: the provider
\* answers with an error, which still uses up the state.
StartCallback(c) ==
  /\ \E purpose \in {"web", "oauth"}, same, error \in BOOLEAN : \E t \in Presented(purpose) :
       /\ Begin(c, purpose, Null, t,
                IF same /\ ~error /\ ticket[purpose][t].state = "open" THEN "discover" ELSE "refused")
       /\ IF same THEN Consume(purpose, t) ELSE UNCHANGED ticket
  /\ UNCHANGED <<account, session, events, wrong, ends, caught, oidcVars>>

\* The provider vouches for an email or names none, or the code is refused.
Redeem(c) ==
  /\ At(c, "redeem")
  /\ \/ \E e \in Emails \cup {Null} : claims' = [claims EXCEPT ![c] = e] /\ Moves(c, "findLinked")
     \/ Moves(c, "refused") /\ UNCHANGED claims
  /\ UNCHANGED <<linked, discovery>>

\* The rest of the call is about user e.
MovesFor(c, e, pc) ==
  /\ call' = [call EXCEPT ![c].user = e, ![c].pc = pc]
  /\ UNCHANGED <<account, session, ticket, events, crossed, wrong, ends, caught, discovery, claims>>

FindLinked(c) ==
  /\ At(c, "findLinked")
  /\ IF linked # Null THEN MovesFor(c, linked, "assertCanSignIn")
     ELSE MovesFor(c, Null, IF claims[c] # Null THEN "findExact" ELSE "refused")
  /\ UNCHANGED linked

FindExact(c) ==
  LET e == claims[c] IN
  /\ At(c, "findExact")
  /\ IF Registered(e) THEN MovesFor(c, e, "link") ELSE MovesFor(c, e, "findAlike")
  /\ UNCHANGED linked

\* An account whose email differs in case counts if it is the only one.
FindAlike(c) ==
  LET alike == {e \in Emails : Registered(e)} IN
  /\ At(c, "findAlike")
  /\ \/ Cardinality(alike) = 1 /\ \E e \in alike : MovesFor(c, e, "link")
     \/ Cardinality(alike) # 1 /\ MovesFor(c, claims[c], IF CreateUsers THEN "createUser" ELSE "refused")
  /\ UNCHANGED linked

CreateUser(c) ==
  LET e == call[c].user IN
  /\ At(c, "createUser")
  /\ IF Registered(e)
     THEN Goto(c, "refused") /\ UNCHANGED account
     ELSE /\ account' = [account EXCEPT ![e] = [NoAccount EXCEPT !.exists = TRUE, !.verified = TRUE]]
          /\ Goto(c, "link")
  /\ UNCHANGED <<session, ticket, events, crossed, wrong, ends, caught, oidcVars>>

\* ON CONFLICT DO NOTHING: the first link stays.
Link(c) ==
  /\ At(c, "link")
  /\ linked' = IF linked = Null THEN call[c].user ELSE linked
  /\ MovesFor(c, call[c].user, "assertCanSignIn")

\* Mutant: the lock is a matter of passwords only.
SignsInLocked(c) ==
  /\ At(c, "assertCanSignIn")
  /\ Moves(c, CASE call[c].op = "web" -> "handOff"
                [] call[c].op = "oauth" -> "selectionPage"
                [] OTHER -> "issueSession")
  /\ UNCHANGED oidcVars

AssertCanSignIn(c) ==
  /\ At(c, "assertCanSignIn")
  /\ Moves(c, IF Locked(call[c].user) THEN "refused"
              ELSE CASE call[c].op = "web" -> "handOff"
                     [] call[c].op = "oauth" -> "selectionPage"
                     [] OTHER -> "issueSession")
  /\ UNCHANGED oidcVars

CreateWebHandoff(c) ==
  /\ At(c, "handOff")
  /\ Issue("handoff", c, call[c].user) /\ Goto(c, "ok")
  /\ UNCHANGED <<account, session, events, crossed, wrong, ends, caught, oidcVars>>

\* POST /oidc/session.
StartOidcSession(c) ==
  /\ \E t \in Presented("handoff") :
       /\ Begin(c, "oidcSession", ticket["handoff"][t].user, t,
                IF ticket["handoff"][t].state = "open" THEN "assertCanSignIn" ELSE "refused")
       /\ Consume("handoff", t)
  /\ UNCHANGED <<account, session, events, wrong, ends, caught, oidcVars>>

OidcInit ==
  /\ linked \in {Null} \cup {e \in Emails : Registered(e)}
  /\ discovery = "none"
  /\ claims = [c \in Calls |-> Null]

OidcStep(c) ==
  \/ Discover(c) \/ StartOidcLogin(c) \/ SaveLoginState(c)
  \/ StartCallback(c) \/ Redeem(c) \/ FindLinked(c) \/ FindExact(c) \/ FindAlike(c)
  \/ CreateUser(c) \/ Link(c) \/ AssertCanSignIn(c) \/ CreateWebHandoff(c)
  \/ StartOidcSession(c)

-----------------------------------------------------------------------------
(* Properties.                                                             *)

\* A started sign-in, and the code a finished one hands to the web, serve one
\* request each, also when two present them at once.
SignInStateOnce ==
  \A c, d \in Calls :
    /\ c # d /\ call[c].op = call[d].op /\ call[c].tok = call[d].tok
    /\ call[c].op \in {"web", "oauth", "oidcSession"}
    => call[c].pc = "refused" \/ call[d].pc = "refused"
       \/ "cut" \in {call[c].pc, call[d].pc}

=============================================================================
