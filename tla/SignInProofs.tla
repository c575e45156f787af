------------------------------ MODULE SignInProofs ------------------------------
(***************************************************************************)
(* What Accounts, OidcSignIn and OAuthGrants guarantee together for every  *)
(* set of requests and spellings of an address, every threshold and any    *)
(* number of things that run out, administrators change or are cut off:    *)
(* sessions that were ended stay ended, what is good for one use is used   *)
(* once, wrong passwords lock every way of signing in, and a connection    *)
(* may do what was selected for it and nothing else.                       *)
(***************************************************************************)
EXTENDS OAuthGrants, TLAPS

-----------------------------------------------------------------------------
(* A request's record.                                                      *)

\* Its words may be any.
Request(W) ==
  [op : W, pc : W, user : Emails \cup {Null},
   tok : Names \cup {Null, "web", "oauth"}, count : 0 .. Threshold, began : Nat]

Requests == \E W : call \in [Calls -> Request(W)]

Others(c) == \A d \in Calls : d # c => call'[d] = call[d]

LEMMA Becomes ==
  ASSUME Requests, NEW c \in Calls, NEW V, NEW q \in Request(V), call' = [call EXCEPT ![c] = q]
  PROVE  Requests' /\ Others(c) /\ call'[c] = q
  <1>1. PICK W : call \in [Calls -> Request(W)]
    BY DEF Requests
  <1>2. Others(c) /\ call'[c] = q
    BY <1>1 DEF Others
  <1>3. call' \in [Calls -> Request(W \cup V)]
    BY <1>1 DEF Request
  <1> QED
    BY <1>2, <1>3 DEF Requests

LEMMA GoesFor ==
  ASSUME Requests, NEW c \in Calls, NEW s, NEW e \in Emails \cup {Null},
         call' = [call EXCEPT ![c].user = e, ![c].pc = s]
  PROVE  /\ Requests' /\ Others(c)
         /\ LET r == call[c]  q == call'[c] IN
            q.pc = s /\ q.op = r.op /\ q.user = e /\ q.tok = r.tok /\ q.count = r.count /\ q.began = r.began
  <1> DEFINE r == call[c]
             q == [r EXCEPT !.user = e, !.pc = s]
  <1>1. PICK W : call \in [Calls -> Request(W)]
    BY DEF Requests
  <1>2. r \in Request(W)
    BY <1>1
  <1>3. call' = [call EXCEPT ![c] = q]
    BY <1>1 DEF Request
  <1>4. q \in Request(W \cup {s})
    BY <1>2 DEF Request
  <1>5. q.pc = s /\ q.op = r.op /\ q.user = e /\ q.tok = r.tok /\ q.count = r.count /\ q.began = r.began
    BY <1>2 DEF Request
  <1> HIDE DEF q
  <1>6. Requests' /\ Others(c) /\ call'[c] = q
    BY <1>3, <1>4, Becomes
  <1> QED
    BY <1>5, <1>6

LEMMA Goes ==
  ASSUME Requests, NEW c \in Calls, NEW s, Goto(c, s)
  PROVE  /\ Requests' /\ Others(c)
         /\ LET r == call[c]  q == call'[c] IN
            q.pc = s /\ q.op = r.op /\ q.user = r.user /\ q.tok = r.tok /\ q.count = r.count /\ q.began = r.began
  <1> DEFINE r == call[c]
             q == [r EXCEPT !.pc = s]
  <1>1. PICK W : call \in [Calls -> Request(W)]
    BY DEF Requests
  <1>2. r \in Request(W)
    BY <1>1
  <1>3. call' = [call EXCEPT ![c] = q]
    BY <1>1 DEF Goto
  <1>4. q \in Request(W \cup {s})
    BY <1>2 DEF Request
  <1>5. q.pc = s /\ q.op = r.op /\ q.user = r.user /\ q.tok = r.tok /\ q.count = r.count /\ q.began = r.began
    BY <1>2 DEF Request
  <1> HIDE DEF q
  <1>6. Requests' /\ Others(c) /\ call'[c] = q
    BY <1>3, <1>4, Becomes
  <1> QED
    BY <1>5, <1>6

LEMMA Starts ==
  ASSUME Requests, account \in [Emails -> Account], ends \in [Emails -> Nat],
         NEW c \in Calls, NEW op, NEW user \in Emails \cup {Null},
         NEW tok \in Names \cup {Null, "web", "oauth"}, NEW s,
         Begin(c, op, user, tok, s)
  PROVE  /\ Requests' /\ Others(c)
         /\ call[c].pc = "idle" /\ crossed' = (crossed \/ ~Quiet)
         /\ LET q == call'[c] IN
            /\ q.pc = s /\ q.op = op /\ q.user = user /\ q.tok = tok
            /\ user \in Emails => q.count = account[user].failed /\ q.began = ends[user]
  <1> DEFINE n == IF user \in Emails THEN account[user].failed ELSE 0
             m == IF user \in Emails THEN ends[user] ELSE 0
  <1>1. n \in 0 .. Threshold /\ m \in Nat
    BY AccountsAssumption DEF Account
  <1> DEFINE q == [op |-> op, pc |-> s, user |-> user, tok |-> tok, count |-> n, began |-> m]
  <1>2. call' = [call EXCEPT ![c] = q] /\ call[c].pc = "idle" /\ crossed' = (crossed \/ ~Quiet)
    BY DEF Begin, At
  <1>3. /\ n = IF user \in Emails THEN account[user].failed ELSE 0
        /\ m = IF user \in Emails THEN ends[user] ELSE 0
    OBVIOUS
  <1> HIDE DEF n, m
  <1>4. q \in Request({op, s})
    BY <1>1 DEF Request
  <1>5. /\ q.pc = s /\ q.op = op /\ q.user = user /\ q.tok = tok /\ q.count = n
        /\ q.began = m
    OBVIOUS
  <1> HIDE DEF q
  <1>6. Requests' /\ Others(c) /\ call'[c] = q
    BY <1>2, <1>4, Becomes
  <1> QED
    BY <1>2, <1>3, <1>5, <1>6, Zenon

-----------------------------------------------------------------------------
(* Which steps change what.                                                 *)

LEMMA AccountFrame ==
  ASSUME NEW c \in Calls,
         AccountStep(c) \/ StartSignIn(c, "consent") \/ StartSignIn(c, "cli")
  PROVE  /\ UNCHANGED <<session, ends>> \/ IssueSession(c) \/ RevokeReplaced(c)
              \/ RevokeAllRefreshTokens(c) \/ Logout(c)
         /\ UNCHANGED ticket \/ IssueEmailVerification(c) \/ MarkVerified(c)
              \/ RequestPasswordReset(c) \/ SetPassword(c)
         /\ UNCHANGED account \/ InsertUser(c) \/ MarkVerified(c) \/ RecordFailedLogin(c)
              \/ ClearFailed(c) \/ SetPassword(c)
         /\ UNCHANGED wrong \/ SetPassword(c) \/ \E op \in {"login", "consent", "cli"} : StartSignIn(c, op)
         /\ UNCHANGED events \/ CutOff(c)
         /\ UNCHANGED caught \/ RecordFailedLogin(c)
  BY DEF AccountStep, StartRegister, InsertUser, IssueEmailVerification, StartVerifyEmail,
     MarkVerified, StartSignIn, RecordFailedLogin, ClearFailed, IssueSession, StartRefresh,
     RevokeReplaced, RevokeAllRefreshTokens, Logout, StartPasswordReset, RequestPasswordReset,
     StartResetPassword, SetPassword, CutOff

LEMMA OidcFrame ==
  ASSUME NEW c \in Calls, OidcStep(c)
  PROVE  /\ UNCHANGED <<session, ends, wrong, events, caught>>
         /\ UNCHANGED ticket \/ SaveLoginState(c) \/ StartCallback(c) \/ CreateWebHandoff(c)
              \/ StartOidcSession(c)
         /\ UNCHANGED account \/ CreateUser(c)
         /\ UNCHANGED linked \/ Link(c)
         /\ UNCHANGED claims \/ Redeem(c)
         /\ UNCHANGED discovery \/ Discover(c)
  BY DEF OidcStep, Discover, StartOidcLogin, SaveLoginState, StartCallback, Redeem, FindLinked,
     FindExact, FindAlike, CreateUser, Link, AssertCanSignIn, CreateWebHandoff, StartOidcSession,
     Moves, MovesFor, oidcVars

LEMMA GrantFrame ==
  ASSUME NEW c \in Calls, GrantStep(c)
  PROVE  /\ UNCHANGED <<account, session, ticket, events, wrong, ends, caught, oidcVars>>
         /\ UNCHANGED client \/ RegisterClient(c)
         /\ UNCHANGED selection \/ ConnectionSelectionPage(c)
         /\ UNCHANGED code \/ CreateAuthorizationCode(c) \/ ConsumeCode(c)
         /\ UNCHANGED grant \/ InsertGrant(c)
         /\ UNCHANGED access \/ InsertGrant(c) \/ RefreshGrant(c) \/ MintToken(c)
         /\ UNCHANGED asked \/ StartSelect(c)
         /\ UNCHANGED member
         /\ UNCHANGED config \/ EnsureV11ReadDefaults(c)
  BY DEF GrantStep, TokenRequest, RegisterClient, ConnectionSelectionPage, RequestNoLongerValid, StartSelect,
     EnsureV11ReadDefaults, CheckConfigs, ValidateClient, CreateAuthorizationCode, StartExchange,
     ConsumeCode, InsertGrant, RefreshGrant, MintToken, Moves, On, Refused, grantVars, oidcVars

-----------------------------------------------------------------------------
(* The course of a request, and its types.                                  *)

Step(c) ==
  \/ /\ AccountStep(c) \/ StartSignIn(c, "consent") \/ StartSignIn(c, "cli")
     /\ UNCHANGED <<oidcVars, grantVars>>
  \/ OidcStep(c) /\ UNCHANGED grantVars
  \/ GrantStep(c)

\* Steps of no request.
Outside ==
  \/ Expire /\ UNCHANGED <<oidcVars, grantVars>>
  \/ DiscoveryEnds /\ UNCHANGED grantVars
  \/ ExpireCode
  \/ Administer

\* Where a request of a kind can be.
Journey(op, pc) ==
  \/ pc \in Ended
  \/ op = "none" /\ pc = "idle"
  \/ op = "register" /\ pc \in {"insertUser", "mailVerification"}
  \/ op = "verify" /\ pc = "markVerified"
  \/ op \in {"login", "consent", "cli"} /\ pc \in {"recordFailed", "clearFailed"}
  \/ op = "login" /\ pc = "issueSession"
  \/ op = "consent" /\ pc = "selectionPage"
  \/ op = "cli" /\ pc = "mintToken"
  \/ op = "refresh" /\ pc \in {"issueSession", "revokeReplaced", "revokeAll"}
  \/ op = "forgot" /\ pc = "insertReset"
  \/ op = "reset" /\ pc \in {"setPassword", "revokeAll"}
  \/ op = "oidcStart" /\ pc \in {"discover", "discovering", "saveState"}
  \/ op \in {"web", "oauth"} /\ pc \in {"discover", "discovering", "redeem", "findLinked",
       "findExact", "findAlike", "createUser", "link", "assertCanSignIn"}
  \/ op = "web" /\ pc = "handOff"
  \/ op = "oauth" /\ pc = "selectionPage"
  \/ op = "oidcSession" /\ pc \in {"assertCanSignIn", "issueSession"}
  \/ op = "select" /\ pc \in {"ensureDefaults", "checkConfigs", "validateClient", "insertCode"}
  \/ op = "exchange" /\ pc \in {"consumeCode", "insertGrant"}

\* What the record of a request holds where it is used.
Fits(op, pc, user, tok, claimed) ==
  /\ Journey(op, pc)
  /\ pc \in {"issueSession", "recordFailed", "clearFailed", "assertCanSignIn", "handOff", "link",
             "createUser", "selectionPage", "mintToken"}
       => user \in Emails
  /\ pc \in {"findExact", "findAlike"} => claimed \in Emails
  /\ op = "oidcStart" => tok \in {"web", "oauth"}
  /\ op \in {"verify", "reset", "refresh", "web", "oauth", "oidcSession", "exchange"}
       => tok \in Names
Equipped(c) == Fits(call[c].op, call[c].pc, call[c].user, call[c].tok, claims[c])

Typed ==
  /\ TypeOK /\ Requests
  /\ \A c \in Calls : Equipped(c)
  /\ \A t \in Names : session[t].state \in {"live", "expired"} => session[t].user \in Emails
  /\ \A t \in Names : ticket["handoff"][t].state # "none" => ticket["handoff"][t].user \in Emails

\* A request starts, or goes on to the same end, which is no crossing.
Starting(c) == call[c].pc = "idle" /\ crossed' = (crossed \/ ~Quiet)
Going(c) ==
  LET r == call[c]  q == call'[c] IN
  /\ Under(c) /\ q.op = r.op /\ q.tok = r.tok /\ q.count = r.count /\ q.began = r.began
  /\ q.user = r.user \/ r.pc \in {"findLinked", "findExact", "findAlike"}
  /\ (q.pc = "cut" /\ crossed' = TRUE) \/ (q.pc # "cut" /\ UNCHANGED crossed)

Course(c) == Requests' /\ Others(c) /\ (Starting(c) \/ Going(c)) /\ Equipped(c)'

LEMMA StartsCourse ==
  ASSUME Typed, NEW c \in Calls, NEW op, NEW user \in Emails \cup {Null},
         NEW tok \in Names \cup {Null, "web", "oauth"}, NEW s,
         Begin(c, op, user, tok, s), Fits(op, s, user, tok, claims'[c])
  PROVE  Course(c)
  <1>1. Requests /\ account \in [Emails -> Account] /\ ends \in [Emails -> Nat]
    BY DEF Typed, TypeOK, AccountsTypeOK
  <1> QED
    BY <1>1, Starts DEF Course, Starting, Equipped

LEMMA GoesCourse ==
  ASSUME Typed, NEW c \in Calls, NEW s, Goto(c, s), Under(c),
         (s = "cut" /\ crossed' = TRUE) \/ (s # "cut" /\ UNCHANGED crossed),
         Fits(call[c].op, s, call[c].user, call[c].tok, claims'[c])
  PROVE  Course(c)
  <1> DEFINE r == call[c]
             q == call'[c]
  <1>1. /\ Requests' /\ Others(c)
        /\ q.pc = s /\ q.op = r.op /\ q.user = r.user /\ q.tok = r.tok /\ q.count = r.count /\ q.began = r.began
    BY Goes DEF Typed
  <1>2. Equipped(c)'
    BY <1>1 DEF Equipped
  <1>3. (q.pc = "cut" /\ crossed' = TRUE) \/ (q.pc # "cut" /\ UNCHANGED crossed)
    BY <1>1, Zenon
  <1>4. Going(c)
    BY <1>1, <1>3, Zenon DEF Going
  <1> QED
    BY <1>1, <1>2, <1>4 DEF Course

LEMMA AfterIs ==
  ASSUME NEW op \in {"login", "consent", "cli"}
  PROVE  \/ op = "login" /\ After(op) = "issueSession"
         \/ op = "consent" /\ After(op) = "selectionPage"
         \/ op = "cli" /\ After(op) = "mintToken"
  <1>1. After("login") = "issueSession" /\ After("consent") = "selectionPage" /\ After("cli") = "mintToken"
    BY DEF After
  <1> QED
    BY <1>1, Zenon

LEMMA AccountCourse ==
  ASSUME Typed, NEW c \in Calls, UNCHANGED claims,
         AccountStep(c) \/ StartSignIn(c, "consent") \/ StartSignIn(c, "cli")
  PROVE  Course(c)
  <1> DEFINE r == call[c]
  <1>0. /\ Equipped(c) /\ Journey(r.op, r.pc) /\ claims' = claims
    BY DEF Typed, Equipped, Fits
  <1>1. CASE StartRegister(c)
    <2>1. PICK e \in Emails, s \in {"refused", "insertUser"} : Begin(c, "register", e, Null, s)
      BY <1>1 DEF StartRegister
    <2>2. Fits("register", s, e, Null, claims'[c])
      BY DEF Fits, Journey, Ended
    <2> QED
      BY <2>1, <2>2, StartsCourse
  <1>2. CASE StartVerifyEmail(c)
    <2>1. PICK t \in Names, s \in {"refused", "markVerified"} :
            Begin(c, "verify", ticket["verify"][t].user, t, s)
      BY <1>2 DEF StartVerifyEmail, Presented
    <2>2. ticket["verify"][t].user \in Emails \cup {Null}
      BY DEF Typed, TypeOK, AccountsTypeOK, Ticket, Kinds
    <2>3. Fits("verify", s, ticket["verify"][t].user, t, claims'[c])
      BY DEF Fits, Journey, Ended
    <2> QED
      BY <2>1, <2>2, <2>3, StartsCourse
  <1>3. ASSUME NEW op \in {"login", "consent", "cli"}, StartSignIn(c, op) PROVE Course(c)
    <2>1. PICK e \in Emails, s \in {"refused", "recordFailed", "clearFailed", After(op)} :
            Begin(c, op, e, Null, s)
      BY <1>3 DEF StartSignIn, VerifyCredentials
    <2>2. Fits(op, s, e, Null, claims'[c])
      BY AfterIs DEF Fits, Journey, Ended
    <2> QED
      BY <2>1, <2>2, StartsCourse
  <1>4. CASE StartRefresh(c)
    <2>1. PICK t \in Names, s \in {"revokeAll", "refused", "issueSession"} :
            /\ Begin(c, "refresh", session[t].user, t, s)
            /\ s = "issueSession" => session[t].state \notin {"none", "revoked", "expired"}
      BY <1>4 DEF StartRefresh, Sessions, Refreshed
    <2>2. /\ session[t].user \in Emails \cup {Null}
          /\ s = "issueSession" => session[t].user \in Emails
      BY <2>1 DEF Typed, TypeOK, AccountsTypeOK, Session
    <2>3. Fits("refresh", s, session[t].user, t, claims'[c])
      BY <2>2 DEF Fits, Journey, Ended
    <2> QED
      BY <2>1, <2>2, <2>3, StartsCourse
  <1>5. CASE Logout(c)
    <2>1. PICK t \in Names, e \in Emails : Begin(c, "logout", e, t, "ok")
      BY <1>5 DEF Logout, Sessions
    <2>2. Fits("logout", "ok", e, t, claims'[c])
      BY DEF Fits, Journey, Ended
    <2> QED
      BY <2>1, <2>2, StartsCourse
  <1>6. CASE StartPasswordReset(c)
    <2>1. PICK e \in Emails, s \in {"insertReset", "ok"} : Begin(c, "forgot", e, Null, s)
      BY <1>6 DEF StartPasswordReset
    <2>2. Fits("forgot", s, e, Null, claims'[c])
      BY DEF Fits, Journey, Ended
    <2> QED
      BY <2>1, <2>2, StartsCourse
  <1>7. CASE StartResetPassword(c)
    <2>1. PICK t \in Names, s \in {"refused", "setPassword"} :
            Begin(c, "reset", ticket["reset"][t].user, t, s)
      BY <1>7 DEF StartResetPassword, Presented
    <2>2. ticket["reset"][t].user \in Emails \cup {Null}
      BY DEF Typed, TypeOK, AccountsTypeOK, Ticket, Kinds
    <2>3. Fits("reset", s, ticket["reset"][t].user, t, claims'[c])
      BY DEF Fits, Journey, Ended
    <2> QED
      BY <2>1, <2>2, <2>3, StartsCourse
  <1>8. CASE CutOff(c)
    <2>1. Goto(c, "cut") /\ Under(c) /\ crossed' = TRUE
      BY <1>8, Zenon DEF CutOff
    <2>2. Fits(r.op, "cut", r.user, r.tok, claims'[c])
      BY <1>0 DEF Equipped, Fits, Journey, Ended
    <2> QED
      BY <2>1, <2>2, GoesCourse
  <1>9. CASE InsertUser(c) \/ IssueEmailVerification(c) \/ MarkVerified(c) \/ RecordFailedLogin(c)
             \/ RequestPasswordReset(c) \/ SetPassword(c) \/ RevokeReplaced(c)
    <2>1. PICK s \in {"refused", "mailVerification", "ok", "revokeAll"} :
            /\ Goto(c, s) /\ UNCHANGED crossed
            /\ s = "mailVerification" => r.pc = "insertUser"
            /\ s = "revokeAll" => r.pc = "setPassword"
      BY <1>9 DEF InsertUser, IssueEmailVerification, MarkVerified, RecordFailedLogin,
         RequestPasswordReset, SetPassword, RevokeReplaced, At
    <2>2. Under(c)
      BY <1>9 DEF InsertUser, IssueEmailVerification, MarkVerified, RecordFailedLogin,
         RequestPasswordReset, SetPassword, RevokeReplaced, At, Under, Ended
    <2>3. Journey(r.op, s)
      BY <1>0, <2>1 DEF Journey, Ended
    <2>4. Fits(r.op, s, r.user, r.tok, claims'[c])
      BY <1>0, <2>3 DEF Equipped, Fits
    <2> QED
      BY <2>1, <2>2, <2>4, GoesCourse
  <1>10. CASE ClearFailed(c)
    <2>1. r.pc = "clearFailed" /\ Under(c) /\ UNCHANGED crossed /\ Goto(c, After(r.op))
      BY <1>10 DEF ClearFailed, At, Ended, Under
    <2>2. r.op \in {"login", "consent", "cli"} /\ r.user \in Emails
      BY <1>0, <2>1 DEF Journey, Ended, Equipped, Fits
    <2>3. After(r.op) # "cut" /\ Fits(r.op, After(r.op), r.user, r.tok, claims'[c])
      BY <2>2, AfterIs DEF Fits, Journey, Ended
    <2> QED
      BY <2>1, <2>3, GoesCourse
  <1>11. CASE IssueSession(c) \/ RevokeAllRefreshTokens(c)
    <2>1. PICK s \in {"refused", "ok", "revokeReplaced"} :
            /\ Goto(c, s) /\ UNCHANGED crossed
            /\ s = "revokeReplaced" => r.op = "refresh"
      BY <1>11 DEF IssueSession, RevokeAllRefreshTokens
    <2>2. Under(c)
      BY <1>11 DEF IssueSession, RevokeAllRefreshTokens, At, Under, Ended
    <2>3. Journey(r.op, s)
      BY <2>1 DEF Journey, Ended
    <2>4. Fits(r.op, s, r.user, r.tok, claims'[c])
      BY <1>0, <2>3 DEF Equipped, Fits
    <2> QED
      BY <2>1, <2>2, <2>4, GoesCourse
  <1> QED
    BY <1>1, <1>2, <1>3, <1>4, <1>5, <1>6, <1>7, <1>8, <1>9, <1>10, <1>11 DEF AccountStep

LEMMA GoesForCourse ==
  ASSUME Typed, NEW c \in Calls, NEW s, NEW e \in Emails \cup {Null}, MovesFor(c, e, s),
         Under(c), s # "cut", e = call[c].user \/ call[c].pc \in {"findLinked", "findExact", "findAlike"},
         Fits(call[c].op, s, e, call[c].tok, claims[c])
  PROVE  Course(c)
  <1> DEFINE r == call[c]
             q == call'[c]
  <1>0. /\ call' = [call EXCEPT ![c].user = e, ![c].pc = s]
        /\ UNCHANGED crossed /\ UNCHANGED claims
    BY DEF MovesFor
  <1>1. /\ Requests' /\ Others(c)
        /\ q.pc = s /\ q.op = r.op /\ q.user = e /\ q.tok = r.tok /\ q.count = r.count /\ q.began = r.began
    BY <1>0, GoesFor DEF Typed
  <1>2. Equipped(c)'
    BY <1>0, <1>1 DEF Equipped
  <1>3. q.pc # "cut"
    BY <1>1
  <1>4. Going(c)
    BY <1>0, <1>1, <1>3, Zenon DEF Going
  <1> QED
    BY <1>1, <1>2, <1>4 DEF Course

LEMMA OidcCourse ==
  ASSUME Typed, NEW c \in Calls, OidcStep(c)
  PROVE  Course(c)
  <1> DEFINE r == call[c]
  <1>0. /\ Equipped(c) /\ Journey(r.op, r.pc)
        /\ claims \in [Calls -> Emails \cup {Null}] /\ linked \in Emails \cup {Null}
    BY DEF Typed, TypeOK, OidcTypeOK, Equipped, Fits
  <1>1. CASE Discover(c)
    <2>1. r.pc = "discover" /\ UNCHANGED crossed /\ UNCHANGED claims /\ Under(c)
          /\ Goto(c, IF discovery = "ready" THEN Discovered(r.op) ELSE "discovering")
      BY <1>1 DEF Discover, At, Moves, Under, Ended
    <2>2. r.op \in {"oidcStart", "web", "oauth"}
      BY <1>0, <2>1 DEF Journey, Ended
    <2> DEFINE s == IF discovery = "ready" THEN Discovered(r.op) ELSE "discovering"
    <2>3. \/ s = "discovering"
          \/ s = "saveState" /\ r.op = "oidcStart"
          \/ s = "redeem" /\ r.op \in {"web", "oauth"}
      BY <2>2 DEF Discovered
    <2>4. Goto(c, s)
      BY <2>1
    <2> HIDE DEF s
    <2>5. Journey(r.op, s) /\ s # "cut"
      BY <2>2, <2>3 DEF Journey
    <2>6. Fits(r.op, s, r.user, r.tok, claims'[c])
      BY <1>0, <2>3, <2>5 DEF Equipped, Fits
    <2> QED
      BY <2>1, <2>4, <2>5, <2>6, GoesCourse
  <1>2. CASE StartOidcLogin(c)
    <2>1. PICK purpose \in {"web", "oauth"} : Begin(c, "oidcStart", Null, purpose, "discover")
      BY <1>2 DEF StartOidcLogin
    <2>2. Fits("oidcStart", "discover", Null, purpose, claims'[c])
      BY DEF Fits, Journey, Ended
    <2> QED
      BY <2>1, <2>2, StartsCourse
  <1>3. CASE SaveLoginState(c) \/ CreateWebHandoff(c) \/ Redeem(c)
    <2>1. PICK s \in {"ok", "findLinked", "refused"} :
            /\ Goto(c, s) /\ UNCHANGED crossed
            /\ s = "findLinked" => r.pc = "redeem"
      BY <1>3 DEF SaveLoginState, CreateWebHandoff, Redeem, Moves, At
    <2>2. Under(c)
      BY <1>3 DEF SaveLoginState, CreateWebHandoff, Redeem, Under, Ended, At
    <2>3. Journey(r.op, s)
      BY <1>0, <2>1 DEF Journey, Ended
    <2>4. Fits(r.op, s, r.user, r.tok, claims'[c])
      BY <1>0, <2>3 DEF Equipped, Fits
    <2> QED
      BY <2>1, <2>2, <2>4, GoesCourse
  <1>4. CASE StartCallback(c)
    <2>1. PICK purpose \in {"web", "oauth"}, t \in Names, s \in {"discover", "refused"} :
            Begin(c, purpose, Null, t, s)
      BY <1>4 DEF StartCallback, Presented
    <2>2. Fits(purpose, s, Null, t, claims'[c])
      BY DEF Fits, Journey, Ended
    <2> QED
      BY <2>1, <2>2, StartsCourse
  <1>5. CASE FindLinked(c)
    <2>1. r.pc = "findLinked" /\ Under(c) /\ r.op \in {"web", "oauth"}
      BY <1>0, <1>5 DEF FindLinked, At, Under, Ended, Journey
    <2>2. \/ linked \in Emails /\ MovesFor(c, linked, "assertCanSignIn")
          \/ claims[c] \in Emails /\ MovesFor(c, Null, "findExact")
          \/ MovesFor(c, Null, "refused")
      BY <1>0, <1>5 DEF FindLinked
    <2>3. \A e, s : \/ e \in Emails /\ s = "assertCanSignIn"
                    \/ claims[c] \in Emails /\ s \in {"findExact", "refused"}
                    \/ s = "refused"
            => Fits(r.op, s, e, r.tok, claims[c])
      BY <1>0, <2>1 DEF Equipped, Fits, Journey, Ended
    <2> QED
      BY <2>1, <2>2, <2>3, GoesForCourse
  <1>6. CASE FindExact(c) \/ FindAlike(c)
    <2>1. r.pc \in {"findExact", "findAlike"} /\ Under(c) /\ r.op \in {"web", "oauth"}
      BY <1>0, <1>6 DEF FindExact, FindAlike, At, Under, Ended, Journey
    <2>2. claims[c] \in Emails
      BY <1>0, <2>1 DEF Equipped, Fits
    <2>3. PICK e \in Emails, s \in {"link", "findAlike", "createUser", "refused"} : MovesFor(c, e, s)
      BY <1>6, <2>2 DEF FindExact, FindAlike
    <2>4. Fits(r.op, s, e, r.tok, claims[c])
      BY <1>0, <2>1, <2>2 DEF Equipped, Fits, Journey, Ended
    <2> QED
      BY <2>1, <2>3, <2>4, GoesForCourse
  <1>7. CASE CreateUser(c)
    <2>1. r.pc = "createUser" /\ Under(c) /\ r.op \in {"web", "oauth"} /\ r.user \in Emails
          /\ UNCHANGED crossed
      BY <1>0, <1>7 DEF CreateUser, At, Under, Ended, Journey, Equipped, Fits
    <2>2. PICK s \in {"refused", "link"} : Goto(c, s)
      BY <1>7 DEF CreateUser
    <2>3. Fits(r.op, s, r.user, r.tok, claims'[c])
      BY <1>0, <2>1 DEF Equipped, Fits, Journey, Ended
    <2> QED
      BY <2>1, <2>2, <2>3, GoesCourse
  <1>8. CASE Link(c)
    <2>1. r.pc = "link" /\ Under(c) /\ r.op \in {"web", "oauth"} /\ r.user \in Emails
          /\ MovesFor(c, r.user, "assertCanSignIn")
      BY <1>0, <1>8 DEF Link, At, Under, Ended, Journey, Equipped, Fits
    <2>2. Fits(r.op, "assertCanSignIn", r.user, r.tok, claims[c])
      BY <1>0, <2>1 DEF Equipped, Fits, Journey
    <2> QED
      BY <2>1, <2>2, GoesForCourse
  <1>9. CASE AssertCanSignIn(c)
    <2>1. /\ r.pc = "assertCanSignIn" /\ Under(c) /\ UNCHANGED crossed /\ UNCHANGED claims
          /\ r.op \in {"web", "oauth", "oidcSession"} /\ r.user \in Emails
      BY <1>0, <1>9 DEF AssertCanSignIn, At, Under, Ended, Journey, Equipped, Fits, Moves, oidcVars
    <2>2. PICK s \in {"refused", "handOff", "selectionPage", "issueSession"} :
            /\ Goto(c, s)
            /\ s = "handOff" => r.op = "web"
            /\ s = "selectionPage" => r.op = "oauth"
            /\ s = "issueSession" => r.op = "oidcSession"
      BY <1>9, <2>1 DEF AssertCanSignIn, Moves
    <2>3. Fits(r.op, s, r.user, r.tok, claims'[c])
      BY <1>0, <2>1, <2>2 DEF Equipped, Fits, Journey, Ended
    <2> QED
      BY <2>1, <2>2, <2>3, GoesCourse
  <1>10. CASE StartOidcSession(c)
    <2>1. PICK t \in Names, s \in {"assertCanSignIn", "refused"} :
            /\ ticket["handoff"][t].state # "none"
            /\ Begin(c, "oidcSession", ticket["handoff"][t].user, t, s)
      BY <1>10 DEF StartOidcSession, Presented
    <2>2. ticket["handoff"][t].user \in Emails
      BY <2>1 DEF Typed
    <2>3. Fits("oidcSession", s, ticket["handoff"][t].user, t, claims'[c])
      BY <2>2 DEF Fits, Journey, Ended
    <2> QED
      BY <2>1, <2>2, <2>3, StartsCourse
  <1> QED
    BY <1>1, <1>2, <1>3, <1>4, <1>5, <1>6, <1>7, <1>8, <1>9, <1>10 DEF OidcStep

LEMMA GrantCourse ==
  ASSUME Typed, NEW c \in Calls, GrantStep(c)
  PROVE  Course(c)
  <1> DEFINE r == call[c]
  <1>0. Equipped(c) /\ Journey(r.op, r.pc) /\ TypeOK
    BY DEF Typed, Equipped, Fits
  <1>1. CASE RegisterClient(c)
    <2>1. Begin(c, "client", Null, Null, "ok")
      BY <1>1 DEF RegisterClient
    <2>2. Fits("client", "ok", Null, Null, claims'[c])
      BY DEF Fits, Journey, Ended
    <2> QED
      BY <2>1, <2>2, StartsCourse
  <1>2. CASE StartSelect(c)
    <2>1. PICK t \in Names, s \in {"validateClient", "ensureDefaults", "checkConfigs", "refused"} :
            Begin(c, "select", selection[t], t, s)
      BY <1>2 DEF StartSelect
    <2>2. selection[t] \in Emails \cup {Null}
      BY <1>0 DEF TypeOK, GrantsTypeOK
    <2>3. Fits("select", s, selection[t], t, claims'[c])
      BY DEF Fits, Journey, Ended
    <2> QED
      BY <2>1, <2>2, <2>3, StartsCourse
  <1>3. CASE StartExchange(c)
    <2>1. PICK t \in Names, s \in {"consumeCode", "refused"} :
            Begin(c, "exchange", code[t].scope.user, t, s)
      BY <1>3 DEF StartExchange
    <2>2. code[t].scope.user \in Emails \cup {Null}
      BY <1>0 DEF TypeOK, GrantsTypeOK, Scope
    <2>3. Fits("exchange", s, code[t].scope.user, t, claims'[c])
      BY DEF Fits, Journey, Ended
    <2> QED
      BY <2>1, <2>2, <2>3, StartsCourse
  <1>4. CASE RefreshGrant(c)
    <2>1. PICK t \in Names, s \in {"ok", "refused"} :
            Begin(c, "refreshGrant", grant[t].scope.user, t, s)
      BY <1>4 DEF RefreshGrant
    <2>2. grant[t].scope.user \in Emails \cup {Null}
      BY <1>0 DEF TypeOK, GrantsTypeOK, Scope
    <2>3. Fits("refreshGrant", s, grant[t].scope.user, t, claims'[c])
      BY DEF Fits, Journey, Ended
    <2> QED
      BY <2>1, <2>2, <2>3, StartsCourse
  <1>5. CASE ConnectionSelectionPage(c) \/ RequestNoLongerValid(c) \/ EnsureV11ReadDefaults(c)
             \/ CheckConfigs(c) \/ ValidateClient(c) \/ CreateAuthorizationCode(c)
             \/ ConsumeCode(c) \/ InsertGrant(c) \/ MintToken(c)
    <2>1. PICK s \in {"ok", "refused", "checkConfigs", "validateClient", "insertCode", "insertGrant"} :
            /\ Goto(c, s) /\ UNCHANGED crossed
            /\ s = "checkConfigs" => r.pc = "ensureDefaults"
            /\ s = "validateClient" => r.pc = "checkConfigs"
            /\ s = "insertCode" => r.pc = "validateClient"
            /\ s = "insertGrant" => r.pc = "consumeCode"
      BY <1>5 DEF ConnectionSelectionPage, RequestNoLongerValid, EnsureV11ReadDefaults,
         CheckConfigs, ValidateClient, CreateAuthorizationCode, ConsumeCode, InsertGrant, MintToken,
         Refused, On, Moves, At
    <2>2. Under(c)
      BY <1>5 DEF ConnectionSelectionPage, RequestNoLongerValid, EnsureV11ReadDefaults,
         CheckConfigs, ValidateClient, CreateAuthorizationCode, ConsumeCode, InsertGrant, MintToken,
         At, Under, Ended
    <2>3. Journey(r.op, s)
      BY <1>0, <2>1 DEF Journey, Ended
    <2>4. Fits(r.op, s, r.user, r.tok, claims'[c])
      BY <1>0, <2>3 DEF Equipped, Fits
    <2> QED
      BY <2>1, <2>2, <2>4, GoesCourse
  <1> QED
    BY <1>1, <1>2, <1>3, <1>4, <1>5 DEF GrantStep, TokenRequest

LEMMA StepCourse ==
  ASSUME Typed, NEW c \in Calls, Step(c)
  PROVE  Course(c)
  BY AccountCourse, OidcCourse, GrantCourse DEF Step, oidcVars

LEMMA NextIs ==
  ASSUME Next
  PROVE  Outside \/ \E c \in Calls : Step(c)
  BY DEF Next, Outside, Step, StartConsent, StartCli

\* The end of discovery moves those that wait for it; else no request moves.
LEMMA OutsideCourse ==
  ASSUME Typed, Outside
  PROVE  /\ Requests'
         /\ \A c \in Calls :
              LET r == call[c]  q == call'[c] IN
              \/ q = r
              \/ /\ r.pc = "discovering" /\ q.pc \in {"saveState", "redeem", "refused"}
                 /\ q.op = r.op /\ q.user = r.user /\ q.tok = r.tok /\ q.count = r.count /\ q.began = r.began
         /\ \A c \in Calls : Equipped(c)'
  <1>1. CASE UNCHANGED call
    <2>1. UNCHANGED claims
      BY <1>1 DEF Outside, Expire, DiscoveryEnds, ExpireCode, Administer, oidcVars
    <2> QED
      BY <1>1, <2>1 DEF Typed, Requests, Equipped
  <1>2. CASE DiscoveryEnds
    <2>1. PICK found \in BOOLEAN :
            call' = [c \in Calls |-> IF ~At(c, "discovering") THEN call[c]
                       ELSE [call[c] EXCEPT !.pc = IF found THEN Discovered(call[c].op) ELSE "refused"]]
      BY <1>2 DEF DiscoveryEnds
    <2>2. PICK W : call \in [Calls -> Request(W)]
      BY DEF Typed, Requests
    <2>3. UNCHANGED claims
      BY <1>2 DEF DiscoveryEnds
    <2>4. ASSUME NEW c \in Calls
          PROVE  LET r == call[c]  q == call'[c] IN
                 /\ q \in Request(W \cup {"saveState", "redeem", "refused"})
                 /\ \/ q = r
                    \/ /\ r.pc = "discovering" /\ q.pc \in {"saveState", "redeem", "refused"}
                       /\ q.op = r.op /\ q.user = r.user /\ q.tok = r.tok /\ q.count = r.count /\ q.began = r.began
                 /\ Equipped(c)'
      <3> DEFINE r == call[c]
                 s == IF found THEN Discovered(r.op) ELSE "refused"
      <3>1. r \in Request(W)
        BY <2>2
      <3>2. CASE r.pc # "discovering"
        <4>1. call'[c] = r
          BY <2>1, <3>2 DEF At
        <4>2. Equipped(c)'
          BY <2>3, <4>1 DEF Typed, Equipped
        <4> QED
          BY <3>1, <4>1, <4>2 DEF Request
      <3>3. CASE r.pc = "discovering"
        <4>1. call'[c] = [r EXCEPT !.pc = s]
          BY <2>1, <3>3 DEF At
        <4>2. \/ s = "saveState" /\ r.op = "oidcStart"
              \/ s = "redeem" /\ r.op \in {"web", "oauth"}
              \/ s = "refused"
          BY <3>3 DEF Typed, Equipped, Fits, Journey, Ended, Discovered
        <4> HIDE DEF s
        <4>3. LET q == call'[c] IN
                q.pc = s /\ q.op = r.op /\ q.user = r.user /\ q.tok = r.tok /\ q.count = r.count /\ q.began = r.began
          BY <3>1, <4>1 DEF Request
        <4>4. call'[c] \in Request(W \cup {"saveState", "redeem", "refused"})
          BY <3>1, <4>1, <4>2 DEF Request
        <4>5. Journey(r.op, s)
          BY <4>2 DEF Journey, Ended
        <4>6. Fits(r.op, s, r.user, r.tok, claims[c])
          BY <4>2, <4>5 DEF Typed, Equipped, Fits
        <4>7. Equipped(c)'
          BY <2>3, <4>3, <4>6 DEF Equipped
        <4> QED
          BY <3>3, <4>2, <4>3, <4>4, <4>7
      <3> QED
        BY <3>2, <3>3
    <2>5. call' = [c \in Calls |-> call'[c]]
      BY <2>1
    <2>6. call' \in [Calls -> Request(W \cup {"saveState", "redeem", "refused"})]
      BY <2>4, <2>5
    <2> QED
      BY <2>4, <2>6 DEF Requests
  <1> QED
    BY <1>1, <1>2 DEF Outside, Expire, ExpireCode, Administer

-----------------------------------------------------------------------------
(* Types.                                                                   *)

LEMMA AccountsTyped ==
  ASSUME Typed, Next
  PROVE  account' \in [Emails -> Account]
  <1>0. account \in [Emails -> Account] /\ 0 \in 0 .. Threshold /\ Threshold \in Nat \ {0}
    BY AccountsAssumption DEF Typed, TypeOK, AccountsTypeOK
  <1>3. NoAccount \in Account
    BY <1>0 DEF Account, NoAccount
  <1>4. /\ [NoAccount EXCEPT !.password = "set", !.exists = TRUE] \in Account
        /\ [NoAccount EXCEPT !.exists = TRUE, !.verified = TRUE] \in Account
    BY <1>3 DEF Account
  <1>1. CASE Outside
    BY <1>0, <1>1 DEF Outside, Expire, DiscoveryEnds, ExpireCode, Administer, Account
  <1>2. ASSUME NEW c \in Calls, Step(c) PROVE account' \in [Emails -> Account]
    <2> DEFINE e == call[c].user
    <2>1. CASE UNCHANGED account
      BY <1>0, <2>1
    <2>2. CASE InsertUser(c) \/ CreateUser(c)
      BY <1>0, <1>4, <2>2 DEF InsertUser, CreateUser
    <2>3. CASE MarkVerified(c)
      <3>1. account' = [account EXCEPT ![e].verified = TRUE]
        BY <2>3 DEF MarkVerified
      <3> HIDE DEF e
      <3> QED
        BY <1>0, <3>1 DEF Account
    <2>5. CASE ClearFailed(c)
      <3>1. account' = [account EXCEPT ![e].failed = 0, ![e].lock = "never"]
        BY <2>5 DEF ClearFailed
      <3> HIDE DEF e
      <3> QED
        BY <1>0, <3>1 DEF Account
    <2>6. CASE SetPassword(c)
      <3>1. account' = [account EXCEPT ![e].password = "set", ![e].failed = 0, ![e].lock = "never"]
        BY <2>6 DEF SetPassword
      <3> HIDE DEF e
      <3>2. CASE e \in Emails
        <4> DEFINE a == account[e]
                   b == [a EXCEPT !.password = "set", !.failed = 0, !.lock = "never"]
        <4>1. b \in Account
          BY <1>0, <3>2 DEF Account
        <4>2. account' = [account EXCEPT ![e] = b]
          BY <1>0, <3>1, <3>2 DEF Account
        <4> HIDE DEF b
        <4> QED
          BY <1>0, <4>1, <4>2
      <3> QED
        BY <1>0, <3>1, <3>2
    <2>4. CASE RecordFailedLogin(c)
      <3> DEFINE attempts == call[c].count + 1
                 n == IF attempts >= Threshold THEN 0 ELSE attempts
                 l == IF attempts >= Threshold THEN "until" ELSE "never"
      <3>1. call[c].count \in 0 .. Threshold
        BY DEF Typed, Requests, Request
      <3>2. n \in 0 .. Threshold /\ l \in {"never", "until", "over"}
        BY <1>0, <3>1
      <3>3. account' = [account EXCEPT ![e].failed = n, ![e].lock = l]
        BY <2>4 DEF RecordFailedLogin
      <3> HIDE DEF n, l, e
      <3> QED
        BY <1>0, <3>2, <3>3 DEF Account
    <2> QED
      BY <1>2, <2>1, <2>2, <2>3, <2>4, <2>5, <2>6, AccountFrame, OidcFrame, GrantFrame DEF Step
  <1> QED
    BY <1>1, <1>2, NextIs

LEMMA SessionsTyped ==
  ASSUME Typed, Next
  PROVE  /\ session' \in [Names -> Session] /\ ends' \in [Emails -> Nat]
         /\ \A t \in Names : session'[t].state \in {"live", "expired"} => session'[t].user \in Emails
  <1>0. /\ session \in [Names -> Session] /\ ends \in [Emails -> Nat]
        /\ \A t \in Names : session[t].state \in {"live", "expired"} => session[t].user \in Emails
    BY DEF Typed, TypeOK, AccountsTypeOK
  <1> DEFINE Goal == /\ session' \in [Names -> Session] /\ ends' \in [Emails -> Nat]
                     /\ \A t \in Names : session'[t].state \in {"live", "expired"} => session'[t].user \in Emails
  <1>1. CASE Outside
    <2>1. UNCHANGED ends
      BY <1>1 DEF Outside, Expire, DiscoveryEnds, ExpireCode, Administer
    <2>2. \/ UNCHANGED session
          \/ \E t \in Names : session[t].state = "live" /\ session' = [session EXCEPT ![t].state = "expired"]
      BY <1>1 DEF Outside, Expire, DiscoveryEnds, ExpireCode, Administer
    <2> QED
      BY <1>0, <2>1, <2>2 DEF Session
  <1>2. ASSUME NEW c \in Calls, Step(c) PROVE Goal
    <2> DEFINE e == call[c].user
    <2>1. CASE UNCHANGED <<session, ends>>
      BY <1>0, <2>1
    <2>2. CASE IssueSession(c)
      <3>1. e \in Emails /\ c \in Names
        BY <2>2 DEF IssueSession, At, Typed, Equipped, Fits, Names
      <3> DEFINE x == [state |-> "live", user |-> e, next |-> Null, since |-> CountsFrom(c)]
      <3>4. CountsFrom(c) \in Nat
        <4>1. call[c].op = "refresh" => call[c].tok \in Names
          BY DEF Typed, Equipped, Fits
        <4> QED
          BY <1>0, <3>1, <4>1 DEF CountsFrom, Session
      <3>2. x \in Session /\ x.user \in Emails
        BY <3>1, <3>4 DEF Session
      <3>3. session' = [session EXCEPT ![c] = x] /\ UNCHANGED ends
        BY <2>2 DEF IssueSession
      <3> HIDE DEF x, e
      <3> QED
        BY <1>0, <3>1, <3>2, <3>3
    <2>3. CASE RevokeReplaced(c)
      <3>1. c \in Names
        BY DEF Names
      <3> DEFINE t == call[c].tok
      <3>3. session' = [session EXCEPT ![t].state = "revoked", ![t].next = c] /\ UNCHANGED ends
        BY <2>3 DEF RevokeReplaced
      <3> QED
        BY <1>0, <3>1, <3>3 DEF Session
    <2>4. CASE RevokeAllRefreshTokens(c) \/ Logout(c)
      <3>1. PICK tokens \in SUBSET Sessions : Revoke(tokens)
        BY <2>4 DEF RevokeAllRefreshTokens, Logout
      <3>2. ends' \in [Emails -> Nat]
        BY <1>0, <2>4 DEF RevokeAllRefreshTokens, Logout
      <3>3. \A t \in Names : \/ session'[t] = session[t]
                              \/ session'[t].state = "revoked"
        BY <1>0, <3>1 DEF Revoke, Session
      <3>4. session' \in [Names -> Session]
        BY <1>0, <3>1 DEF Revoke, Session
      <3> QED
        BY <1>0, <3>2, <3>3, <3>4
    <2> QED
      BY <1>2, <2>1, <2>2, <2>3, <2>4, AccountFrame, OidcFrame, GrantFrame DEF Step
  <1> QED
    BY <1>1, <1>2, NextIs

\* What hands out a ticket, and what takes one.
Issues(c) ==
  \E kind \in Kinds, e \in Emails \cup {Null} :
    /\ Issue(kind, c, e) /\ Under(c) /\ call'[c].pc = "ok"
    /\ kind = "handoff" => e \in Emails
Takes ==
  \E kind \in Kinds, t \in Names :
    Consume(kind, t) /\ (kind = "handoff" => ticket[kind][t].state # "none")

LEMMA TicketChanges ==
  ASSUME Typed, NEW c \in Calls, Step(c)
  PROVE  UNCHANGED ticket \/ Issues(c) \/ Takes
  <1>0. /\ Requests /\ Equipped(c) /\ Kinds = {"verify", "reset", "web", "oauth", "handoff"}
        /\ call[c].user \in Emails \cup {Null}
    BY DEF Typed, Kinds, Requests, Request
  <1>1. CASE IssueEmailVerification(c) \/ RequestPasswordReset(c)
    <2>1. PICK kind \in {"verify", "reset"} : Issue(kind, c, call[c].user) /\ Goto(c, "ok")
      BY <1>1 DEF IssueEmailVerification, RequestPasswordReset
    <2>2. Under(c)
      BY <1>1 DEF IssueEmailVerification, RequestPasswordReset, Under, At, Ended
    <2> QED
      BY <1>0, <2>1, <2>2, Goes DEF Issues
  <1>2. CASE SaveLoginState(c)
    <2>1. /\ call[c].tok \in {"web", "oauth"} /\ Under(c)
          /\ Issue(call[c].tok, c, Null) /\ Goto(c, "ok")
      BY <1>0, <1>2 DEF SaveLoginState, Under, At, Ended, Equipped, Fits, Journey
    <2> QED
      BY <1>0, <2>1, Goes DEF Issues
  <1>3. CASE CreateWebHandoff(c)
    <2>1. /\ call[c].user \in Emails /\ Under(c)
          /\ Issue("handoff", c, call[c].user) /\ Goto(c, "ok")
      BY <1>0, <1>3 DEF CreateWebHandoff, Under, At, Ended, Equipped, Fits
    <2> QED
      BY <1>0, <2>1, Goes DEF Issues
  <1>4. CASE MarkVerified(c) \/ SetPassword(c)
    <2>1. call[c].tok \in Names
      BY <1>0, <1>4 DEF MarkVerified, SetPassword, At, Equipped, Fits, Journey, Ended
    <2> QED
      BY <1>0, <1>4, <2>1 DEF MarkVerified, SetPassword, Takes, Consume
  <1>5. CASE StartCallback(c) \/ StartOidcSession(c)
    BY <1>0, <1>5 DEF StartCallback, StartOidcSession, Takes, Presented
  <1> QED
    BY <1>1, <1>2, <1>3, <1>4, <1>5, AccountFrame, OidcFrame, GrantFrame DEF Step

LEMMA TicketsTyped ==
  ASSUME Typed, Next
  PROVE  /\ ticket' \in [Kinds -> [Names -> Ticket]]
         /\ \A t \in Names : ticket'["handoff"][t].state # "none" => ticket'["handoff"][t].user \in Emails
  <1> DEFINE Goal == /\ ticket' \in [Kinds -> [Names -> Ticket]]
                     /\ \A t \in Names : ticket'["handoff"][t].state # "none"
                          => ticket'["handoff"][t].user \in Emails
  <1>0. /\ ticket \in [Kinds -> [Names -> Ticket]] /\ "handoff" \in Kinds
        /\ \A t \in Names : ticket["handoff"][t].state # "none" => ticket["handoff"][t].user \in Emails
    BY DEF Typed, TypeOK, AccountsTypeOK, Kinds
  <1>2. CASE UNCHANGED ticket
    BY <1>0, <1>2
  <1>3. ASSUME NEW kind \in Kinds, NEW t \in Names, NEW s \in {"used", "expired"},
               kind = "handoff" => ticket[kind][t].state # "none",
               ticket' = [ticket EXCEPT ![kind][t].state = s]
        PROVE  Goal
    <2>1. ticket' \in [Kinds -> [Names -> Ticket]]
      <3> DEFINE x == [ticket[kind][t] EXCEPT !.state = s]
                 row == [ticket[kind] EXCEPT ![t] = x]
      <3>1. x \in Ticket
        <4>1. ticket[kind][t] \in Ticket /\ s \in {"used", "expired"}
          BY <1>0, <1>3
        <4> QED
          BY <4>1 DEF Ticket
      <3>2. ticket' = [ticket EXCEPT ![kind] = row]
        BY <1>0, <1>3
      <3> HIDE DEF x
      <3>3. row \in [Names -> Ticket]
        BY <1>0, <3>1
      <3> HIDE DEF row
      <3> QED
        BY <1>0, <3>2, <3>3
    <2>2. \A u \in Names : \/ ticket'["handoff"][u] = ticket["handoff"][u]
                           \/ /\ ticket["handoff"][u].state # "none"
                              /\ ticket'["handoff"][u].user = ticket["handoff"][u].user
      BY <1>0, <1>3 DEF Ticket
    <2> QED
      BY <1>0, <2>1, <2>2
  <1>4. ASSUME NEW c \in Calls, Issues(c) PROVE Goal
    <2>1. PICK kind \in Kinds, e \in Emails \cup {Null} :
            Issue(kind, c, e) /\ (kind = "handoff" => e \in Emails)
      BY <1>4 DEF Issues
    <2> DEFINE x == [state |-> "open", user |-> e]
    <2>2. x \in Ticket /\ x.user = e /\ c \in Names
      BY DEF Ticket, Names
    <2>3. ticket' = [ticket EXCEPT ![kind][c] = x]
      BY <2>1 DEF Issue
    <2> HIDE DEF x
    <2> QED
      BY <1>0, <2>1, <2>2, <2>3
  <1>5. CASE Outside
    <2>1. \/ UNCHANGED ticket
          \/ \E kind \in Kinds, t \in Names :
               ticket[kind][t].state = "open" /\ ticket' = [ticket EXCEPT ![kind][t].state = "expired"]
      BY <1>5 DEF Outside, Expire, DiscoveryEnds, ExpireCode, Administer
    <2> QED
      BY <1>2, <1>3, <2>1
  <1> QED
    BY <1>2, <1>3, <1>4, <1>5, NextIs, TicketChanges DEF Takes, Consume

LEMMA OthersTyped ==
  ASSUME Typed, Next
  PROVE  /\ wrong' \in [Emails -> Nat] /\ events' \in 0 .. MaxEvents /\ crossed' \in BOOLEAN
         /\ caught' \in [Emails -> SUBSET Calls]
         /\ OidcTypeOK'
  <1>0. /\ wrong \in [Emails -> Nat] /\ events \in 0 .. MaxEvents /\ crossed \in BOOLEAN
        /\ MaxEvents \in Nat /\ OidcTypeOK /\ caught \in [Emails -> SUBSET Calls]
    BY AccountsAssumption DEF Typed, TypeOK, AccountsTypeOK
  <1>1. wrong' \in [Emails -> Nat]
    <2>1. CASE Outside
      BY <1>0, <2>1 DEF Outside, Expire, DiscoveryEnds, ExpireCode, Administer
    <2>2. ASSUME NEW c \in Calls, SetPassword(c) PROVE wrong' \in [Emails -> Nat]
      BY <1>0, <2>2 DEF SetPassword
    <2>3. ASSUME NEW c \in Calls, NEW op, StartSignIn(c, op) PROVE wrong' \in [Emails -> Nat]
      <3>1. PICK e \in Emails :
              \E pc : wrong' = [wrong EXCEPT ![e] = CASE pc = "refused" -> @
                                                     [] pc = "recordFailed" -> @ + 1
                                                     [] OTHER -> 0]
        BY <2>3 DEF StartSignIn
      <3> PICK pc :
              wrong' = [wrong EXCEPT ![e] = CASE pc = "refused" -> @
                                              [] pc = "recordFailed" -> @ + 1
                                              [] OTHER -> 0]
        BY <3>1
      <3> DEFINE n == CASE pc = "refused" -> wrong[e]
                        [] pc = "recordFailed" -> wrong[e] + 1
                        [] OTHER -> 0
      <3>2. n \in Nat
        BY <1>0
      <3>3. wrong' = [wrong EXCEPT ![e] = n]
        OBVIOUS
      <3> HIDE DEF n
      <3> QED
        BY <1>0, <3>2, <3>3
    <2> QED
      BY <1>0, <2>1, <2>2, <2>3, NextIs, AccountFrame, OidcFrame, GrantFrame DEF Step
  <1>2. events' \in 0 .. MaxEvents
    <2>1. CASE Outside
      BY <1>0, <2>1 DEF Outside, Expire, DiscoveryEnds, ExpireCode, Administer
    <2>2. ASSUME NEW c \in Calls, CutOff(c) PROVE events' \in 0 .. MaxEvents
      BY <1>0, <2>2 DEF CutOff
    <2> QED
      BY <1>0, <2>1, <2>2, NextIs, AccountFrame, OidcFrame, GrantFrame DEF Step
  <1>3. crossed' \in BOOLEAN
    <2>1. CASE Outside
      BY <1>0, <2>1, Zenon DEF Outside, Expire, DiscoveryEnds, ExpireCode, Administer
    <2>2. ASSUME NEW c \in Calls, Step(c) PROVE crossed' \in BOOLEAN
      <3>1. CASE Starting(c)
        BY <3>1, Zenon DEF Starting
      <3>2. CASE Going(c)
        BY <1>0, <3>2, Zenon DEF Going
      <3> QED
        BY <2>2, <3>1, <3>2, StepCourse DEF Course
    <2> QED
      BY <2>1, <2>2, NextIs
  <1>4. OidcTypeOK'
    <2>1. CASE Outside
      BY <1>0, <2>1 DEF Outside, Expire, DiscoveryEnds, ExpireCode, Administer, oidcVars, OidcTypeOK
    <2>2. ASSUME NEW c \in Calls, Step(c) PROVE OidcTypeOK'
      <3>1. linked' \in Emails \cup {Null}
        <4>1. ASSUME Link(c) PROVE linked' \in Emails \cup {Null}
          BY <1>0, <4>1 DEF Link, At, Typed, Equipped, Fits, OidcTypeOK
        <4> QED
          BY <1>0, <2>2, <4>1, OidcFrame, GrantFrame DEF Step, oidcVars, OidcTypeOK
      <3>2. discovery' \in {"none", "pending", "ready"}
        BY <1>0, <2>2, OidcFrame, GrantFrame DEF Step, oidcVars, OidcTypeOK, Discover
      <3>3. claims' \in [Calls -> Emails \cup {Null}]
        BY <1>0, <2>2, OidcFrame, GrantFrame DEF Step, oidcVars, OidcTypeOK, Redeem
      <3> QED
        BY <3>1, <3>2, <3>3 DEF OidcTypeOK
    <2> QED
      BY <2>1, <2>2, NextIs
  <1>5. caught' \in [Emails -> SUBSET Calls]
    <2>1. CASE Outside
      BY <1>0, <2>1 DEF Outside, Expire, DiscoveryEnds, ExpireCode, Administer
    <2>2. ASSUME NEW c \in Calls, RecordFailedLogin(c) PROVE caught' \in [Emails -> SUBSET Calls]
      <3>1. \/ caught' = caught
            \/ caught' = [caught EXCEPT ![call[c].user] = {d \in Calls : Under(d)}]
        BY <2>2 DEF RecordFailedLogin
      <3> QED
        BY <1>0, <3>1
    <2> QED
      BY <1>0, <2>1, <2>2, NextIs, AccountFrame, OidcFrame, GrantFrame DEF Step
  <1> QED
    BY <1>1, <1>2, <1>3, <1>4, <1>5

LEMMA GrantsTyped ==
  ASSUME Typed, Next
  PROVE  GrantsTypeOK'
  <1>0. /\ GrantsTypeOK /\ NoScope \in Scope
        /\ \A c \in Calls : call[c].user \in Emails \cup {Null}
    BY DEF Typed, TypeOK, NoScope, Scope, Versions, Requests, Request
  <1>1. CASE UNCHANGED grantVars
    BY <1>0, <1>1 DEF grantVars, GrantsTypeOK
  <1>2. CASE ExpireCode
    <2>1. PICK t \in Names : code' = [code EXCEPT ![t].state = "expired"]
      BY <1>2 DEF ExpireCode
    <2>2. code' \in [Names -> [scope : Scope, state : {"none", "open", "expired", "used"}]]
      BY <1>0, <2>1 DEF GrantsTypeOK
    <2> QED
      BY <1>0, <1>2, <2>2 DEF ExpireCode, GrantsTypeOK
  <1>3. CASE Administer
    BY <1>0, <1>3 DEF Administer, GrantsTypeOK
  <1>4. ASSUME NEW c \in Calls, GrantStep(c) PROVE GrantsTypeOK'
    <2>0. c \in Names /\ call[c].user \in Emails \cup {Null}
      BY <1>0 DEF Names
    <2>1. client' \in {"none", "here", "elsewhere"}
      BY <1>0, <1>4, GrantFrame DEF GrantsTypeOK, RegisterClient
    <2>2. selection' \in [Names -> Emails \cup {Null}]
      BY <1>0, <1>4, <2>0, GrantFrame DEF GrantsTypeOK, ConnectionSelectionPage, SelectionFor
    <2>3. code' \in [Names -> [scope : Scope, state : {"none", "open", "expired", "used"}]]
      <3>1. CASE CreateAuthorizationCode(c)
        <4> DEFINE x == [scope |-> asked[c], state |-> "open"]
        <4>1. x \in [scope : Scope, state : {"none", "open", "expired", "used"}]
          BY <1>0 DEF GrantsTypeOK
        <4>2. code' = [code EXCEPT ![c] = x]
          BY <3>1 DEF CreateAuthorizationCode
        <4> HIDE DEF x
        <4> QED
          BY <1>0, <4>1, <4>2 DEF GrantsTypeOK
      <3>2. CASE ConsumeCode(c)
        <4> DEFINE t == call[c].tok
        <4>1. code' = [code EXCEPT ![t].state = "used"]
          BY <3>2 DEF ConsumeCode
        <4> HIDE DEF t
        <4> QED
          BY <1>0, <4>1 DEF GrantsTypeOK
      <3> QED
        BY <1>0, <1>4, <3>1, <3>2, GrantFrame DEF GrantsTypeOK
    <2>4. grant' \in [Names -> [scope : Scope, from : Names \cup {Null}]]
      <3>1. CASE InsertGrant(c)
        <4> DEFINE t == call[c].tok
                   scope == code[t].scope
                   x == [scope |-> scope, from |-> t]
        <4>1. t \in Names
          BY <3>1 DEF InsertGrant, At, Typed, Equipped, Fits, Journey, Ended
        <4>2. x \in [scope : Scope, from : Names \cup {Null}]
          BY <1>0, <4>1 DEF GrantsTypeOK
        <4>3. grant' = [grant EXCEPT ![c] = x]
          BY <3>1 DEF InsertGrant
        <4> HIDE DEF x
        <4> QED
          BY <1>0, <4>2, <4>3 DEF GrantsTypeOK
      <3> QED
        BY <1>0, <1>4, <3>1, GrantFrame DEF GrantsTypeOK
    <2>5. access' \in [Calls -> Scope]
      <3>1. ASSUME NEW scope \in Scope, IssueAccessToken(c, scope) PROVE access' \in [Calls -> Scope]
        BY <1>0, <3>1 DEF IssueAccessToken, GrantsTypeOK
      <3>2. CASE InsertGrant(c)
        <4>1. call[c].tok \in Names
          BY <3>2 DEF InsertGrant, At, Typed, Equipped, Fits, Journey, Ended
        <4>2. code[call[c].tok].scope \in Scope
          BY <1>0, <4>1 DEF GrantsTypeOK
        <4> QED
          BY <3>1, <3>2, <4>2 DEF InsertGrant
      <3>3. CASE RefreshGrant(c)
        BY <1>0, <3>1, <3>3 DEF RefreshGrant, GrantsTypeOK
      <3>4. CASE MintToken(c)
        <4>1. \A read \in Versions :
                [user |-> call[c].user, tenant |-> Tenant, read |-> read, write |-> "v11"] \in Scope
          BY <2>0 DEF Scope
        <4> QED
          BY <1>0, <3>1, <3>4, <4>1 DEF MintToken, Refused, grantVars, GrantsTypeOK
      <3> QED
        BY <1>0, <1>4, <3>2, <3>3, <3>4, GrantFrame DEF GrantsTypeOK
    <2>6. asked' \in [Calls -> Scope]
      <3>1. CASE StartSelect(c)
        <4>1. PICK t \in Names, tenant \in {Tenant, Null}, read \in Versions, write \in {"v11", Null} :
                asked' = [asked EXCEPT ![c] =
                   [user |-> selection[t], tenant |-> tenant, read |-> read, write |-> write]]
          BY <3>1 DEF StartSelect
        <4>2. [user |-> selection[t], tenant |-> tenant, read |-> read, write |-> write] \in Scope
          BY <1>0 DEF GrantsTypeOK, Scope
        <4> QED
          BY <1>0, <4>1, <4>2 DEF GrantsTypeOK
      <3> QED
        BY <1>0, <1>4, <3>1, GrantFrame DEF GrantsTypeOK
    <2>7. member' \subseteq Emails /\ config' \subseteq Configs
      BY <1>0, <1>4, GrantFrame DEF GrantsTypeOK, EnsureV11ReadDefaults, Configs
    <2> QED
      BY <2>1, <2>2, <2>3, <2>4, <2>5, <2>6, <2>7 DEF GrantsTypeOK
  <1> QED
    BY <1>1, <1>2, <1>3, <1>4, NextIs DEF Outside, Step, Expire, DiscoveryEnds

LEMMA StepTyped ==
  ASSUME Typed, Next
  PROVE  Typed'
  <1>1. TypeOK'
    BY AccountsTyped, SessionsTyped, TicketsTyped, OthersTyped, GrantsTyped DEF TypeOK, AccountsTypeOK
  <1>2. Requests' /\ \A d \in Calls : Equipped(d)'
    <2>1. CASE Outside
      BY <2>1, OutsideCourse
    <2>2. ASSUME NEW c \in Calls, Step(c) PROVE Requests' /\ \A d \in Calls : Equipped(d)'
      <3>1. Requests' /\ Others(c) /\ Equipped(c)'
        BY <2>2, StepCourse DEF Course
      <3>2. \A d \in Calls : d # c => claims'[d] = claims[d]
        <4>1. CASE UNCHANGED claims
          BY <4>1
        <4>2. CASE Redeem(c)
          BY <4>2 DEF Redeem, Typed, TypeOK, OidcTypeOK
        <4> QED
          BY <2>2, <4>1, <4>2, OidcFrame, GrantFrame DEF Step, oidcVars
      <3> QED
        BY <3>1, <3>2 DEF Others, Typed, Equipped
    <2> QED
      BY <2>1, <2>2, NextIs
  <1> QED
    BY <1>1, <1>2, SessionsTyped, TicketsTyped DEF Typed

LEMMA InitTyped ==
  ASSUME Init
  PROVE  Typed
  <1>0. Threshold \in Nat \ {0} /\ 0 \in 0 .. Threshold /\ MaxEvents \in Nat /\ Old \in Names /\ 0 \in 0 .. MaxEvents
    BY AccountsAssumption DEF Names
  <1>1. PICK e \in Emails, a \in Accounts :
          /\ account = [d \in Emails |-> IF d = e THEN a ELSE NoAccount]
          /\ session = [t \in Names |-> IF t = Old /\ a.exists
                          THEN [NoSession EXCEPT !.state = "live", !.user = e] ELSE NoSession]
          /\ ticket = [k \in Kinds |-> [t \in Names |->
                         IF t = Old /\ (a.exists \/ k \in {"web", "oauth"})
                         THEN [state |-> "open", user |-> IF k \in {"web", "oauth"} THEN Null ELSE e]
                         ELSE NoTicket]]
          /\ wrong = [d \in Emails |-> account[d].failed]
          /\ call = [c \in Calls |-> [op |-> "none", pc |-> "idle", user |-> Null, tok |-> Null, count |-> 0, began |-> 0]]
          /\ ends = [d \in Emails |-> 0] /\ caught = [d \in Emails |-> {}]
          /\ events = 0 /\ crossed = FALSE
    BY Zenon DEF Init, AccountsInit
  <1>2. NoAccount \in Account
    BY <1>0 DEF Account, NoAccount
  <1>3. Accounts \subseteq Account
    <2> DEFINE used == [NoAccount EXCEPT !.password = "set", !.exists = TRUE]
    <2>1. used \in Account
      BY <1>2 DEF Account
    <2> HIDE DEF used
    <2>2. Threshold - 1 \in 0 .. Threshold
      BY <1>0
    <2>3. /\ [used EXCEPT !.failed = Threshold - 1] \in Account
          /\ [used EXCEPT !.lock = "until"] \in Account
          /\ [used EXCEPT !.password = "none"] \in Account
      BY <2>1, <2>2 DEF Account
    <2> QED
      BY <1>2, <2>1, <2>3 DEF Accounts, used
  <1>4. account \in [Emails -> Account]
    BY <1>1, <1>2, <1>3
  <1>5. wrong \in [Emails -> Nat]
    BY <1>0, <1>1, <1>4 DEF Account
  <1>6. /\ session \in [Names -> Session]
        /\ \A t \in Names : session[t].state \in {"live", "expired"} => session[t].user \in Emails
    <2>1. NoSession \in Session /\ NoSession.state = "none"
      BY DEF Session, NoSession
    <2> DEFINE x == [NoSession EXCEPT !.state = "live", !.user = e]
    <2>2. x \in Session /\ x.user = e
      BY <2>1 DEF Session
    <2>3. \A t \in Names : session[t] \in {x, NoSession}
      BY <1>1
    <2>4. session = [t \in Names |-> session[t]]
      BY <1>1
    <2> HIDE DEF x
    <2> QED
      BY <2>1, <2>2, <2>3, <2>4
  <1>7. /\ ticket \in [Kinds -> [Names -> Ticket]]
        /\ \A t \in Names : ticket["handoff"][t].state # "none" => ticket["handoff"][t].user \in Emails
    <2>1. NoTicket \in Ticket /\ NoTicket.state = "none"
      BY DEF Ticket, NoTicket
    <2>2. \A k \in Kinds, t \in Names :
            \/ ticket[k][t] = NoTicket
            \/ ticket[k][t] = [state |-> "open", user |-> IF k \in {"web", "oauth"} THEN Null ELSE e]
      BY <1>1
    <2>3. \A u \in Emails \cup {Null} : [state |-> "open", user |-> u] \in Ticket
      BY DEF Ticket
    <2>4. \A k \in Kinds, t \in Names : ticket[k][t] \in Ticket
      <3> TAKE k \in Kinds, t \in Names
      <3> DEFINE u == IF k \in {"web", "oauth"} THEN Null ELSE e
      <3>1. u \in Emails \cup {Null}
        OBVIOUS
      <3>2. ticket[k][t] = NoTicket \/ ticket[k][t] = [state |-> "open", user |-> u]
        BY <2>2
      <3> HIDE DEF u
      <3> QED
        BY <2>1, <2>3, <3>1, <3>2
    <2>5. ticket = [k \in Kinds |-> [t \in Names |-> ticket[k][t]]]
      BY <1>1
    <2>6. \A t \in Names : ticket["handoff"][t].state # "none" => ticket["handoff"][t].user \in Emails
      <3> TAKE t \in Names
      <3>1. "handoff" \in Kinds /\ "handoff" \notin {"web", "oauth"}
        BY DEF Kinds
      <3>2. ticket["handoff"][t] = NoTicket \/ ticket["handoff"][t] = [state |-> "open", user |-> e]
        BY <2>2, <3>1
      <3> QED
        BY <2>1, <3>2
    <2>7. ticket \in [Kinds -> [Names -> Ticket]]
      BY <2>4, <2>5
    <2> QED
      BY <2>6, <2>7
  <1>8. Requests /\ \A c \in Calls : Equipped(c)
    <2> DEFINE q == [op |-> "none", pc |-> "idle", user |-> Null, tok |-> Null, count |-> 0, began |-> 0]
    <2>1. q \in Request({"none", "idle"})
      BY <1>0 DEF Request
    <2>2. Fits("none", "idle", Null, Null, Null)
      BY DEF Fits, Journey
    <2>3. \A c \in Calls : claims[c] = Null
      BY DEF Init, OidcInit
    <2>4. q.op = "none" /\ q.pc = "idle" /\ q.user = Null /\ q.tok = Null
      OBVIOUS
    <2>5. call = [c \in Calls |-> q]
      BY <1>1
    <2> HIDE DEF q
    <2> QED
      BY <2>1, <2>2, <2>3, <2>4, <2>5 DEF Requests, Equipped
  <1>9. OidcTypeOK
    BY DEF Init, OidcInit, OidcTypeOK
  <1>10. GrantsTypeOK
    <2> DEFINE users == {d \in Emails : Registered(d)}
               old == [t \in Names |-> IF t = Old /\ users # {} THEN CHOOSE d \in users : TRUE ELSE Null]
               scope == [t \in Names |-> IF old[t] = Null THEN NoScope
                                         ELSE [NoScope EXCEPT !.user = old[t], !.tenant = Tenant]]
    <2>1. /\ client = "here" /\ selection = old
          /\ code = [t \in Names |-> [scope |-> scope[t], state |-> IF old[t] = Null THEN "none" ELSE "open"]]
          /\ grant = [t \in Names |-> [scope |-> scope[t], from |-> Null]]
          /\ access = [c \in Calls |-> NoScope] /\ asked = [c \in Calls |-> NoScope]
          /\ member = users /\ config = {"v11 write", "v12 read"}
      BY DEF Init, GrantsInit
    <2>2. old \in [Names -> Emails \cup {Null}]
      OBVIOUS
    <2> HIDE DEF old
    <2>3. NoScope \in Scope
      BY DEF NoScope, Scope, Versions
    <2>4. scope \in [Names -> Scope]
      BY <2>2, <2>3 DEF Scope
    <2> HIDE DEF scope
    <2>5. users \subseteq Emails
      OBVIOUS
    <2> HIDE DEF users
    <2> QED
      BY <2>1, <2>2, <2>3, <2>4, <2>5 DEF GrantsTypeOK, Configs
  <1> QED
    BY <1>0, <1>1, <1>4, <1>5, <1>6, <1>7, <1>8, <1>9, <1>10 DEF Typed, TypeOK, AccountsTypeOK

\* Every variable keeps its type, and every request is where its kind can be
\* with the user and the token it needs there.
THEOREM TypeCorrect == Spec => []Typed
  <1>1. Init => Typed
    BY InitTyped
  <1>2. Typed /\ [Next]_vars => Typed'
    <2>1. ASSUME Typed, UNCHANGED vars PROVE Typed'
      BY <2>1 DEF vars, accountVars, oidcVars, grantVars, Typed, TypeOK, AccountsTypeOK, OidcTypeOK,
         GrantsTypeOK, Requests, Equipped
    <2> QED
      BY <2>1, StepTyped
  <1> QED
    BY <1>1, <1>2, PTL DEF Spec

-----------------------------------------------------------------------------
(* Who takes which step.                                                    *)

LEMMA Begins ==
  ASSUME Requests, NEW c \in Calls, NEW op, NEW user, NEW tok, NEW s, Begin(c, op, user, tok, s)
  PROVE  LET q == call'[c] IN
         call[c].pc = "idle" /\ q.op = op /\ q.pc = s /\ q.user = user /\ q.tok = tok
  <1>1. PICK W : call \in [Calls -> Request(W)]
    BY DEF Requests
  <1> QED
    BY <1>1 DEF Begin, At

\* The first step of a request of kind op.
Opens(c, op) == call[c].pc = "idle" /\ call'[c].op = op

LEMMA AccountActs ==
  ASSUME Requests, NEW c \in Calls,
         AccountStep(c) \/ StartSignIn(c, "consent") \/ StartSignIn(c, "cli")
  PROVE  LET pc == call[c].pc IN
         \/ CutOff(c)
         \/ StartRegister(c) /\ Opens(c, "register")
         \/ StartVerifyEmail(c) /\ Opens(c, "verify")
         \/ \E op \in {"login", "consent", "cli"} : StartSignIn(c, op) /\ Opens(c, op)
         \/ StartRefresh(c) /\ Opens(c, "refresh")
         \/ Logout(c) /\ Opens(c, "logout")
         \/ StartPasswordReset(c) /\ Opens(c, "forgot")
         \/ StartResetPassword(c) /\ Opens(c, "reset")
         \/ pc = "insertUser" /\ InsertUser(c)
         \/ pc = "mailVerification" /\ IssueEmailVerification(c)
         \/ pc = "markVerified" /\ MarkVerified(c)
         \/ pc = "recordFailed" /\ RecordFailedLogin(c)
         \/ pc = "clearFailed" /\ ClearFailed(c)
         \/ pc = "issueSession" /\ IssueSession(c)
         \/ pc = "revokeReplaced" /\ RevokeReplaced(c)
         \/ pc = "revokeAll" /\ RevokeAllRefreshTokens(c)
         \/ pc = "insertReset" /\ RequestPasswordReset(c)
         \/ pc = "setPassword" /\ SetPassword(c)
  <1>1. ASSUME NEW op, NEW user, NEW tok, NEW s, Begin(c, op, user, tok, s) PROVE Opens(c, op)
    BY <1>1, Begins DEF Opens
  <1>2. /\ StartRegister(c) => Opens(c, "register")
        /\ StartVerifyEmail(c) => Opens(c, "verify")
        /\ \A op : StartSignIn(c, op) => Opens(c, op)
        /\ StartRefresh(c) => Opens(c, "refresh")
        /\ Logout(c) => Opens(c, "logout")
        /\ StartPasswordReset(c) => Opens(c, "forgot")
        /\ StartResetPassword(c) => Opens(c, "reset")
    BY <1>1 DEF StartRegister, StartVerifyEmail, StartSignIn, StartRefresh, Logout,
       StartPasswordReset, StartResetPassword
  <1>3. /\ InsertUser(c) => call[c].pc = "insertUser"
        /\ IssueEmailVerification(c) => call[c].pc = "mailVerification"
        /\ MarkVerified(c) => call[c].pc = "markVerified"
        /\ RecordFailedLogin(c) => call[c].pc = "recordFailed"
        /\ ClearFailed(c) => call[c].pc = "clearFailed"
        /\ IssueSession(c) => call[c].pc = "issueSession"
        /\ RevokeReplaced(c) => call[c].pc = "revokeReplaced"
        /\ RevokeAllRefreshTokens(c) => call[c].pc = "revokeAll"
        /\ RequestPasswordReset(c) => call[c].pc = "insertReset"
        /\ SetPassword(c) => call[c].pc = "setPassword"
    BY DEF InsertUser, IssueEmailVerification, MarkVerified, RecordFailedLogin, ClearFailed,
       IssueSession, RevokeReplaced, RevokeAllRefreshTokens, RequestPasswordReset, SetPassword, At
  <1> QED
    BY <1>2, <1>3 DEF AccountStep

LEMMA OidcActs ==
  ASSUME Requests, NEW c \in Calls, OidcStep(c)
  PROVE  LET pc == call[c].pc IN
         \/ StartOidcLogin(c) /\ Opens(c, "oidcStart")
         \/ StartCallback(c) /\ (Opens(c, "web") \/ Opens(c, "oauth"))
         \/ StartOidcSession(c) /\ Opens(c, "oidcSession")
         \/ pc = "discover" /\ Discover(c)
         \/ pc = "saveState" /\ SaveLoginState(c)
         \/ pc = "redeem" /\ Redeem(c)
         \/ pc = "findLinked" /\ FindLinked(c)
         \/ pc = "findExact" /\ FindExact(c)
         \/ pc = "findAlike" /\ FindAlike(c)
         \/ pc = "createUser" /\ CreateUser(c)
         \/ pc = "link" /\ Link(c)
         \/ pc = "assertCanSignIn" /\ AssertCanSignIn(c)
         \/ pc = "handOff" /\ CreateWebHandoff(c)
  <1>1. ASSUME NEW op, NEW user, NEW tok, NEW s, Begin(c, op, user, tok, s) PROVE Opens(c, op)
    BY <1>1, Begins DEF Opens
  <1>2. /\ StartOidcLogin(c) => Opens(c, "oidcStart")
        /\ StartCallback(c) => Opens(c, "web") \/ Opens(c, "oauth")
        /\ StartOidcSession(c) => Opens(c, "oidcSession")
    BY <1>1 DEF StartOidcLogin, StartCallback, StartOidcSession
  <1>3. /\ Discover(c) => call[c].pc = "discover"
        /\ SaveLoginState(c) => call[c].pc = "saveState"
        /\ Redeem(c) => call[c].pc = "redeem"
        /\ FindLinked(c) => call[c].pc = "findLinked"
        /\ FindExact(c) => call[c].pc = "findExact"
        /\ FindAlike(c) => call[c].pc = "findAlike"
        /\ CreateUser(c) => call[c].pc = "createUser"
        /\ Link(c) => call[c].pc = "link"
        /\ AssertCanSignIn(c) => call[c].pc = "assertCanSignIn"
        /\ CreateWebHandoff(c) => call[c].pc = "handOff"
    BY DEF Discover, SaveLoginState, Redeem, FindLinked, FindExact, FindAlike, CreateUser, Link,
       AssertCanSignIn, CreateWebHandoff, At
  <1> QED
    BY <1>2, <1>3 DEF OidcStep

LEMMA GrantActs ==
  ASSUME Requests, NEW c \in Calls, GrantStep(c)
  PROVE  LET pc == call[c].pc IN
         \/ RegisterClient(c) /\ Opens(c, "client")
         \/ StartSelect(c) /\ Opens(c, "select")
         \/ StartExchange(c) /\ Opens(c, "exchange")
         \/ RefreshGrant(c) /\ Opens(c, "refreshGrant")
         \/ pc = "selectionPage" /\ (ConnectionSelectionPage(c) \/ RequestNoLongerValid(c))
         \/ pc = "ensureDefaults" /\ EnsureV11ReadDefaults(c)
         \/ pc = "checkConfigs" /\ CheckConfigs(c)
         \/ pc = "validateClient" /\ ValidateClient(c)
         \/ pc = "insertCode" /\ CreateAuthorizationCode(c)
         \/ pc = "consumeCode" /\ ConsumeCode(c)
         \/ pc = "insertGrant" /\ InsertGrant(c)
         \/ pc = "mintToken" /\ MintToken(c)
  <1>1. ASSUME NEW op, NEW user, NEW tok, NEW s, Begin(c, op, user, tok, s) PROVE Opens(c, op)
    BY <1>1, Begins DEF Opens
  <1>2. /\ RegisterClient(c) => Opens(c, "client")
        /\ StartSelect(c) => Opens(c, "select")
        /\ StartExchange(c) => Opens(c, "exchange")
        /\ RefreshGrant(c) => Opens(c, "refreshGrant")
    BY <1>1 DEF RegisterClient, StartSelect, StartExchange, RefreshGrant
  <1>3. /\ ConnectionSelectionPage(c) \/ RequestNoLongerValid(c) => call[c].pc = "selectionPage"
        /\ EnsureV11ReadDefaults(c) => call[c].pc = "ensureDefaults"
        /\ CheckConfigs(c) => call[c].pc = "checkConfigs"
        /\ ValidateClient(c) => call[c].pc = "validateClient"
        /\ CreateAuthorizationCode(c) => call[c].pc = "insertCode"
        /\ ConsumeCode(c) => call[c].pc = "consumeCode"
        /\ InsertGrant(c) => call[c].pc = "insertGrant"
        /\ MintToken(c) => call[c].pc = "mintToken"
    BY DEF ConnectionSelectionPage, RequestNoLongerValid, EnsureV11ReadDefaults, CheckConfigs,
       ValidateClient, CreateAuthorizationCode, ConsumeCode, InsertGrant, MintToken, At
  <1> QED
    BY <1>2, <1>3 DEF GrantStep, TokenRequest

\* As long as requests do not cross, one is under way at a time.
Alone == ~crossed => \A c, d \in Calls : Under(c) /\ Under(d) => c = d

LEMMA Solo ==
  ASSUME Typed, Alone, NEW c \in Calls, Step(c)
  PROVE  /\ \A d \in Calls : d # c => call'[d] = call[d]
         /\ ~crossed' => ~crossed /\ \A d \in Calls : d # c => ~Under(d) /\ ~Under(d)'
  <1>1. Others(c) /\ (Starting(c) \/ Going(c))
    BY StepCourse DEF Course
  <1>2. ASSUME ~crossed' PROVE ~crossed /\ \A d \in Calls : d # c => ~Under(d)
    <2>1. CASE Starting(c)
      BY <1>2, <2>1, Zenon DEF Starting, Quiet
    <2>2. CASE Going(c)
      <3>1. Under(c) /\ crossed' = crossed
        BY <1>2, <2>2, Zenon DEF Going
      <3> QED
        BY <1>2, <3>1, Zenon DEF Alone
    <2> QED
      BY <1>1, <2>1, <2>2
  <1>3. \A d \in Calls : d # c /\ ~Under(d) => ~Under(d)'
    BY <1>1 DEF Others, Under
  <1> QED
    BY <1>1, <1>2, <1>3 DEF Others

LEMMA AloneStep ==
  ASSUME Typed, Alone, Next
  PROVE  Alone'
  <1>1. CASE Outside
    <2>1. ~crossed' => ~crossed
      BY <1>1, Zenon DEF Outside, Expire, DiscoveryEnds, ExpireCode, Administer
    <2>2. \A c \in Calls : Under(c)' => Under(c)
      BY <1>1, OutsideCourse DEF Under, Ended
    <2> QED
      BY <2>1, <2>2 DEF Alone
  <1>2. ASSUME NEW c \in Calls, Step(c) PROVE Alone'
    BY <1>2, Solo DEF Alone
  <1> QED
    BY <1>1, <1>2, NextIs

LEMMA OpenedBy ==
  ASSUME Typed, NEW c \in Calls, Step(c), call[c].pc = "idle"
  PROVE  LET op == call'[c].op IN
         /\ op = "verify" => StartVerifyEmail(c)
         /\ op \in {"login", "consent", "cli"} => StartSignIn(c, op)
         /\ op = "refresh" => StartRefresh(c)
         /\ op = "reset" => StartResetPassword(c)
         /\ op \in {"web", "oauth"} => StartCallback(c)
         /\ op = "oidcSession" => StartOidcSession(c)
         /\ op = "select" => StartSelect(c)
         /\ op = "exchange" => StartExchange(c)
  <1>1. Requests
    BY DEF Typed
  <1>2. ~CutOff(c)
    BY DEF CutOff, Under
  <1> QED
    BY <1>1, <1>2, AccountActs, OidcActs, GrantActs DEF Step, Opens

LEMMA GoneBy ==
  ASSUME Typed, NEW c \in Calls, Step(c)
  PROVE  LET pc == call[c].pc IN
         \/ CutOff(c) /\ call'[c].pc = "cut" /\ crossed' = TRUE
         \/ /\ pc = "markVerified" => MarkVerified(c)
            /\ pc = "recordFailed" => RecordFailedLogin(c)
            /\ pc = "clearFailed" => ClearFailed(c)
            /\ pc = "issueSession" => IssueSession(c)
            /\ pc = "revokeReplaced" => RevokeReplaced(c)
            /\ pc = "revokeAll" => RevokeAllRefreshTokens(c)
            /\ pc = "setPassword" => SetPassword(c)
            /\ pc = "insertCode" => CreateAuthorizationCode(c)
            /\ pc = "consumeCode" => ConsumeCode(c)
            /\ pc = "insertGrant" => InsertGrant(c)
            /\ pc = "ensureDefaults" => EnsureV11ReadDefaults(c)
            /\ pc = "checkConfigs" => CheckConfigs(c)
            /\ pc = "validateClient" => ValidateClient(c)
            /\ pc = "assertCanSignIn" => AssertCanSignIn(c)
            /\ pc = "selectionPage" => ConnectionSelectionPage(c) \/ RequestNoLongerValid(c)
            /\ pc = "mintToken" => MintToken(c)
  <1>1. Requests
    BY DEF Typed
  <1>2. CutOff(c) => call'[c].pc = "cut" /\ crossed' = TRUE
    BY <1>1, Goes DEF CutOff
  <1> QED
    BY <1>1, <1>2, AccountActs, OidcActs, GrantActs DEF Step, Opens

-----------------------------------------------------------------------------
(* What is sent to be used once.                                            *)

\* A request has sent something only at its end; what a request was given was
\* sent.
Fresh == \A k \in Kinds, c \in Calls : ticket[k][c].state # "none" => call[c].pc \in Ended
Handed == \A c \in Calls : call[c].op \in {"verify", "reset"} => ticket[call[c].op][call[c].tok].state # "none"

LEMMA Used ==
  ASSUME Typed, NEW kind \in Kinds, NEW t \in Names, NEW s \in {"used", "expired"},
         ticket' = [ticket EXCEPT ![kind][t].state = s]
  PROVE  \A k \in Kinds, u \in Names :
           ticket'[k][u].state = IF k = kind /\ u = t THEN s ELSE ticket[k][u].state
  <1>1. ticket \in [Kinds -> [Names -> Ticket]]
    BY DEF Typed, TypeOK, AccountsTypeOK
  <1> DEFINE x == [ticket[kind][t] EXCEPT !.state = s]
             row == [ticket[kind] EXCEPT ![t] = x]
  <1>2. x.state = s
    BY <1>1 DEF Ticket
  <1>3. ticket' = [ticket EXCEPT ![kind] = row]
    BY <1>1
  <1> HIDE DEF x
  <1>4. \A u \in Names : row[u] = IF u = t THEN x ELSE ticket[kind][u]
    BY <1>1
  <1> HIDE DEF row
  <1>5. ticket'[kind] = row /\ \A k \in Kinds : k # kind => ticket'[k] = ticket[k]
    BY <1>1, <1>3
  <1>6. \A u \in Names : ticket'[kind][u].state = IF u = t THEN s ELSE ticket[kind][u].state
    <2>1. row[t] = x /\ \A u \in Names : u # t => row[u] = ticket[kind][u]
      BY <1>4
    <2>2. ticket'[kind][t].state = s
      BY <1>2, <1>5, <2>1
    <2>3. \A u \in Names : u # t => ticket'[kind][u].state = ticket[kind][u].state
      BY <1>5, <2>1
    <2> QED
      BY <2>2, <2>3
  <1>7. \A k \in Kinds, u \in Names : k # kind => ticket'[k][u].state = ticket[k][u].state
    BY <1>5
  <1> QED
    BY <1>6, <1>7

LEMMA Consumed ==
  ASSUME Typed, NEW kind \in Kinds, NEW t \in Names, Consume(kind, t)
  PROVE  \A k \in Kinds, u \in Names :
           ticket'[k][u].state = IF k = kind /\ u = t THEN "used" ELSE ticket[k][u].state
  <1> DEFINE s == "used"
  <1>1. s \in {"used", "expired"} /\ s = "used" /\ ticket' = [ticket EXCEPT ![kind][t].state = s]
    BY DEF Consume
  <1> HIDE DEF s
  <1> QED
    BY <1>1, Used

LEMMA Taken ==
  ASSUME Typed, Handed, NEW c \in Calls, Step(c)
  PROVE  \/ UNCHANGED ticket
         \/ \E kind \in Kinds : /\ Under(c) /\ call'[c].pc = "ok"
                                /\ \A k \in Kinds, t \in Names :
                                     ticket'[k][t].state = IF k = kind /\ t = c THEN "open" ELSE ticket[k][t].state
         \/ \E kind \in Kinds, t \in Names : Consume(kind, t) /\ ticket[kind][t].state # "none"
  <1>0. ticket \in [Kinds -> [Names -> Ticket]] /\ Kinds = {"verify", "reset", "web", "oauth", "handoff"}
        /\ Requests /\ Equipped(c) /\ c \in Names
    BY DEF Typed, TypeOK, AccountsTypeOK, Kinds, Names
  <1>2. CASE MarkVerified(c) \/ SetPassword(c)
    <2>1. PICK kind \in {"verify", "reset"} : call[c].op = kind /\ Consume(kind, call[c].tok)
      BY <1>0, <1>2 DEF MarkVerified, SetPassword, At, Equipped, Fits, Journey, Ended, Consume
    <2>2. call[c].tok \in Names
      BY <1>0, <2>1 DEF Equipped, Fits
    <2> QED
      BY <1>0, <2>1, <2>2 DEF Handed
  <1>3. CASE StartCallback(c) \/ StartOidcSession(c)
    BY <1>0, <1>3 DEF StartCallback, StartOidcSession, Presented
  <1>4. CASE IssueEmailVerification(c) \/ RequestPasswordReset(c) \/ SaveLoginState(c) \/ CreateWebHandoff(c)
    <2>1. /\ Under(c)
          /\ \E kind \in Kinds, e \in Emails \cup {Null} : Issue(kind, c, e)
          /\ call'[c].pc = "ok"
      <3>1. Under(c) /\ Goto(c, "ok")
        BY <1>4 DEF IssueEmailVerification, RequestPasswordReset, SaveLoginState, CreateWebHandoff,
           Under, At, Ended
      <3>2. call[c].user \in Emails \cup {Null}
        BY <1>0 DEF Requests, Request
      <3>3. call[c].pc = "saveState" => call[c].tok \in {"web", "oauth"}
        BY <1>0 DEF Equipped, Fits, Journey, Ended
      <3>4. \E kind \in Kinds, e \in Emails \cup {Null} : Issue(kind, c, e)
        BY <1>0, <1>4, <3>2, <3>3 DEF IssueEmailVerification, RequestPasswordReset, SaveLoginState,
           CreateWebHandoff, At
      <3> QED
        BY <1>0, <3>1, <3>4, Goes
    <2>2. PICK kind \in Kinds, e \in Emails \cup {Null} : Issue(kind, c, e)
      BY <2>1
    <2> DEFINE x == [state |-> "open", user |-> e]
    <2>3. x.state = "open" /\ ticket' = [ticket EXCEPT ![kind][c] = x]
      BY <2>2 DEF Issue
    <2> HIDE DEF x
    <2>4. \A k \in Kinds, t \in Names :
            ticket'[k][t].state = IF k = kind /\ t = c THEN "open" ELSE ticket[k][t].state
      BY <1>0, <2>3
    <2> QED
      BY <2>1, <2>4
  <1> QED
    BY <1>2, <1>3, <1>4, AccountFrame, OidcFrame, GrantFrame DEF Step

LEMMA TicketsStay ==
  ASSUME Typed, Fresh, Handed, Next
  PROVE  /\ \A k \in Kinds, t \in Names :
              /\ ticket[k][t].state # "none" => ticket'[k][t].state # "none"
              /\ ticket[k][t].state = "used" => ticket'[k][t].state = "used"
         /\ Fresh'
  <1>0. \A c \in Calls : c \in Names /\ (Under(c) => call[c].pc \notin Ended)
    BY DEF Names, Under
  <1>1. CASE Outside
    <2>1. \/ UNCHANGED ticket
          \/ \E kind \in Kinds, t \in Names :
               ticket[kind][t].state = "open" /\ ticket' = [ticket EXCEPT ![kind][t].state = "expired"]
      BY <1>1 DEF Outside, Expire, DiscoveryEnds, ExpireCode, Administer
    <2>2. \A c \in Calls : call[c].pc \in Ended => call'[c].pc \in Ended
      BY <1>1, OutsideCourse DEF Ended
    <2>3. \A k \in Kinds, t \in Names :
            \/ ticket'[k][t].state = ticket[k][t].state
            \/ ticket[k][t].state = "open" /\ ticket'[k][t].state = "expired"
      BY <2>1, Used
    <2> QED
      BY <1>0, <2>2, <2>3 DEF Fresh
  <1>2. ASSUME NEW c \in Calls, Step(c)
        PROVE  /\ \A k \in Kinds, t \in Names :
                    /\ ticket[k][t].state # "none" => ticket'[k][t].state # "none"
                    /\ ticket[k][t].state = "used" => ticket'[k][t].state = "used"
               /\ Fresh'
    <2>1. /\ \A d \in Calls : d # c => call'[d] = call[d]
          /\ call[c].pc \notin Ended
      BY <1>2, StepCourse DEF Course, Others, Starting, Going, Under, Ended
    <2>2. CASE UNCHANGED ticket
      BY <2>1, <2>2 DEF Fresh
    <2>3. ASSUME NEW kind \in Kinds, call'[c].pc = "ok",
                 \A k \in Kinds, t \in Names :
                   ticket'[k][t].state = IF k = kind /\ t = c THEN "open" ELSE ticket[k][t].state
          PROVE  /\ \A k \in Kinds, t \in Names :
                      /\ ticket[k][t].state # "none" => ticket'[k][t].state # "none"
                      /\ ticket[k][t].state = "used" => ticket'[k][t].state = "used"
                 /\ Fresh'
      <3>1. \A k \in Kinds : ticket[k][c].state = "none"
        BY <2>1 DEF Fresh
      <3> QED
        BY <1>0, <2>1, <2>3, <3>1 DEF Fresh, Ended
    <2>4. ASSUME NEW kind \in Kinds, NEW t \in Names, Consume(kind, t), ticket[kind][t].state # "none"
          PROVE  /\ \A k \in Kinds, u \in Names :
                      /\ ticket[k][u].state # "none" => ticket'[k][u].state # "none"
                      /\ ticket[k][u].state = "used" => ticket'[k][u].state = "used"
                 /\ Fresh'
      <3>1. \A k \in Kinds, u \in Names :
              ticket'[k][u].state = IF k = kind /\ u = t THEN "used" ELSE ticket[k][u].state
        BY <2>4, Consumed
      <3> QED
        BY <1>0, <2>1, <2>4, <3>1 DEF Fresh
    <2> QED
      BY <1>2, <2>2, <2>3, <2>4, Taken
  <1> QED
    BY <1>1, <1>2, NextIs

\* A started sign-in, or its code for the web, is used by who goes on with it.
SignIns  == {"web", "oauth", "oidcSession"}
Sent(op) == IF op = "oidcSession" THEN "handoff" ELSE op
Spent(c) == ticket[Sent(call[c].op)][call[c].tok].state = "used"
TakenFirst == \A c \in Calls : call[c].op \in SignIns /\ call[c].pc \notin {"refused", "cut"} => Spent(c)

LEMMA SignInTakes ==
  ASSUME Typed, NEW c \in Calls, Step(c), call[c].pc = "idle",
         call'[c].op \in SignIns, call'[c].pc # "refused"
  PROVE  LET q == call'[c] IN
         /\ q.tok \in Names
         /\ ticket[Sent(q.op)][q.tok].state = "open" /\ ticket'[Sent(q.op)][q.tok].state = "used"
  <1> DEFINE q == call'[c]
  <1>0. Requests /\ Kinds = {"verify", "reset", "web", "oauth", "handoff"}
    BY DEF Typed, Kinds
  <1>1. CASE q.op \in {"web", "oauth"}
    <2>1. PICK purpose \in {"web", "oauth"}, same \in BOOLEAN, error \in BOOLEAN, t \in Names :
            /\ Begin(c, purpose, Null, t,
                 IF same /\ ~error /\ ticket[purpose][t].state = "open" THEN "discover" ELSE "refused")
            /\ IF same THEN Consume(purpose, t) ELSE UNCHANGED ticket
      BY <1>1, OpenedBy DEF StartCallback, Presented
    <2> DEFINE s == IF same /\ ~error /\ ticket[purpose][t].state = "open" THEN "discover" ELSE "refused"
    <2>2. s # "refused" => same /\ ticket[purpose][t].state = "open"
      OBVIOUS
    <2>3. Begin(c, purpose, Null, t, s)
      BY <2>1
    <2> HIDE DEF s
    <2>4. q.op = purpose /\ q.pc = s /\ q.tok = t
      BY <1>0, <2>3, Begins
    <2>5. Consume(purpose, t) /\ ticket[purpose][t].state = "open" /\ Sent(purpose) = purpose
      BY <2>1, <2>2, <2>4 DEF Sent
    <2> QED
      BY <1>0, <2>4, <2>5, Consumed
  <1>2. CASE q.op = "oidcSession"
    <2>1. PICK t \in Names :
            /\ Begin(c, "oidcSession", ticket["handoff"][t].user, t,
                 IF ticket["handoff"][t].state = "open" THEN "assertCanSignIn" ELSE "refused")
            /\ Consume("handoff", t)
      BY <1>2, OpenedBy DEF StartOidcSession, Presented
    <2>2. q.tok = t /\ ticket["handoff"][t].state = "open"
      BY <1>0, <2>1, Begins
    <2>3. Sent("oidcSession") = "handoff"
      BY DEF Sent
    <2> QED
      BY <1>0, <1>2, <2>1, <2>2, <2>3, Consumed
  <1> QED
    BY <1>1, <1>2 DEF SignIns

LEMMA SignInStep ==
  ASSUME Typed, Fresh, Handed, TakenFirst, SignInStateOnce, Next
  PROVE  TakenFirst' /\ SignInStateOnce'
  <1>0. \A c \in Calls : call[c].op \in SignIns => Sent(call[c].op) \in Kinds /\ call[c].tok \in Names
    BY DEF Typed, Equipped, Fits, SignIns, Sent, Kinds
  <1>1. ASSUME NEW c \in Calls, call'[c].op = call[c].op, call'[c].tok = call[c].tok,
               call[c].op \in SignIns, call[c].pc \notin {"refused", "cut"}
        PROVE  Spent(c)'
    BY <1>0, <1>1, TicketsStay DEF TakenFirst, Spent
  <1>2. CASE Outside
    <2>1. \A c \in Calls : /\ call'[c].op = call[c].op /\ call'[c].tok = call[c].tok
                           /\ call'[c].pc \notin {"refused", "cut"} => call[c].pc \notin {"refused", "cut"}
      BY <1>2, OutsideCourse
    <2> QED
      BY <1>1, <2>1 DEF TakenFirst, SignInStateOnce, SignIns
  <1>3. ASSUME NEW c \in Calls, Step(c) PROVE TakenFirst' /\ SignInStateOnce'
    <2>1. /\ \A d \in Calls : d # c => call'[d] = call[d]
          /\ Starting(c) \/ Going(c)
      BY <1>3, StepCourse DEF Course, Others
    <2>2. CASE Going(c)
      <3>1. /\ call'[c].op = call[c].op /\ call'[c].tok = call[c].tok
            /\ call[c].pc \notin {"refused", "cut"}
        BY <2>2 DEF Going, Under, Ended
      <3>2. \A d \in Calls : /\ call'[d].op = call[d].op /\ call'[d].tok = call[d].tok
                             /\ call'[d].pc \notin {"refused", "cut"} => call[d].pc \notin {"refused", "cut"}
        BY <2>1, <3>1
      <3> QED
        BY <1>1, <3>2 DEF TakenFirst, SignInStateOnce, SignIns
    <2>3. CASE Starting(c)
      <3>1. call'[c].op \in SignIns /\ call'[c].pc # "refused" => Spent(c)'
        BY <1>3, <2>3, SignInTakes DEF Starting, Spent
      <3>2. \A d \in Calls : d # c /\ call'[d].op \in SignIns /\ call'[d].pc \notin {"refused", "cut"} => Spent(d)'
        BY <1>1, <2>1
      <3>3. \A d \in Calls : /\ d # c /\ call[d].op = call'[c].op /\ call[d].tok = call'[c].tok
                             /\ call'[c].op \in SignIns /\ call'[c].pc # "refused"
              => call[d].pc \in {"refused", "cut"}
        BY <1>3, <2>3, SignInTakes DEF Starting, TakenFirst, Spent
      <3>4. SignInStateOnce'
        BY <2>1, <3>3 DEF SignInStateOnce, SignIns
      <3> QED
        BY <3>1, <3>2, <3>4 DEF TakenFirst
    <2> QED
      BY <2>1, <2>2, <2>3
  <1> QED
    BY <1>2, <1>3, NextIs

\* A mailed token is used by who did its work, and, unless requests cross, not
\* yet used by who is about to.
Worked(c) == call[c].op \in {"verify", "reset"} /\ call[c].pc \in {"ok", "revokeAll"}
Works(c)  == call[c].pc \in {"markVerified", "setPassword"}
MailUsed ==
  /\ \A c \in Calls : Worked(c) => ticket[call[c].op][call[c].tok].state = "used"
  /\ ~crossed => \A c \in Calls :
       /\ Works(c) => ticket[call[c].op][call[c].tok].state # "used"
       /\ Worked(c) => \A d \in Calls :
            Worked(d) /\ call[d].op = call[c].op /\ call[d].tok = call[c].tok => d = c

LEMMA MailOpens ==
  ASSUME Typed, NEW c \in Calls, Step(c), call[c].pc = "idle", call'[c].op \in {"verify", "reset"}
  PROVE  LET q == call'[c] IN
         /\ q.tok \in Names /\ ticket' = ticket /\ ~Worked(c)'
         /\ ticket[q.op][q.tok].state # "none"
         /\ Works(c)' => ticket[q.op][q.tok].state = "open"
  <1>0. Requests
    BY DEF Typed
  <1>1. PICK kind \in {"verify", "reset"}, t \in Names, s \in {"markVerified", "setPassword", "refused"} :
          /\ ticket[kind][t].state # "none" /\ ticket' = ticket
          /\ Begin(c, kind, ticket[kind][t].user, t, s)
          /\ s # "refused" => ticket[kind][t].state = "open"
    BY OpenedBy DEF StartVerifyEmail, StartResetPassword, Presented
  <1>2. LET q == call'[c] IN q.op = kind /\ q.tok = t /\ q.pc = s
    BY <1>0, <1>1, Begins
  <1> QED
    BY <1>1, <1>2 DEF Worked, Works

LEMMA MailStep ==
  ASSUME Typed, Alone, Fresh, Handed, MailUsed, Next
  PROVE  Handed' /\ MailUsed'
  <1>0. /\ \A c \in Calls : call[c].op \in {"verify", "reset"} => call[c].op \in Kinds /\ call[c].tok \in Names
        /\ \A c \in Calls : Works(c) => call[c].op \in {"verify", "reset"} /\ Under(c)
    BY DEF Typed, Equipped, Fits, Kinds, Works, Under, Journey, Ended
  <1>1. \A c \in Calls : call[c].op \in {"verify", "reset"} =>
          LET o == call[c].op  t == call[c].tok IN
          /\ ticket[o][t].state # "none" => ticket'[o][t].state # "none"
          /\ ticket[o][t].state = "used" => ticket'[o][t].state = "used"
    BY <1>0, TicketsStay
  <1>2. CASE Outside
    <2>1. \A c \in Calls : /\ call'[c].op = call[c].op /\ call'[c].tok = call[c].tok
                           /\ call'[c].pc \in {"ok", "revokeAll"} <=> call[c].pc \in {"ok", "revokeAll"}
                           /\ Works(c)' => Works(c)
      BY <1>2, OutsideCourse DEF Works
    <2>2. Handed'
      BY <1>1, <2>1 DEF Handed
    <2>3. ~crossed' => ~crossed
      BY <1>2, Zenon DEF Outside, Expire, DiscoveryEnds, ExpireCode, Administer
    <2>4. \A k \in Kinds, t \in Names : ticket[k][t].state # "used" => ticket'[k][t].state # "used"
      <3>1. \/ UNCHANGED ticket
            \/ \E k \in Kinds, t \in Names : ticket' = [ticket EXCEPT ![k][t].state = "expired"]
        BY <1>2 DEF Outside, Expire, DiscoveryEnds, ExpireCode, Administer
      <3> QED
        BY <3>1, Used
    <2>5. \A c \in Calls : Worked(c)' <=> Worked(c)
      BY <2>1 DEF Worked
    <2> QED
      BY <1>0, <1>1, <2>1, <2>2, <2>3, <2>4, <2>5 DEF MailUsed, Worked
  <1>3. ASSUME NEW c \in Calls, Step(c) PROVE Handed' /\ MailUsed'
    <2>1. /\ \A d \in Calls : d # c => call'[d] = call[d]
          /\ Starting(c) \/ Going(c)
          /\ ~crossed' => ~crossed /\ \A d \in Calls : d # c => ~Under(d)
      BY <1>3, Solo, StepCourse DEF Course
    <2>2. \A d \in Calls : d # c /\ Worked(d)' => Worked(d) /\ ticket'[call'[d].op][call'[d].tok].state = "used"
      BY <1>1, <2>1 DEF Worked, MailUsed
    <2>3. \A d \in Calls : d # c /\ ~crossed' => ~Works(d)'
      BY <1>0, <2>1 DEF Works
    <2>4. CASE Starting(c)
      <3> DEFINE q == call'[c]
      <3>1. q.op \in {"verify", "reset"} =>
              /\ ~Worked(c)' /\ ticket'[q.op][q.tok].state # "none"
              /\ Works(c)' => ticket'[q.op][q.tok].state = "open"
        BY <1>3, <2>4, MailOpens DEF Starting
      <3>2. Works(c)' => q.op \in {"verify", "reset"}
        BY <1>3, StepCourse DEF Course, Equipped, Fits, Journey, Ended, Works
      <3>3. Handed'
        BY <1>1, <2>1, <3>1 DEF Handed
      <3>4. ~Worked(c)'
        BY <3>1 DEF Worked
      <3> QED
        BY <2>1, <2>2, <2>3, <3>1, <3>2, <3>3, <3>4 DEF MailUsed
    <2>5. CASE Going(c)
      <3> DEFINE o == call[c].op
                 t == call[c].tok
      <3>1. call'[c].op = o /\ call'[c].tok = t
        BY <2>5 DEF Going
      <3>2. Handed'
        BY <1>1, <2>1, <3>1 DEF Handed
      <3>3. CASE Works(c) /\ call'[c].pc # "cut"
        <4>1. /\ o \in Kinds /\ t \in Names /\ o \in {"verify", "reset"}
              /\ call'[c].pc \in {"ok", "revokeAll"} /\ Consume(o, t)
          <5>1. MarkVerified(c) \/ SetPassword(c)
            BY <1>3, <3>3, GoneBy DEF Works
          <5>2. Equipped(c) /\ Requests
            BY DEF Typed
          <5>3. /\ MarkVerified(c) => o = "verify" /\ Consume("verify", t) /\ Goto(c, "ok")
                /\ SetPassword(c) => o = "reset" /\ Consume("reset", t) /\ Goto(c, "revokeAll")
            BY <5>2 DEF MarkVerified, SetPassword, Consume, At, Equipped, Fits, Journey, Ended
          <5>4. call'[c].pc \in {"ok", "revokeAll"}
            BY <5>1, <5>2, <5>3, Goes
          <5> QED
            BY <1>0, <3>3, <5>1, <5>3, <5>4
        <4>2. ticket'[o][t].state = "used"
          BY <4>1, Consumed
        <4>3. ~crossed' => \A d \in Calls : d # c /\ Worked(d) => call[d].op # o \/ call[d].tok # t
          BY <2>1, <3>3 DEF MailUsed
        <4>4. ~Works(c)'
          BY <4>1 DEF Works
        <4> QED
          BY <2>1, <2>2, <2>3, <3>1, <3>2, <4>2, <4>3, <4>4 DEF MailUsed, Worked
      <3>4. CASE ~Works(c) \/ call'[c].pc = "cut"
        <4>1. ~Works(c)' /\ (Worked(c)' => Worked(c))
          <5>1. CASE call'[c].pc = "cut"
            BY <5>1 DEF Works, Worked
          <5>2. CASE call'[c].pc # "cut" /\ o \in {"verify", "reset"} /\ ~Works(c)
            <6>1. call[c].pc = "revokeAll" /\ o = "reset"
              BY <2>5, <5>2 DEF Typed, Equipped, Fits, Journey, Works, Going, Under
            <6>2. RevokeAllRefreshTokens(c) /\ Requests
              BY <1>3, <5>2, <6>1, GoneBy DEF Typed
            <6>3. Goto(c, "ok")
              BY <6>1, <6>2 DEF RevokeAllRefreshTokens
            <6> QED
              BY <6>1, <6>2, <6>3, Goes DEF Works, Worked
          <5>3. CASE o \notin {"verify", "reset"}
            <6>1. Equipped(c)'
              BY <1>3, StepCourse DEF Course
            <6> QED
              BY <3>1, <5>3, <6>1 DEF Works, Worked, Equipped, Fits, Journey, Ended
          <5> QED
            BY <3>4, <5>1, <5>2, <5>3
        <4>2. Worked(c)' => ticket'[o][t].state = "used"
          BY <1>1, <4>1 DEF MailUsed, Worked
        <4> QED
          BY <2>1, <2>2, <2>3, <3>1, <3>2, <4>1, <4>2 DEF MailUsed, Worked
      <3> QED
        BY <3>3, <3>4
    <2> QED
      BY <2>1, <2>4, <2>5
  <1> QED
    BY <1>2, <1>3, NextIs

-----------------------------------------------------------------------------
(* What a session is replaced by.                                           *)

Refreshes(c) == call[c].op = "refresh"
Replaced(c)  == call[c].op = "refresh" /\ call[c].pc = "ok"
Replaces(c)  == call[c].op = "refresh" /\ call[c].pc \in {"issueSession", "revokeReplaced"}

\* A request has a session when it is done or about to end the older one, and
\* the older one was there.
Held ==
  /\ \A c \in Calls : session[c].state # "none" => call[c].pc \in Ended \cup {"revokeReplaced"}
  /\ \A c \in Calls : Refreshes(c) => session[call[c].tok].state # "none"

\* The older one is revoked behind the refresh and, unless requests cross,
\* live before it.
Successors ==
  /\ \A c \in Calls : Replaced(c) => session[call[c].tok].state = "revoked"
  /\ ~crossed => \A c \in Calls :
       /\ Replaces(c) => session[call[c].tok].state # "revoked"
       /\ Replaced(c) => \A d \in Calls : Replaced(d) /\ call[d].tok = call[c].tok => d = c

LEMMA SessionsStay ==
  ASSUME Typed, Held, Next
  PROVE  \A t \in Names : /\ session[t].state # "none" => session'[t].state # "none"
                          /\ session[t].state = "revoked" => session'[t].state = "revoked"
                          /\ session[t].state # "none" => session'[t].since = session[t].since
  <1>0. session \in [Names -> Session] /\ \A c \in Calls : c \in Names
    BY DEF Typed, TypeOK, AccountsTypeOK, Names
  <1>1. CASE UNCHANGED session
    BY <1>1
  <1>2. CASE Outside
    BY <1>0, <1>2 DEF Outside, Expire, DiscoveryEnds, ExpireCode, Administer, Session
  <1>3. ASSUME NEW c \in Calls, IssueSession(c)
        PROVE  \A t \in Names : \/ session'[t] = session[t]
                                \/ session[t].state = "none" /\ session'[t].state = "live"
    <2> DEFINE e == call[c].user
               x == [state |-> "live", user |-> e, next |-> Null, since |-> CountsFrom(c)]
    <2>1. session' = [session EXCEPT ![c] = x] /\ x.state = "live"
      BY <1>3 DEF IssueSession
    <2>2. session[c].state = "none"
      BY <1>3 DEF IssueSession, At, Held, Ended
    <2> HIDE DEF x
    <2> QED
      BY <1>0, <2>1, <2>2
  <1>4. ASSUME NEW c \in Calls, RevokeReplaced(c)
        PROVE  \A t \in Names : /\ session'[t] = session[t] \/ session'[t].state = "revoked"
                                /\ session'[t].since = session[t].since
    BY <1>0, <1>4 DEF RevokeReplaced, Session
  <1>5. ASSUME NEW c \in Calls, RevokeAllRefreshTokens(c) \/ Logout(c)
        PROVE  \A t \in Names : /\ session'[t] = session[t] \/ session'[t].state = "revoked"
                                /\ session'[t].since = session[t].since
    <2>1. PICK tokens \in SUBSET Sessions : Revoke(tokens)
      BY <1>5 DEF RevokeAllRefreshTokens, Logout
    <2> QED
      BY <1>0, <2>1 DEF Revoke, Session
  <1> QED
    BY <1>1, <1>2, <1>3, <1>4, <1>5, NextIs, AccountFrame, OidcFrame, GrantFrame DEF Step

LEMMA HeldStep ==
  ASSUME Typed, Held, Next
  PROVE  Held'
  <1>0. session \in [Names -> Session] /\ \A c \in Calls : c \in Names
    BY DEF Typed, TypeOK, AccountsTypeOK, Names
  <1>1. \A c \in Calls : call'[c].op = call[c].op /\ call'[c].tok = call[c].tok /\ Refreshes(c)'
          => session'[call'[c].tok].state # "none"
    BY SessionsStay DEF Held, Refreshes, Typed, Equipped, Fits
  <1>2. CASE Outside
    <2>1. \A c \in Calls : /\ call'[c].op = call[c].op /\ call'[c].tok = call[c].tok
                           /\ call[c].pc \in Ended \cup {"revokeReplaced"} => call'[c].pc = call[c].pc
      BY <1>2, OutsideCourse DEF Ended
    <2>2. \A t \in Names : session[t].state = "none" => session'[t].state = "none"
      BY <1>0, <1>2 DEF Outside, Expire, DiscoveryEnds, ExpireCode, Administer, Session
    <2> QED
      BY <1>0, <1>1, <2>1, <2>2 DEF Held
  <1>3. ASSUME NEW c \in Calls, Step(c) PROVE Held'
    <2>1. /\ \A d \in Calls : d # c => call'[d] = call[d]
          /\ call[c].pc \notin Ended /\ (Starting(c) \/ Going(c)) /\ Requests
      BY <1>3, StepCourse DEF Course, Others, Starting, Going, Under, Ended, Typed
    <2>2. Refreshes(c)' => session'[call'[c].tok].state # "none"
      <3>1. CASE Going(c)
        BY <1>1, <3>1 DEF Going
      <3>2. CASE Starting(c) /\ call'[c].op = "refresh"
        <4>1. PICK t \in Sessions : Begin(c, "refresh", session[t].user, t, Refreshed(t)) /\ UNCHANGED session
          BY <1>3, <3>2, OpenedBy DEF Starting, StartRefresh
        <4> QED
          BY <2>1, <4>1, Begins DEF Sessions
      <3> QED
        BY <2>1, <3>1, <3>2 DEF Refreshes
    <2>3. \A d \in Calls : d # c /\ Refreshes(d)' => session'[call'[d].tok].state # "none"
      BY <1>1, <2>1
    <2>4. \A d \in Calls : session'[d].state # "none" => call'[d].pc \in Ended \cup {"revokeReplaced"}
      <3>1. CASE IssueSession(c)
        <4> DEFINE e == call[c].user
                   x == [state |-> "live", user |-> e, next |-> Null, since |-> CountsFrom(c)]
        <4>1. session' = [session EXCEPT ![c] = x]
          BY <3>1 DEF IssueSession
        <4>2. call'[c].pc \in {"ok", "revokeReplaced"}
          BY <2>1, <3>1, Goes DEF IssueSession
        <4> HIDE DEF x
        <4>3. \A d \in Calls : d # c => session'[d] = session[d]
          BY <1>0, <4>1
        <4> QED
          BY <2>1, <4>2, <4>3 DEF Held, Ended
      <3>2. CASE ~IssueSession(c)
        <4>1. \A d \in Calls : session[d].state = "none" => session'[d].state = "none"
          <5>1. CASE RevokeReplaced(c)
            <6>1. call[c].op = "refresh"
              BY <5>1 DEF RevokeReplaced, At, Typed, Equipped, Fits, Journey, Ended
            <6>2. session[call[c].tok].state # "none"
              BY <6>1 DEF Held, Refreshes
            <6> QED
              BY <1>0, <5>1, <6>2 DEF RevokeReplaced, Session
          <5>2. CASE RevokeAllRefreshTokens(c) \/ Logout(c)
            <6>1. PICK tokens \in SUBSET Sessions : Revoke(tokens)
              BY <5>2 DEF RevokeAllRefreshTokens, Logout
            <6> QED
              BY <1>0, <6>1 DEF Revoke, Sessions
          <5> QED
            BY <1>3, <3>2, <5>1, <5>2, AccountFrame, OidcFrame, GrantFrame DEF Step
        <4>2. session[c].state # "none" => call[c].pc = "revokeReplaced" /\ call'[c].pc \in Ended
          <5>1. ASSUME session[c].state # "none" PROVE call[c].pc = "revokeReplaced"
            BY <2>1, <5>1 DEF Held
          <5>2. ASSUME call[c].pc = "revokeReplaced" PROVE call'[c].pc \in Ended
            <6>1. RevokeReplaced(c) => call'[c].pc = "ok"
              BY <2>1, Goes DEF RevokeReplaced
            <6> QED
              BY <1>3, <5>2, <6>1, GoneBy DEF Ended
          <5> QED
            BY <5>1, <5>2
        <4> QED
          BY <2>1, <4>1, <4>2 DEF Held
      <3> QED
        BY <3>1, <3>2
    <2> QED
      BY <2>2, <2>3, <2>4 DEF Held
  <1> QED
    BY <1>2, <1>3, NextIs

LEMMA SuccessorStep ==
  ASSUME Typed, Alone, Held, Successors, Next
  PROVE  Successors'
  <1>0. /\ session \in [Names -> Session]
        /\ \A c \in Calls : Refreshes(c) => call[c].tok \in Names
        /\ \A c \in Calls : Replaces(c) => Under(c) /\ Refreshes(c)
        /\ \A c \in Calls : Replaced(c) => Refreshes(c)
    BY DEF Typed, TypeOK, AccountsTypeOK, Equipped, Fits, Refreshes, Replaces, Replaced, Under, Ended
  <1>1. CASE Outside
    <2>1. \A c \in Calls : /\ call'[c].tok = call[c].tok
                           /\ Replaced(c)' <=> Replaced(c)
                           /\ Replaces(c)' => Replaces(c)
      BY <1>1, OutsideCourse DEF Replaced, Replaces
    <2>2. \A t \in Names : session[t].state # "revoked" => session'[t].state # "revoked"
      BY <1>0, <1>1 DEF Outside, Expire, DiscoveryEnds, ExpireCode, Administer, Session
    <2>3. ~crossed' => ~crossed
      BY <1>1, Zenon DEF Outside, Expire, DiscoveryEnds, ExpireCode, Administer
    <2> QED
      BY <1>0, <2>1, <2>2, <2>3, SessionsStay DEF Successors
  <1>2. ASSUME NEW c \in Calls, Step(c) PROVE Successors'
    <2>1. /\ \A d \in Calls : d # c => call'[d] = call[d]
          /\ Starting(c) \/ Going(c)
          /\ ~crossed' => ~crossed /\ \A d \in Calls : d # c => ~Under(d)
          /\ Requests
      BY <1>2, Solo, StepCourse DEF Course, Typed
    <2>2. \A d \in Calls : d # c /\ Replaced(d)' => Replaced(d) /\ session'[call'[d].tok].state = "revoked"
      BY <1>0, <2>1, SessionsStay DEF Replaced, Successors
    <2>3. \A d \in Calls : d # c /\ ~crossed' => ~Replaces(d)'
      BY <1>0, <2>1 DEF Replaces
    <2>4. CASE Starting(c)
      <3>1. call'[c].op = "refresh" =>
              /\ ~Replaced(c)'
              /\ Replaces(c)' => session'[call'[c].tok].state # "revoked"
        <4>1. ASSUME call'[c].op = "refresh"
              PROVE  /\ ~Replaced(c)'
                     /\ Replaces(c)' => session'[call'[c].tok].state # "revoked"
          <5>1. PICK t \in Sessions : Begin(c, "refresh", session[t].user, t, Refreshed(t)) /\ UNCHANGED session
            BY <1>2, <2>4, <4>1, OpenedBy DEF Starting, StartRefresh
          <5>2. call'[c].pc = Refreshed(t) /\ call'[c].tok = t
            BY <2>1, <5>1, Begins
          <5>3. /\ Refreshed(t) \in {"revokeAll", "refused", "issueSession"}
                /\ session[t].state = "revoked" => Refreshed(t) = "revokeAll"
            BY DEF Refreshed
          <5> QED
            BY <5>1, <5>2, <5>3 DEF Replaced, Replaces
        <4> QED
          BY <4>1
      <3>2. /\ ~Replaced(c)'
            /\ Replaces(c)' => session'[call'[c].tok].state # "revoked"
        BY <3>1 DEF Replaced, Replaces
      <3> QED
        BY <2>1, <2>2, <2>3, <3>2 DEF Successors
    <2>5. CASE Going(c)
      <3> DEFINE t == call[c].tok
      <3>1. call'[c].op = call[c].op /\ call'[c].tok = t
        BY <2>5 DEF Going
      <3>2. CASE RevokeReplaced(c) /\ call'[c].pc # "cut"
        <4>1. Replaces(c) /\ t \in Names
          BY <1>0, <3>2 DEF RevokeReplaced, At, Typed, Equipped, Fits, Journey, Ended, Replaces
        <4>2. session'[t].state = "revoked"
          BY <1>0, <3>2, <4>1 DEF RevokeReplaced, Session
        <4>3. ~crossed' => \A d \in Calls : d # c /\ Replaced(d) => call[d].tok # t
          BY <2>1, <4>1 DEF Successors
        <4>4. ~Replaces(c)'
          BY <2>1, <3>2, Goes DEF RevokeReplaced, Replaces
        <4> QED
          BY <2>1, <2>2, <2>3, <3>1, <4>2, <4>3, <4>4 DEF Successors
      <3>3. CASE ~RevokeReplaced(c) \/ call'[c].pc = "cut"
        <4>1. ~Replaced(c)'
          <5>1. CASE call'[c].pc = "cut"
            BY <5>1 DEF Replaced
          <5>2. CASE call[c].op = "refresh" /\ ~RevokeReplaced(c) /\ call'[c].pc # "cut"
            <6>1. IssueSession(c) \/ RevokeAllRefreshTokens(c)
              BY <1>2, <2>5, <5>2, GoneBy DEF Typed, Equipped, Fits, Journey, Going, Under
            <6>2. Goto(c, "revokeReplaced") \/ Goto(c, "refused")
              BY <5>2, <6>1 DEF IssueSession, RevokeAllRefreshTokens
            <6> QED
              BY <2>1, <6>2, Goes DEF Replaced
          <5> QED
            BY <3>1, <3>3, <5>1, <5>2 DEF Replaced
        <4>2. ~crossed' /\ Replaces(c)' => session'[t].state # "revoked"
          <5>1. ASSUME ~crossed', Replaces(c)' PROVE session'[t].state # "revoked"
            <6>1. call[c].op = "refresh" /\ call'[c].pc # "cut" /\ ~RevokeReplaced(c)
              BY <3>1, <3>3, <5>1 DEF Replaces
            <6>2. IssueSession(c) \/ RevokeAllRefreshTokens(c)
              BY <1>2, <2>5, <6>1, GoneBy DEF Typed, Equipped, Fits, Journey, Going, Under
            <6>3. IssueSession(c)
              <7>1. RevokeAllRefreshTokens(c) => Goto(c, "refused")
                BY <6>1 DEF RevokeAllRefreshTokens
              <7> QED
                BY <2>1, <5>1, <6>2, <7>1, Goes DEF Replaces
            <6>4. Replaces(c) /\ t \in Names /\ c \in Names
              BY <1>0, <6>1, <6>3 DEF IssueSession, At, Replaces, Refreshes, Names
            <6>5. session[t].state # "revoked"
              BY <2>1, <5>1, <6>4 DEF Successors
            <6> DEFINE e == call[c].user
                       x == [state |-> "live", user |-> e, next |-> Null, since |-> CountsFrom(c)]
            <6>6. session' = [session EXCEPT ![c] = x] /\ x.state # "revoked"
              BY <6>3 DEF IssueSession
            <6> HIDE DEF x
            <6> QED
              BY <1>0, <6>4, <6>5, <6>6
          <5> QED
            BY <5>1
        <4> QED
          BY <2>1, <2>2, <2>3, <3>1, <4>1, <4>2 DEF Successors
      <3> QED
        BY <3>2, <3>3
    <2> QED
      BY <2>1, <2>4, <2>5
  <1> QED
    BY <1>1, <1>2, NextIs

-----------------------------------------------------------------------------
(* What a code is exchanged for.                                            *)

\* A request has made a code when it is done; what is exchanged was made.
Coded ==
  /\ \A c \in Calls : code[c].state # "none" => call[c].pc \in Ended
  /\ \A c \in Calls : call[c].op = "exchange" => code[call[c].tok].state # "none"

\* What was granted, or is about to be, used its code; and, unless requests
\* cross, the code about to be used was not, and nothing else came of it.
Exchanges ==
  /\ \A t \in Names : grant[t].from # Null => code[grant[t].from].state = "used"
  /\ \A c \in Calls : At(c, "insertGrant") => code[call[c].tok].state = "used"
  /\ ~crossed => \A c \in Calls :
       /\ At(c, "consumeCode") => code[call[c].tok].state # "used"
       /\ At(c, "insertGrant") => \A t \in Names : grant[t].from # call[c].tok

LEMMA CodeMoves ==
  ASSUME Typed, Coded, Next
  PROVE  \A t \in Names :
           \/ code'[t] = code[t]
           \/ code[t].state = "open" /\ code'[t].state = "expired"
           \/ /\ code[t].state # "none" /\ code'[t].state = "used"
              /\ \E c \in Calls : ConsumeCode(c) /\ t = call[c].tok
           \/ /\ code[t].state = "none" /\ code'[t].state = "open"
              /\ CreateAuthorizationCode(t) /\ t \in Calls
  <1>0. code \in [Names -> [scope : Scope, state : {"none", "open", "expired", "used"}]]
        /\ \A c \in Calls : c \in Names
    BY DEF Typed, TypeOK, GrantsTypeOK, Names
  <1>1. CASE UNCHANGED code
    BY <1>1
  <1>2. CASE ExpireCode
    BY <1>0, <1>2 DEF ExpireCode
  <1>3. ASSUME NEW c \in Calls, CreateAuthorizationCode(c)
        PROVE  \A t \in Names : \/ code'[t] = code[t]
                                \/ t = c /\ code[c].state = "none" /\ code'[c].state = "open"
    <2> DEFINE x == [scope |-> asked[c], state |-> "open"]
    <2>1. x.state = "open" /\ code' = [code EXCEPT ![c] = x]
      BY <1>3 DEF CreateAuthorizationCode
    <2>2. code[c].state = "none"
      BY <1>3 DEF CreateAuthorizationCode, At, Coded, Ended
    <2> HIDE DEF x
    <2> QED
      BY <1>0, <2>1, <2>2
  <1>4. ASSUME NEW c \in Calls, ConsumeCode(c)
        PROVE  \A t \in Names :
                 \/ code'[t] = code[t]
                 \/ code[t].state # "none" /\ code'[t].state = "used" /\ t = call[c].tok
    <2>1. call[c].op = "exchange" /\ call[c].tok \in Names
      BY <1>4 DEF ConsumeCode, At, Typed, Equipped, Fits, Journey, Ended
    <2>2. code' = [code EXCEPT ![call[c].tok].state = "used"]
      BY <1>4 DEF ConsumeCode
    <2> QED
      BY <1>0, <2>1, <2>2 DEF Coded
  <1> QED
    BY <1>1, <1>2, <1>3, <1>4, NextIs, GrantFrame
    DEF Outside, Expire, DiscoveryEnds, Administer, Step, grantVars

LEMMA CodedStep ==
  ASSUME Typed, Coded, Next
  PROVE  Coded'
  <1>0. /\ \A c \in Calls : c \in Names
        /\ \A c \in Calls : call[c].op = "exchange" => call[c].tok \in Names
        /\ Requests /\ code \in [Names -> [scope : Scope, state : {"none", "open", "expired", "used"}]]
    BY DEF Typed, TypeOK, GrantsTypeOK, Names, Equipped, Fits
  <1>1. \A c \in Calls : call'[c].op = "exchange" /\ call[c].op = "exchange" /\ call'[c].tok = call[c].tok
          => code'[call'[c].tok].state # "none"
    BY <1>0, CodeMoves DEF Coded
  <1>2. CASE Outside
    <2>1. \A c \in Calls : /\ call'[c].op = call[c].op /\ call'[c].tok = call[c].tok
                           /\ call[c].pc \in Ended => call'[c].pc \in Ended
      BY <1>2, OutsideCourse DEF Ended
    <2>2. \A t \in Names : code[t].state = "none" => code'[t].state = "none"
      BY <1>0, <1>2 DEF Outside, Expire, DiscoveryEnds, ExpireCode, Administer, grantVars
    <2> QED
      BY <1>0, <1>1, <2>1, <2>2 DEF Coded
  <1>3. ASSUME NEW c \in Calls, Step(c) PROVE Coded'
    <2>1. /\ \A d \in Calls : d # c => call'[d] = call[d]
          /\ call[c].pc \notin Ended /\ (Starting(c) \/ Going(c))
      BY <1>3, StepCourse DEF Course, Others, Starting, Going, Under, Ended
    <2>2. call'[c].op = "exchange" => code'[call'[c].tok].state # "none"
      <3>1. CASE Going(c)
        BY <1>1, <3>1 DEF Going
      <3>2. CASE Starting(c) /\ call'[c].op = "exchange"
        <4>1. PICK t \in Names, s \in {"consumeCode", "refused"} :
                /\ code[t].state # "none" /\ UNCHANGED code
                /\ Begin(c, "exchange", code[t].scope.user, t, s)
          BY <1>3, <3>2, OpenedBy DEF Starting, StartExchange, grantVars
        <4> QED
          BY <1>0, <4>1, Begins
      <3> QED
        BY <2>1, <3>1, <3>2
    <2>3. \A d \in Calls : code'[d].state # "none" => call'[d].pc \in Ended
      <3>1. ASSUME NEW d \in Calls, code[d].state = "none", code'[d].state # "none"
            PROVE  d = c /\ call'[d].pc = "ok"
        <4>1. CreateAuthorizationCode(d)
          BY <1>0, <3>1, CodeMoves
        <4>2. Goto(d, "ok") /\ call[d].pc = "insertCode"
          BY <4>1 DEF CreateAuthorizationCode, Moves, At
        <4>3. call'[d].pc = "ok"
          BY <1>0, <4>2, Goes
        <4> QED
          BY <2>1, <4>2, <4>3
      <3> QED
        BY <2>1, <3>1 DEF Coded, Ended
    <2> QED
      BY <1>1, <2>1, <2>2, <2>3 DEF Coded
  <1> QED
    BY <1>2, <1>3, NextIs

LEMMA ExchangeStep ==
  ASSUME Typed, Alone, Coded, Exchanges, CodeServesOnce, Next
  PROVE  Exchanges' /\ CodeServesOnce'
  <1>0. /\ \A c \in Calls : At(c, "insertGrant") \/ At(c, "consumeCode")
             => Under(c) /\ call[c].op = "exchange" /\ call[c].tok \in Names
        /\ grant \in [Names -> [scope : Scope, from : Names \cup {Null}]]
        /\ code \in [Names -> [scope : Scope, state : {"none", "open", "expired", "used"}]]
        /\ \A c \in Calls : c \in Names
        /\ Requests /\ Null \notin Names
    BY AccountsAssumption DEF Typed, TypeOK, GrantsTypeOK, Names, Equipped, Fits, Journey, At, Under, Ended
  <1>1. \A t \in Names : code[t].state = "used" => code'[t].state = "used"
    BY CodeMoves
  <1>2. CASE Outside
    <2>1. \A c \in Calls : /\ call'[c].tok = call[c].tok
                           /\ At(c, "insertGrant")' <=> At(c, "insertGrant")
                           /\ At(c, "consumeCode")' => At(c, "consumeCode")
      BY <1>2, OutsideCourse DEF At
    <2>2. ~crossed' => ~crossed
      BY <1>2, Zenon DEF Outside, Expire, DiscoveryEnds, ExpireCode, Administer
    <2>3. UNCHANGED grant
      BY <1>2 DEF Outside, Expire, DiscoveryEnds, ExpireCode, Administer, grantVars
    <2>4. \A t \in Names : code[t].state # "used" => code'[t].state # "used"
      BY <1>0, <1>2 DEF Outside, Expire, DiscoveryEnds, ExpireCode, Administer, grantVars
    <2>5. Exchanges'
      BY <1>0, <1>1, <2>1, <2>2, <2>3, <2>4 DEF Exchanges
    <2> QED
      BY <2>2, <2>3, <2>5 DEF CodeServesOnce
  <1>3. ASSUME NEW c \in Calls, Step(c) PROVE Exchanges' /\ CodeServesOnce'
    <2>1. /\ \A d \in Calls : d # c => call'[d] = call[d]
          /\ Starting(c) \/ Going(c)
          /\ ~crossed' => ~crossed /\ \A d \in Calls : d # c => ~Under(d)
      BY <1>3, Solo, StepCourse DEF Course
    <2>2. \A d \in Calls : d # c /\ At(d, "insertGrant")' => code'[call'[d].tok].state = "used"
      BY <1>0, <1>1, <2>1 DEF At, Exchanges
    <2>3. \A d \in Calls : d # c /\ ~crossed' => ~At(d, "insertGrant")' /\ ~At(d, "consumeCode")'
      BY <1>0, <2>1 DEF At
    <2>4. CASE Starting(c) /\ call'[c].op = "exchange"
      <3>1. PICK t \in Names, s \in {"consumeCode", "refused"} :
              /\ UNCHANGED <<code, grant>>
              /\ s = "consumeCode" => code[t].state = "open"
              /\ Begin(c, "exchange", code[t].scope.user, t, s)
        BY <1>3, <2>4, OpenedBy DEF Starting, StartExchange, grantVars
      <3>2. call'[c].tok = t /\ call'[c].pc = s
        BY <1>0, <3>1, Begins
      <3>3. Exchanges'
        BY <1>0, <2>1, <2>2, <2>3, <3>1, <3>2 DEF Exchanges, At
      <3> QED
        BY <2>1, <3>1, <3>3 DEF CodeServesOnce
    <2>5. CASE ConsumeCode(c)
      <3> DEFINE t == call[c].tok
      <3>1. /\ At(c, "consumeCode") /\ t \in Names /\ UNCHANGED grant
            /\ code' = [code EXCEPT ![t].state = "used"]
            /\ Goto(c, "insertGrant") \/ Goto(c, "refused")
        BY <1>0, <2>5 DEF ConsumeCode, Moves
      <3>2. call'[c].tok = t /\ call'[c].pc \in {"insertGrant", "refused"}
        BY <1>0, <3>1, Goes
      <3>3. code'[t].state = "used"
        BY <1>0, <3>1
      <3>4. ~crossed' => \A u \in Names : grant[u].from # t
        BY <1>0, <2>1, <3>1 DEF Exchanges
      <3>5. \A u \in Names : grant'[u].from # Null => code'[grant'[u].from].state = "used"
        BY <1>0, <1>1, <3>1 DEF Exchanges
      <3>6. Exchanges'
        BY <2>2, <2>3, <3>1, <3>2, <3>3, <3>4, <3>5 DEF Exchanges, At
      <3> QED
        BY <2>1, <3>1, <3>6 DEF CodeServesOnce
    <2>6. CASE InsertGrant(c)
      <3> DEFINE t == call[c].tok
                 x == [scope |-> code[t].scope, from |-> t]
      <3>1. /\ At(c, "insertGrant") /\ t \in Names /\ UNCHANGED code
            /\ grant' = [grant EXCEPT ![c] = x] /\ Goto(c, "ok")
        BY <1>0, <2>6 DEF InsertGrant, Moves
      <3>2. x.from = t
        OBVIOUS
      <3> HIDE DEF x
      <3>3. call'[c].pc = "ok"
        BY <1>0, <3>1, Goes
      <3>4. \A u \in Names : grant'[u].from = IF u = c THEN t ELSE grant[u].from
        <4>1. grant'[c].from = t
          BY <1>0, <3>1, <3>2
        <4>2. \A u \in Names : u # c => grant'[u] = grant[u]
          BY <1>0, <3>1
        <4> QED
          BY <4>1, <4>2
      <3>5. code[t].state = "used"
        BY <3>1 DEF Exchanges
      <3>6. Exchanges'
        BY <2>2, <2>3, <3>1, <3>3, <3>4, <3>5 DEF Exchanges, At
      <3>7. CodeServesOnce'
        BY <2>1, <3>1, <3>4 DEF CodeServesOnce, Exchanges
      <3> QED
        BY <3>6, <3>7
    <2>7. CASE /\ ~ConsumeCode(c) /\ ~InsertGrant(c)
               /\ call'[c].op = "exchange" => Going(c)
      <3>1. UNCHANGED grant
        BY <1>3, <2>7, GrantFrame DEF Step, grantVars
      <3>2. ~At(c, "insertGrant")' /\ ~At(c, "consumeCode")'
        <4>1. Equipped(c)' /\ Equipped(c)
          BY <1>3, StepCourse DEF Course, Typed
        <4>2. CASE call'[c].op # "exchange"
          BY <4>1, <4>2 DEF Equipped, Fits, Journey, Ended, At
        <4>3. CASE call'[c].op = "exchange"
          <5>1. call[c].op = "exchange" /\ Under(c)
            BY <2>7, <4>3 DEF Going
          <5>2. call[c].pc \in {"consumeCode", "insertGrant"}
            BY <4>1, <5>1 DEF Equipped, Fits, Journey, Under
          <5> QED
            BY <1>3, <2>7, <5>2, GoneBy DEF At
        <4> QED
          BY <4>2, <4>3
      <3>3. Exchanges'
        BY <1>0, <1>1, <2>2, <2>3, <3>1, <3>2 DEF Exchanges
      <3> QED
        BY <2>1, <3>1, <3>3 DEF CodeServesOnce
    <2> QED
      BY <2>1, <2>4, <2>5, <2>6, <2>7
  <1> QED
    BY <1>2, <1>3, NextIs

-----------------------------------------------------------------------------

Once ==
  /\ Alone /\ Fresh /\ Handed /\ TakenFirst /\ SignInStateOnce /\ MailUsed
  /\ Held /\ Successors /\ Coded /\ Exchanges /\ CodeServesOnce

LEMMA OnceServes ==
  ASSUME Typed, Once
  PROVE  UsedOnce
  <1>1. OneSuccessor
    BY DEF Once, Successors, OneSuccessor, Replaced
  <1>2. MailedTokenOnce
    BY DEF Once, MailUsed, MailedTokenOnce, Worked
  <1> QED
    BY <1>1, <1>2 DEF Once, UsedOnce

LEMMA InitOnce ==
  ASSUME Init
  PROVE  Once
  <1>1. \A c \in Calls : call[c].op = "none" /\ call[c].pc = "idle" /\ c # Old /\ c \in Names
    BY AccountsAssumption DEF Init, AccountsInit, Names
  <1>2. \A c \in Calls : ~Under(c)
    BY <1>1 DEF Under
  <1>3. \A k \in Kinds, c \in Calls : ticket[k][c].state = "none"
    BY <1>1 DEF Init, AccountsInit, NoTicket
  <1>4. \A c \in Calls : session[c].state = "none"
    BY <1>1 DEF Init, AccountsInit, NoSession
  <1>5. /\ \A c \in Calls : code[c].state = "none"
        /\ \A t \in Names : grant[t].from = Null
    BY <1>1 DEF Init, GrantsInit
  <1>6. Alone /\ Fresh /\ Handed /\ TakenFirst /\ SignInStateOnce /\ MailUsed
    BY <1>1, <1>2, <1>3 DEF Alone, Fresh, Handed, TakenFirst, SignInStateOnce, MailUsed, SignIns,
       Worked, Works
  <1>7. Held /\ Successors
    BY <1>1, <1>4 DEF Held, Successors, Refreshes, Replaced, Replaces
  <1>8. Coded /\ Exchanges /\ CodeServesOnce
    BY <1>1, <1>5 DEF Coded, Exchanges, CodeServesOnce, At
  <1> QED
    BY <1>6, <1>7, <1>8 DEF Once

LEMMA OnceAlways == Spec => []Once
  <1>1. Init => Once
    BY InitOnce
  <1>2. Typed /\ Once /\ [Next]_vars => Once'
    <2>1. ASSUME Once, UNCHANGED vars PROVE Once'
      BY <2>1 DEF vars, accountVars, grantVars, Once, Alone, Under, Fresh, Handed, TakenFirst, Spent,
         SignInStateOnce, MailUsed, Worked, Works, Held, Refreshes, Successors, Replaced, Replaces,
         Coded, Exchanges, At, CodeServesOnce
    <2>2. ASSUME Typed, Once, Next PROVE Once'
      BY <2>2, AloneStep, TicketsStay, SignInStep, MailStep, HeldStep, SuccessorStep, CodedStep,
         ExchangeStep DEF Once
    <2> QED
      BY <2>1, <2>2
  <1> QED
    BY <1>1, <1>2, TypeCorrect, PTL DEF Spec

\* A started sign-in and its code for the web, a mailed token, a session's
\* token and an authorization code are used once: the first two always, the
\* others as long as requests do not cross.
THEOREM WhatIsUsedOnce == Spec => []UsedOnce
  <1>1. Typed /\ Once => UsedOnce
    BY OnceServes
  <1> QED
    BY <1>1, TypeCorrect, OnceAlways, PTL

-----------------------------------------------------------------------------
(* Sessions that were ended.                                                *)

\* A refresh goes on with a session that was live when it began.
Renews ==
  \A c \in Calls : Refreshes(c) /\ At(c, "issueSession") =>
    session[call[c].tok].since = call[c].began

LEMMA RenewsStep ==
  ASSUME Typed, Held, EndedSessionsStayEnded, Renews, Next
  PROVE  Renews'
  <1>0. /\ session \in [Names -> Session] /\ ends \in [Emails -> Nat]
        /\ account \in [Emails -> Account] /\ Requests
        /\ \A t \in Names : session[t].state \in {"live", "expired"} => session[t].user \in Emails
    BY DEF Typed, TypeOK, AccountsTypeOK
  <1>1. ASSUME NEW d \in Calls, call'[d] = call[d], Refreshes(d)', At(d, "issueSession")'
        PROVE  session'[call'[d].tok].since = call'[d].began
    <2>1. Refreshes(d) /\ At(d, "issueSession") /\ call[d].tok \in Names
      BY <1>1 DEF Refreshes, At, Typed, Equipped, Fits
    <2>2. session[call[d].tok].state # "none" /\ session[call[d].tok].since = call[d].began
      BY <2>1 DEF Held, Renews
    <2>3. session'[call[d].tok].since = session[call[d].tok].since
      BY <2>1, <2>2, SessionsStay
    <2> QED
      BY <1>1, <2>2, <2>3
  <1>2. CASE Outside
    <2>1. \A d \in Calls : call'[d] = call[d] \/ ~At(d, "issueSession")'
      BY <1>2, OutsideCourse DEF At
    <2> QED
      BY <1>1, <2>1 DEF Renews
  <1>3. ASSUME NEW c \in Calls, Step(c) PROVE Renews'
    <2>1. /\ \A d \in Calls : d # c => call'[d] = call[d]
          /\ Starting(c) \/ Going(c)
      BY <1>3, StepCourse DEF Course, Others
    <2>2. ASSUME Refreshes(c)', At(c, "issueSession")'
          PROVE  session'[call'[c].tok].since = call'[c].began
      <3>1. call'[c].op = "refresh" /\ call'[c].pc = "issueSession"
        BY <2>2 DEF Refreshes, At
      <3>2. CASE Starting(c)
        <4>1. PICK t \in Sessions : Begin(c, "refresh", session[t].user, t, Refreshed(t)) /\ UNCHANGED session
          BY <1>3, <3>1, <3>2, OpenedBy DEF Starting, StartRefresh
        <4>2. t \in Names /\ session[t].state # "none" /\ session[t].user \in Emails \cup {Null}
          BY <1>0, <4>1 DEF Sessions, Session
        <4>3. call'[c].tok = t /\ Refreshed(t) = "issueSession"
          BY <1>0, <3>1, <4>1, Begins
        <4>4. session[t].state = "live"
          BY <1>0, <4>2, <4>3 DEF Refreshed, Session
        <4>5. call'[c].began = ends[session[t].user]
          BY <1>0, <4>1, <4>2, <4>4, Starts DEF Names
        <4>6. session[t].since = ends[session[t].user]
          BY <4>2, <4>4 DEF EndedSessionsStayEnded
        <4> QED
          BY <4>1, <4>3, <4>5, <4>6
      <3>3. CASE Going(c)
        <4>1. call[c].op = "refresh" /\ Under(c)
          BY <3>1, <3>3 DEF Going
        <4>2. call[c].pc \in {"issueSession", "revokeReplaced", "revokeAll"}
          BY <4>1 DEF Typed, Equipped, Fits, Journey, Under
        <4>3. ~CutOff(c)
          BY <1>0, <3>1, Goes DEF CutOff
        <4>4. IssueSession(c) \/ RevokeReplaced(c) \/ RevokeAllRefreshTokens(c)
          BY <1>3, <3>1, <4>2, GoneBy
        <4>5. \E to \in {"ok", "refused", "revokeReplaced"} : Goto(c, to)
          BY <4>4 DEF IssueSession, RevokeReplaced, RevokeAllRefreshTokens
        <4> QED
          BY <1>0, <3>1, <4>5, Goes
      <3> QED
        BY <2>1, <3>2, <3>3
    <2> QED
      BY <1>1, <2>1, <2>2 DEF Renews
  <1> QED
    BY <1>2, <1>3, NextIs

LEMMA EndedStep ==
  ASSUME Typed, EndedSessionsStayEnded, Renews, Next
  PROVE  EndedSessionsStayEnded'
  <1>0. /\ session \in [Names -> Session] /\ ends \in [Emails -> Nat]
        /\ \A t \in Names : session[t].state \in {"live", "expired"} => session[t].user \in Emails
    BY DEF Typed, TypeOK, AccountsTypeOK
  <1>1. CASE UNCHANGED <<session, ends>>
    BY <1>1 DEF EndedSessionsStayEnded
  <1>2. CASE Outside
    <2>1. UNCHANGED ends
      BY <1>2 DEF Outside, Expire, DiscoveryEnds, ExpireCode, Administer
    <2>2. \/ UNCHANGED session
          \/ \E t \in Names : session' = [session EXCEPT ![t].state = "expired"]
      BY <1>2 DEF Outside, Expire, DiscoveryEnds, ExpireCode, Administer
    <2> QED
      BY <1>0, <2>1, <2>2 DEF EndedSessionsStayEnded, Session
  <1>3. ASSUME NEW c \in Calls, IssueSession(c) PROVE EndedSessionsStayEnded'
    <2> DEFINE e == call[c].user
               x == [state |-> "live", user |-> e, next |-> Null, since |-> CountsFrom(c)]
    <2>1. session' = [session EXCEPT ![c] = x] /\ UNCHANGED ends
      BY <1>3 DEF IssueSession
    <2>2. x.since = ends[x.user]
      BY <1>3 DEF IssueSession, CountsFrom, Renews, Refreshes
    <2> HIDE DEF x
    <2> QED
      BY <1>0, <2>1, <2>2 DEF EndedSessionsStayEnded
  <1>4. ASSUME NEW c \in Calls, RevokeReplaced(c) PROVE EndedSessionsStayEnded'
    <2> DEFINE t == call[c].tok
    <2>1. session' = [session EXCEPT ![t].state = "revoked", ![t].next = c] /\ UNCHANGED ends
      BY <1>4 DEF RevokeReplaced
    <2>2. \A s \in Names : session'[s] = session[s] \/ session'[s].state = "revoked"
      BY <1>0, <2>1 DEF Session
    <2> QED
      BY <2>1, <2>2 DEF EndedSessionsStayEnded
  <1>5. ASSUME NEW tokens \in SUBSET Sessions, Revoke(tokens)
        PROVE  \A s \in Names : \/ s \notin tokens /\ session'[s] = session[s]
                                \/ session'[s].state = "revoked"
    BY <1>0, <1>5 DEF Revoke, Session
  <1>6. ASSUME NEW c \in Calls, RevokeAllRefreshTokens(c) PROVE EndedSessionsStayEnded'
    <2> DEFINE e == call[c].user
               tokens == {t \in Sessions : session[t].user = e}
    <2>1. Revoke(tokens) /\ ends' = [ends EXCEPT ![e] = @ + 1]
      BY <1>6 DEF RevokeAllRefreshTokens
    <2>2. \A s \in Names : session[s].state = "live" => s \in Sessions
      BY DEF Sessions
    <2>3. \A s \in Names : session'[s].state = "live" =>
            session'[s] = session[s] /\ session[s].user \in Emails \ {e}
      BY <1>0, <1>5, <2>1, <2>2
    <2> QED
      BY <1>0, <2>1, <2>3 DEF EndedSessionsStayEnded
  <1>7. ASSUME NEW c \in Calls, Logout(c) PROVE EndedSessionsStayEnded'
    <2>1. PICK tokens \in SUBSET Sessions : Revoke(tokens) /\ UNCHANGED ends
      BY <1>7 DEF Logout
    <2> QED
      BY <1>5, <2>1 DEF EndedSessionsStayEnded
  <1> QED
    BY <1>1, <1>2, <1>3, <1>4, <1>6, <1>7, NextIs, AccountFrame, OidcFrame, GrantFrame DEF Step

\* No line of refreshes outlives the end of a user's sessions, unless one of
\* its requests was under way just then.
THEOREM EndedStayEnded == Spec => []EndedSessionsStayEnded
  <1>1. Init => EndedSessionsStayEnded /\ Renews
    BY DEF Init, AccountsInit, EndedSessionsStayEnded, NoSession, Renews, Refreshes
  <1>2. Typed /\ Once /\ EndedSessionsStayEnded /\ Renews /\ [Next]_vars
          => (EndedSessionsStayEnded /\ Renews)'
    <2>1. ASSUME EndedSessionsStayEnded, Renews, UNCHANGED vars
          PROVE  (EndedSessionsStayEnded /\ Renews)'
      BY <2>1 DEF vars, accountVars, EndedSessionsStayEnded, Renews, Refreshes, At
    <2> QED
      BY <2>1, EndedStep, RenewsStep DEF Once
  <1> QED
    BY <1>1, <1>2, TypeCorrect, OnceAlways, PTL DEF Spec

-----------------------------------------------------------------------------
(* What a connection may do.                                                *)

\* What is granted without an organisation reads published data over v11.
Public ==
  /\ \A t \in Names : Allowed(code[t].scope) /\ Allowed(grant[t].scope)
  /\ \A c \in Calls : Allowed(access[c]) /\ (At(c, "insertCode") => Allowed(asked[c]))

\* Unless requests cross, what a selection was checked for stays so.
Selects(c)  == call[c].pc \in {"ensureDefaults", "checkConfigs", "validateClient", "insertCode"}
Selected(c) == call[c].pc \in {"validateClient", "insertCode"}
Chosen ==
  ~crossed => \A c \in Calls : LET scope == asked[c] IN scope.tenant # Null =>
    /\ Selects(c) => scope.user \in member
    /\ Selected(c) => /\ Reads(scope.read) \in config
                      /\ scope.write # Null => "v11 write" \in config

LEMMA PublicStep ==
  ASSUME Typed, Public, Next
  PROVE  Public'
  <1>0. /\ code \in [Names -> [scope : Scope, state : {"none", "open", "expired", "used"}]]
        /\ grant \in [Names -> [scope : Scope, from : Names \cup {Null}]]
        /\ access \in [Calls -> Scope] /\ Requests
        /\ \A c \in Calls : At(c, "insertGrant") => call[c].tok \in Names
        /\ \A c \in Calls : c \in Names
    BY DEF Typed, TypeOK, GrantsTypeOK, At, Equipped, Fits, Journey, Ended, Names
  <1>1. \A t \in Names : Allowed(code'[t].scope)
    <2>1. ASSUME NEW c \in Calls, CreateAuthorizationCode(c) PROVE \A t \in Names : Allowed(code'[t].scope)
      <3> DEFINE x == [scope |-> asked[c], state |-> "open"]
      <3>1. x.scope = asked[c] /\ code' = [code EXCEPT ![c] = x] /\ At(c, "insertCode")
        BY <2>1 DEF CreateAuthorizationCode
      <3> HIDE DEF x
      <3> QED
        BY <1>0, <3>1 DEF Public
    <2>2. ASSUME NEW t, NEW s, code' = [code EXCEPT ![t].state = s]
          PROVE  \A u \in Names : Allowed(code'[u].scope)
      <3>1. \A u \in Names : code'[u].scope = code[u].scope
        BY <1>0, <2>2
      <3> QED
        BY <3>1 DEF Public
    <2>3. UNCHANGED code \/ (\E c \in Calls : CreateAuthorizationCode(c))
            \/ \E t, s : code' = [code EXCEPT ![t].state = s]
      BY NextIs, GrantFrame DEF Outside, Expire, DiscoveryEnds, ExpireCode, Administer, Step, grantVars,
         ConsumeCode
    <2> QED
      BY <2>1, <2>2, <2>3 DEF Public
  <1>2. CASE Outside
    <2>1. UNCHANGED <<grant, access, asked>>
      BY <1>2 DEF Outside, Expire, DiscoveryEnds, ExpireCode, Administer, grantVars
    <2>2. \A c \in Calls : At(c, "insertCode")' => At(c, "insertCode")
      BY <1>2, OutsideCourse DEF At
    <2> QED
      BY <1>1, <2>1, <2>2 DEF Public
  <1>3. ASSUME NEW c \in Calls, Step(c) PROVE Public'
    <2>1. \A d \in Calls : d # c => call'[d] = call[d]
      BY <1>3, StepCourse DEF Course, Others
    <2>2. \A t \in Names : Allowed(grant'[t].scope)
      <3>1. CASE InsertGrant(c)
        <4> DEFINE t == call[c].tok
                   x == [scope |-> code[t].scope, from |-> t]
        <4>1. x.scope = code[t].scope /\ grant' = [grant EXCEPT ![c] = x] /\ t \in Names
          BY <1>0, <3>1 DEF InsertGrant
        <4> HIDE DEF x
        <4> QED
          BY <1>0, <4>1 DEF Public
      <3> QED
        BY <1>3, <3>1, GrantFrame DEF Step, grantVars, Public
    <2>3. \A d \in Calls : Allowed(access'[d])
      <3>1. ASSUME NEW scope, Allowed(scope), IssueAccessToken(c, scope) PROVE \A d \in Calls : Allowed(access'[d])
        BY <1>0, <3>1 DEF IssueAccessToken, Public
      <3>2. CASE InsertGrant(c)
        BY <1>0, <3>1, <3>2 DEF InsertGrant, Public
      <3>3. CASE RefreshGrant(c)
        BY <3>1, <3>3 DEF RefreshGrant, Public
      <3>4. CASE MintToken(c)
        <4>1. \A read \in Versions :
                Allowed([user |-> call[c].user, tenant |-> Tenant, read |-> read, write |-> "v11"])
          BY TenantAssumption DEF Allowed
        <4> QED
          BY <3>1, <3>4, <4>1 DEF MintToken, Refused, grantVars, Public
      <3> QED
        BY <1>3, <3>2, <3>3, <3>4, GrantFrame DEF Step, grantVars, Public
    <2>4. \A d \in Calls : d # c => asked'[d] = asked[d]
      BY <1>3, GrantFrame DEF Step, grantVars, StartSelect, Typed, TypeOK, GrantsTypeOK
    <2>5. At(c, "insertCode")' => Allowed(asked'[c])
      <3>1. ASSUME At(c, "insertCode")' PROVE Allowed(asked'[c])
        <4>1. call'[c].op = "select" /\ call'[c].pc = "insertCode" /\ (Starting(c) \/ Going(c))
          BY <1>3, <3>1, StepCourse DEF At, Course, Equipped, Fits, Journey, Ended
        <4>2. CASE Starting(c)
          <5>1. StartSelect(c)
            BY <1>3, <4>1, <4>2, OpenedBy DEF Starting
          <5>2. PICK t \in Names, s \in {"validateClient", "ensureDefaults", "checkConfigs", "refused"} :
                  Begin(c, "select", selection[t], t, s)
            BY <5>1 DEF StartSelect
          <5> QED
            BY <1>0, <4>1, <5>2, Begins
        <4>3. CASE Going(c)
          <5>1. call[c].op = "select" /\ Under(c)
            BY <4>1, <4>3 DEF Going
          <5>2. EnsureV11ReadDefaults(c) \/ CheckConfigs(c) \/ ValidateClient(c) \/ CreateAuthorizationCode(c)
            BY <1>3, <4>1, <5>1, GoneBy DEF Typed, Equipped, Fits, Journey, Under
          <5>3. UNCHANGED asked /\ (Allowed(asked[c]) \/ \E s \in {"ok", "refused", "checkConfigs", "validateClient"} : Goto(c, s))
            BY <5>2 DEF EnsureV11ReadDefaults, CheckConfigs, ValidateClient, CreateAuthorizationCode,
               On, Refused, Moves, grantVars
          <5> QED
            BY <1>0, <4>1, <5>3, Goes
        <4> QED
          BY <4>1, <4>2, <4>3
      <3> QED
        BY <3>1
    <2> QED
      BY <1>1, <2>1, <2>2, <2>3, <2>4, <2>5 DEF Public, At
  <1> QED
    BY <1>2, <1>3, NextIs

LEMMA ChosenStep ==
  ASSUME Typed, Alone, Chosen, Next
  PROVE  Chosen'
  <1>0. /\ \A c \in Calls : Selects(c) => Under(c) /\ call[c].op = "select"
        /\ \A c \in Calls : Selected(c) => Selects(c)
        /\ Requests /\ asked \in [Calls -> Scope]
    BY DEF Typed, TypeOK, GrantsTypeOK, Selects, Selected, Under, Equipped, Fits, Journey, Ended
  <1>1. CASE Outside
    <2>1. \A c \in Calls : (Selects(c)' <=> Selects(c)) /\ (Selected(c)' <=> Selected(c))
      BY <1>1, OutsideCourse DEF Selects, Selected
    <2>2. UNCHANGED asked
      BY <1>1 DEF Outside, Expire, DiscoveryEnds, ExpireCode, Administer, grantVars
    <2>3. CASE Administer
      <3>1. ~crossed' => Quiet
        BY <2>3, Zenon DEF Administer
      <3> QED
        BY <1>0, <2>1, <3>1 DEF Chosen, Quiet
    <2>4. CASE ~Administer
      <3>1. UNCHANGED <<member, config>>
        BY <1>1, <2>4 DEF Outside, Expire, DiscoveryEnds, ExpireCode, grantVars
      <3>2. UNCHANGED crossed
        BY <1>1, <2>4 DEF Outside, Expire, DiscoveryEnds, ExpireCode
      <3> QED
        BY <2>1, <2>2, <3>1, <3>2 DEF Chosen
    <2> QED
      BY <2>3, <2>4
  <1>2. ASSUME NEW c \in Calls, Step(c) PROVE Chosen'
    <2>1. /\ \A d \in Calls : d # c => call'[d] = call[d]
          /\ Starting(c) \/ Going(c)
          /\ ~crossed' => ~crossed /\ \A d \in Calls : d # c => ~Under(d)
      BY <1>2, Solo, StepCourse DEF Course
    <2>2. \A d \in Calls : d # c /\ ~crossed' => ~Selects(d)' /\ ~Selected(d)'
      BY <1>0, <2>1 DEF Selects, Selected
    <2>3. ASSUME ~crossed', asked'[c].tenant # Null, Selects(c)'
          PROVE  LET scope == asked'[c] IN
                 /\ scope.user \in member'
                 /\ Selected(c)' => /\ Reads(scope.read) \in config'
                                    /\ scope.write # Null => "v11 write" \in config'
      <3>1. call'[c].op = "select"
        BY <1>2, <2>3, StepCourse DEF Selects, Course, Equipped, Fits, Journey, Ended
      <3>2. CASE Starting(c)
        <4>1. PICK t \in Names, tenant \in {Tenant, Null}, read \in Versions, write \in {"v11", Null} :
                /\ asked' = [asked EXCEPT ![c] =
                     [user |-> selection[t], tenant |-> tenant, read |-> read, write |-> write]]
                /\ Begin(c, "select", selection[t], t,
                     CASE tenant = Null /\ AllowedWithoutTenant(read, write) -> "validateClient"
                       [] tenant = Tenant /\ selection[t] \in member ->
                            IF read = "v11" THEN "ensureDefaults" ELSE "checkConfigs"
                       [] OTHER -> "refused")
                /\ UNCHANGED <<member, config>>
          BY <1>2, <3>1, <3>2, OpenedBy DEF Starting, StartSelect
        <4> DEFINE s == CASE tenant = Null /\ AllowedWithoutTenant(read, write) -> "validateClient"
                          [] tenant = Tenant /\ selection[t] \in member ->
                               IF read = "v11" THEN "ensureDefaults" ELSE "checkConfigs"
                          [] OTHER -> "refused"
        <4>2. tenant # Null => \/ s \in {"ensureDefaults", "checkConfigs"} /\ selection[t] \in member
                               \/ s = "refused"
          OBVIOUS
        <4>3. Begin(c, "select", selection[t], t, s)
          BY <4>1
        <4> HIDE DEF s
        <4>4. call'[c].pc = s
          BY <1>0, <4>3, Begins
        <4>5. asked'[c].user = selection[t] /\ asked'[c].tenant = tenant
          BY <1>0, <4>1
        <4>6. s # "refused" /\ UNCHANGED member
          BY <2>3, <4>1, <4>4 DEF Selects
        <4>7. ~Selected(c)' /\ asked'[c].user \in member'
          BY <2>3, <4>2, <4>4, <4>5, <4>6 DEF Selected
        <4> QED
          BY <4>7
      <3>3. CASE Going(c)
        <4>1. call[c].op = "select" /\ Under(c) /\ call'[c].pc # "cut"
          BY <2>3, <3>1, <3>3 DEF Going, Selects
        <4>2. EnsureV11ReadDefaults(c) \/ CheckConfigs(c) \/ ValidateClient(c) \/ CreateAuthorizationCode(c)
          BY <1>2, <4>1, GoneBy DEF Typed, Equipped, Fits, Journey, Under
        <4>3. Selects(c) /\ UNCHANGED <<asked, member>> /\ asked[c].user \in member
          <5>1. Selects(c) /\ UNCHANGED <<asked, member>>
            BY <4>2 DEF EnsureV11ReadDefaults, CheckConfigs, ValidateClient, CreateAuthorizationCode,
               On, Refused, At, grantVars, Selects
          <5> QED
            BY <2>1, <2>3, <5>1 DEF Chosen
        <4>4. ASSUME Selected(c)'
              PROVE  LET scope == asked[c] IN
                     /\ Reads(scope.read) \in config'
                     /\ scope.write # Null => "v11 write" \in config'
          <5>1. CASE EnsureV11ReadDefaults(c) \/ CreateAuthorizationCode(c)
            <6>1. Goto(c, "checkConfigs") \/ Goto(c, "ok")
              BY <5>1 DEF EnsureV11ReadDefaults, CreateAuthorizationCode, Moves
            <6>2. ~Selected(c)'
              BY <1>0, <6>1, Goes DEF Selected
            <6> QED
              BY <4>4, <6>2
          <5>2. CASE CheckConfigs(c)
            <6>1. \/ Goto(c, "refused")
                  \/ /\ Reads(asked[c].read) \in config /\ UNCHANGED config
                     /\ asked[c].write # Null => "v11 write" \in config
              BY <5>2 DEF CheckConfigs, On, Refused, Moves, grantVars
            <6>2. Goto(c, "refused") => ~Selected(c)'
              BY <1>0, Goes DEF Selected
            <6> QED
              BY <4>4, <6>1, <6>2
          <5>3. CASE ValidateClient(c)
            <6>1. Selected(c) /\ UNCHANGED <<asked, config>>
              BY <5>3 DEF ValidateClient, On, Refused, At, grantVars, Selected
            <6> QED
              BY <2>1, <2>3, <6>1 DEF Chosen
          <5> QED
            BY <4>2, <5>1, <5>2, <5>3
        <4> QED
          BY <4>3, <4>4
      <3> QED
        BY <2>1, <3>2, <3>3
    <2>4. Selected(c)' => Selects(c)'
      BY DEF Selects, Selected
    <2> QED
      BY <2>2, <2>3, <2>4 DEF Chosen
  <1> QED
    BY <1>1, <1>2, NextIs

LEMMA CodeIsConfigured ==
  ASSUME Typed, Coded, Chosen, Next
  PROVE  ConnectionIsConfigured
  <1> SUFFICES ASSUME NEW c \in Calls, code'[c] # code[c], code[c].state = "none", ~crossed',
                      code'[c].scope.tenant # Null
               PROVE  LET scope == code'[c].scope IN
                      /\ scope.user \in member
                      /\ Reads(scope.read) \in config
                      /\ scope.write # Null => "v11 write" \in config
    BY DEF ConnectionIsConfigured
  <1>1. CreateAuthorizationCode(c)
    BY CodeMoves DEF Names
  <1> DEFINE x == [scope |-> asked[c], state |-> "open"]
  <1>2. /\ At(c, "insertCode") /\ ~crossed
        /\ code' = [code EXCEPT ![c] = x] /\ x.scope = asked[c]
    BY <1>1 DEF CreateAuthorizationCode, Moves
  <1> HIDE DEF x
  <1>3. code'[c].scope = asked[c]
    BY <1>2 DEF Typed, TypeOK, GrantsTypeOK, Names
  <1> QED
    BY <1>2, <1>3 DEF Chosen, Selects, Selected, At

LEMMA InitPublic ==
  ASSUME Init
  PROVE  Public /\ Chosen
  <1>1. \A c \in Calls : call[c].pc = "idle"
    BY DEF Init, AccountsInit
  <1>2. Allowed(NoScope) /\ \A u : Allowed([NoScope EXCEPT !.user = u, !.tenant = Tenant])
    BY TenantAssumption DEF Allowed, AllowedWithoutTenant, NoScope
  <1>3. \A t \in Names : Allowed(code[t].scope) /\ Allowed(grant[t].scope)
    BY <1>2 DEF Init, GrantsInit
  <1>4. \A c \in Calls : Allowed(access[c])
    BY <1>2 DEF Init, GrantsInit
  <1> QED
    BY <1>1, <1>3, <1>4 DEF Public, Chosen, Selects, Selected, At

\* A connection for no organisation reads published data over v11 and writes
\* nothing; a code for an organisation is made for a member, over connections
\* that are configured, as long as requests do not cross.
THEOREM WhatConnectionsMayDo == Spec => ConnectionsFit
  <1>1. Init => Public /\ Chosen
    BY InitPublic
  <1>2. Typed /\ Once /\ Public /\ Chosen /\ [Next]_vars => (Public /\ Chosen)'
    <2>1. ASSUME Public, Chosen, UNCHANGED vars PROVE (Public /\ Chosen)'
      BY <2>1 DEF vars, accountVars, grantVars, Public, Chosen, Selects, Selected, At
    <2> QED
      BY <2>1, PublicStep, ChosenStep DEF Once
  <1>3. Public => PublicReadsOnly
    BY DEF Public, PublicReadsOnly, Allowed, AllowedWithoutTenant
  <1>4. Typed /\ Once /\ Chosen /\ Public' /\ [Next]_vars => [PublicReadsOnly' /\ ConnectionIsConfigured]_vars
    <2>1. Public' => PublicReadsOnly'
      BY DEF Public, PublicReadsOnly, Allowed, AllowedWithoutTenant
    <2> QED
      BY <2>1, CodeIsConfigured DEF Once
  <1> QED
    BY <1>1, <1>2, <1>4, TypeCorrect, OnceAlways, PTL DEF Spec, ConnectionsFit

-----------------------------------------------------------------------------
(* Wrong passwords and the lock.                                            *)

\* Counting on by one, round after round.
LEMMA Rest ==
  ASSUME NEW T \in Nat \ {0}, NEW q \in Nat, NEW r \in Nat, r < T
  PROVE  ((T * q) + r) % T = r
  <1> DEFINE m == (T * q) + r
             p == m \div T
             s == m % T
  <1>1. m \in Nat /\ T * q \in Nat
    OBVIOUS
  <1>2. p \in Nat /\ s \in Nat /\ s < T /\ m = (T * p) + s
    BY <1>1
  <1>3. T * p \in Nat
    BY <1>2
  <1>4. \A a, b \in Nat : a < b => T * b >= (T * a) + T
    OBVIOUS
  <1>5. m = (T * q) + r
    OBVIOUS
  <1> HIDE DEF m, p, s
  <1>6. ~(q < p)
    BY <1>1, <1>2, <1>3, <1>4, <1>5
  <1>7. ~(p < q)
    BY <1>1, <1>2, <1>3, <1>4, <1>5
  <1>8. p = q
    BY <1>2, <1>6, <1>7
  <1>9. s = r
    BY <1>1, <1>2, <1>5, <1>8
  <1> QED
    BY <1>9 DEF s, m

LEMMA CountsOn ==
  ASSUME NEW T \in Nat \ {0}, NEW n \in Nat
  PROVE  /\ n % T \in Nat /\ n % T < T
         /\ (n % T) + 1 >= T => (n + 1) % T = 0
         /\ (n % T) + 1 < T => (n + 1) % T = (n % T) + 1
  <1> DEFINE q == n \div T
             r == n % T
  <1>1. q \in Nat /\ r \in Nat /\ r < T /\ n = (T * q) + r
    OBVIOUS
  <1>2. T * q \in Nat
    BY <1>1
  <1>3. T * (q + 1) = (T * q) + T
    BY <1>1
  <1> HIDE DEF q, r
  <1>4. ASSUME r + 1 < T PROVE (n + 1) % T = r + 1
    <2>1. n + 1 = (T * q) + (r + 1)
      BY <1>1, <1>2
    <2>2. ((T * q) + (r + 1)) % T = r + 1
      BY <1>1, <1>4, Rest
    <2> QED
      BY <2>1, <2>2, Zenon
  <1>5. ASSUME r + 1 >= T PROVE (n + 1) % T = 0
    <2>1. n + 1 = (T * (q + 1)) + 0
      BY <1>1, <1>2, <1>3, <1>5
    <2>2. ((T * (q + 1)) + 0) % T = 0
      BY <1>1, Rest
    <2> QED
      BY <2>1, <2>2, Zenon
  <1> QED
    BY <1>1, <1>4, <1>5 DEF r

Unused == \A e \in Emails : ~account[e].exists => wrong[e] = 0

\* The count of an address that no request is about to write.
Counts(e) ==
  /\ account[e].failed = wrong[e] % Threshold
  /\ wrong[e] # 0 /\ wrong[e] % Threshold = 0 /\ events = 0 => Locked(e)

Tries(c)  == call[c].pc \in {"recordFailed", "clearFailed"}
Missed(c) ==
  LET e == call[c].user IN
  /\ call[c].count = account[e].failed
  /\ wrong[e] # 0 /\ account[e].failed = (wrong[e] - 1) % Threshold

\* Unless requests cross: what is counted between a request's read and its
\* write is the read.
Counting ==
  ~crossed =>
    /\ \A e \in Emails : (\A c \in Calls : Tries(c) => call[c].user # e) => Counts(e)
    /\ \A c \in Calls : /\ At(c, "recordFailed") => Missed(c)
                        /\ At(c, "clearFailed") => wrong[call[c].user] = 0

\* However requests cross: whom one is about to let in is not locked, or was
\* locked when it was under way.
Admitted ==
  \A c \in Calls : LetsIn(c) /\ Locked(call[c].user) => c \in caught[call[c].user]

\* What a first step of a sign-in reads, and where it leads.
LEMMA SignInReads ==
  ASSUME Typed, NEW c \in Calls, NEW op \in {"login", "consent", "cli"}, StartSignIn(c, op)
  PROVE  \E e \in Emails :
           LET a == account[e]  q == call'[c] IN
           /\ q.user = e /\ q.op = op /\ q.count = a.failed
           /\ UNCHANGED <<account, events>> /\ wrong' = [wrong EXCEPT ![e] = wrong'[e]]
           /\ \/ q.pc = "refused" /\ wrong'[e] = wrong[e]
              \/ q.pc = "recordFailed" /\ wrong'[e] = wrong[e] + 1 /\ a.exists
              \/ q.pc = "clearFailed" /\ wrong'[e] = 0
              \/ q.pc = After(op) /\ wrong'[e] = 0 /\ a.failed = 0 /\ a.lock = "never"
  <1>0. /\ Requests /\ wrong \in [Emails -> Nat] /\ account \in [Emails -> Account]
        /\ ends \in [Emails -> Nat] /\ After(op) \notin {"refused", "recordFailed"}
    BY AfterIs DEF Typed, TypeOK, AccountsTypeOK
  <1>1. PICK e \in Emails, right \in BOOLEAN :
          LET pc == VerifyCredentials(e, right, After(op)) IN
          /\ Begin(c, op, e, Null, pc)
          /\ wrong' = [wrong EXCEPT ![e] = CASE pc = "refused" -> @
                                             [] pc = "recordFailed" -> @ + 1
                                             [] OTHER -> 0]
    BY DEF StartSignIn
  <1> DEFINE pc == VerifyCredentials(e, right, After(op))
             n == CASE pc = "refused" -> wrong[e]
                    [] pc = "recordFailed" -> wrong[e] + 1
                    [] OTHER -> 0
  <1>2. Begin(c, op, e, Null, pc) /\ wrong' = [wrong EXCEPT ![e] = n]
    BY <1>1
  <1>3. \/ pc = "refused"
        \/ pc = "recordFailed" /\ account[e].exists
        \/ pc = "clearFailed"
        \/ pc = After(op) /\ ~(account[e].failed > 0) /\ account[e].lock = "never"
    BY DEF VerifyCredentials, Registered
  <1> HIDE DEF pc
  <1>4. /\ pc = "refused" => n = wrong[e]
        /\ pc = "recordFailed" => n = wrong[e] + 1
        /\ pc \notin {"refused", "recordFailed"} => n = 0
    OBVIOUS
  <1> HIDE DEF n
  <1>5. LET q == call'[c] IN q.user = e /\ q.op = op /\ q.pc = pc /\ q.count = account[e].failed
    BY <1>0, <1>2, Starts
  <1>6. wrong'[e] = n
    BY <1>0, <1>2
  <1>7. account[e].failed \in Nat
    BY <1>0, AccountsAssumption DEF Account
  <1>8. UNCHANGED <<account, events>> /\ wrong' = [wrong EXCEPT ![e] = wrong'[e]]
    BY <1>2, <1>6 DEF StartSignIn
  <1>9. LET a == account[e]  q == call'[c] IN
        \/ q.pc = "refused" /\ wrong'[e] = wrong[e]
        \/ q.pc = "recordFailed" /\ wrong'[e] = wrong[e] + 1 /\ a.exists
        \/ q.pc = "clearFailed" /\ wrong'[e] = 0
        \/ q.pc = After(op) /\ wrong'[e] = 0 /\ a.failed = 0 /\ a.lock = "never"
    BY <1>0, <1>3, <1>4, <1>5, <1>6, <1>7
  <1> QED
    BY <1>5, <1>8, <1>9

\* Which steps touch an account's count and lock.
LEMMA AccountMoves ==
  ASSUME Typed, NEW c \in Calls, Step(c)
  PROVE  \/ InsertUser(c) \/ CreateUser(c) \/ RecordFailedLogin(c) \/ ClearFailed(c) \/ SetPassword(c)
         \/ \A e \in Emails : LET a == account[e]  b == account'[e] IN
              b.failed = a.failed /\ b.lock = a.lock /\ b.exists = a.exists
  <1>1. account \in [Emails -> Account]
    BY DEF Typed, TypeOK, AccountsTypeOK
  <1>2. MarkVerified(c) =>
          \A e \in Emails : LET a == account[e]  b == account'[e] IN
            b.failed = a.failed /\ b.lock = a.lock /\ b.exists = a.exists
    BY <1>1 DEF MarkVerified, Account
  <1> QED
    BY <1>2, AccountFrame, OidcFrame, GrantFrame DEF Step

\* What the writes of one account write.
LEMMA AccountWrites ==
  ASSUME Typed, NEW c \in Calls, NEW e \in Emails
  PROVE  LET u == call[c].user  a == account[e]  b == account'[e] IN
         /\ InsertUser(c) \/ CreateUser(c) =>
              \/ b = a
              \/ e = u /\ ~a.exists /\ b.exists /\ b.failed = 0 /\ b.lock = "never"
         /\ ClearFailed(c) => IF e = u THEN b.failed = 0 /\ b.lock = "never" /\ b.exists = a.exists ELSE b = a
         /\ SetPassword(c) => IF e = u THEN b.failed = 0 /\ b.lock = "never" /\ b.exists = a.exists ELSE b = a
         /\ RecordFailedLogin(c) =>
              IF e = u
              THEN /\ b.exists = a.exists
                   /\ call[c].count + 1 >= Threshold => b.failed = 0 /\ b.lock = "until"
                   /\ call[c].count + 1 < Threshold => b.failed = call[c].count + 1 /\ b.lock = "never"
              ELSE b = a
  <1>0. /\ account \in [Emails -> Account] /\ call[c].count \in Nat
        /\ Threshold \in Nat
    BY AccountsAssumption DEF Typed, TypeOK, AccountsTypeOK, Requests, Request
  <1> DEFINE u == call[c].user
  <1>1. ASSUME InsertUser(c) \/ CreateUser(c)
        PROVE  LET a == account[e]  b == account'[e] IN
               b = a \/ (e = u /\ ~a.exists /\ b.exists /\ b.failed = 0 /\ b.lock = "never")
    <2> DEFINE x == [NoAccount EXCEPT !.password = "set", !.exists = TRUE]
               y == [NoAccount EXCEPT !.exists = TRUE, !.verified = TRUE]
    <2>1. /\ x.exists /\ x.failed = 0 /\ x.lock = "never"
          /\ y.exists /\ y.failed = 0 /\ y.lock = "never"
      BY DEF NoAccount
    <2>2. \/ account' = account
          \/ ~account[u].exists /\ account' = [account EXCEPT ![u] = x]
          \/ ~account[u].exists /\ account' = [account EXCEPT ![u] = y]
      BY <1>1 DEF InsertUser, CreateUser, Registered
    <2> HIDE DEF x, y, u
    <2> QED
      BY <1>0, <2>1, <2>2
  <1>2. ASSUME ClearFailed(c)
        PROVE  LET a == account[e]  b == account'[e] IN
               IF e = u THEN b.failed = 0 /\ b.lock = "never" /\ b.exists = a.exists ELSE b = a
    <2>1. account' = [account EXCEPT ![u].failed = 0, ![u].lock = "never"]
      BY <1>2 DEF ClearFailed
    <2> HIDE DEF u
    <2> QED
      BY <1>0, <2>1 DEF Account
  <1>3. ASSUME SetPassword(c)
        PROVE  LET a == account[e]  b == account'[e] IN
               IF e = u THEN b.failed = 0 /\ b.lock = "never" /\ b.exists = a.exists ELSE b = a
    <2>1. account' = [account EXCEPT ![u].password = "set", ![u].failed = 0, ![u].lock = "never"]
      BY <1>3 DEF SetPassword
    <2> HIDE DEF u
    <2> QED
      BY <1>0, <2>1 DEF Account
  <1>4. ASSUME RecordFailedLogin(c)
        PROVE  LET a == account[e]  b == account'[e] IN
               IF e = u
               THEN /\ b.exists = a.exists
                    /\ call[c].count + 1 >= Threshold => b.failed = 0 /\ b.lock = "until"
                    /\ call[c].count + 1 < Threshold => b.failed = call[c].count + 1 /\ b.lock = "never"
               ELSE b = a
    <2> DEFINE n == IF call[c].count + 1 >= Threshold THEN 0 ELSE call[c].count + 1
               l == IF call[c].count + 1 >= Threshold THEN "until" ELSE "never"
    <2>1. account' = [account EXCEPT ![u].failed = n, ![u].lock = l]
      BY <1>4 DEF RecordFailedLogin
    <2>2. /\ call[c].count + 1 >= Threshold => n = 0 /\ l = "until"
          /\ call[c].count + 1 < Threshold => n = call[c].count + 1 /\ l = "never"
      BY <1>0
    <2> HIDE DEF n, l, u
    <2>3. LET a == account[e]  b == account'[e] IN
          IF e = u THEN b.exists = a.exists /\ b.failed = n /\ b.lock = l ELSE b = a
      BY <1>0, <2>1 DEF Account
    <2> QED
      BY <2>2, <2>3
  <1> QED
    BY <1>1, <1>2, <1>3, <1>4

\* Which steps touch the wrong passwords that count.
LEMMA WrongMoves ==
  ASSUME Typed, NEW c \in Calls, Step(c)
  PROVE  \/ UNCHANGED wrong
         \/ SetPassword(c)
         \/ \E op \in {"login", "consent", "cli"} : StartSignIn(c, op)
  BY AccountFrame, OidcFrame, GrantFrame DEF Step

LEMMA UnusedStep ==
  ASSUME Typed, Unused, Next
  PROVE  Unused'
  <1>0. account \in [Emails -> Account] /\ wrong \in [Emails -> Nat]
    BY DEF Typed, TypeOK, AccountsTypeOK
  <1>1. CASE Outside
    <2>1. UNCHANGED wrong
      BY <1>1 DEF Outside, Expire, DiscoveryEnds, ExpireCode, Administer
    <2>2. \A e \in Emails : account'[e].exists = account[e].exists
      BY <1>0, <1>1 DEF Outside, Expire, DiscoveryEnds, ExpireCode, Administer, Account
    <2> QED
      BY <2>1, <2>2 DEF Unused
  <1>2. ASSUME NEW c \in Calls, Step(c) PROVE Unused'
    <2>1. \A e \in Emails : ~account'[e].exists => ~account[e].exists
      BY <1>2, AccountMoves, AccountWrites
    <2>2. CASE UNCHANGED wrong
      BY <2>1, <2>2 DEF Unused
    <2>3. CASE SetPassword(c)
      <3>1. wrong' = [wrong EXCEPT ![call[c].user] = 0]
        BY <2>3 DEF SetPassword
      <3> QED
        BY <1>0, <2>1, <3>1 DEF Unused
    <2>4. ASSUME NEW op \in {"login", "consent", "cli"}, StartSignIn(c, op) PROVE Unused'
      <3>1. PICK e \in Emails :
              /\ UNCHANGED account /\ wrong' = [wrong EXCEPT ![e] = wrong'[e]]
              /\ wrong'[e] = wrong[e] \/ account[e].exists \/ wrong'[e] = 0
        BY <2>4, SignInReads
      <3>2. \A d \in Emails : d # e => wrong'[d] = wrong[d]
        BY <1>0, <3>1
      <3> QED
        BY <3>1, <3>2 DEF Unused
    <2> QED
      BY <1>2, <2>2, <2>3, <2>4, WrongMoves
  <1> QED
    BY <1>1, <1>2, NextIs

Opening == {"issueSession", "handOff", "selectionPage", "mintToken"}

\* A request that gets to where it lets in has just seen that nothing is
\* locked, or lifted the lock itself.
LEMMA LetsInStep ==
  ASSUME Typed, NEW c \in Calls, Step(c), LetsIn(c)'
  PROVE  account'[call'[c].user].lock # "until"
  <1>0. /\ Requests /\ account \in [Emails -> Account] /\ Equipped(c) /\ Equipped(c)'
        /\ Starting(c) \/ Going(c)
    BY StepCourse DEF Typed, TypeOK, AccountsTypeOK, Course
  <1>1. /\ call'[c].pc \in Opening
        /\ call'[c].op \in {"login", "consent", "cli", "web", "oauth", "oidcSession"}
    BY <1>0 DEF LetsIn, At, Opening, Equipped, Fits, Journey, Ended
  <1>2. CASE Starting(c)
    <2>1. CASE call'[c].op \in {"login", "consent", "cli"}
      <3>1. StartSignIn(c, call'[c].op)
        BY <1>2, <2>1, OpenedBy DEF Starting
      <3>2. PICK e \in Emails : LET a == account[e]  q == call'[c] IN
              /\ q.user = e /\ UNCHANGED account
              /\ q.pc \in {"refused", "recordFailed", "clearFailed"} \/ a.lock = "never"
        BY <2>1, <3>1, SignInReads
      <3> QED
        BY <1>1, <3>2 DEF Opening
    <2>2. CASE call'[c].op \in {"web", "oauth"}
      <3>1. StartCallback(c)
        BY <1>2, <2>2, OpenedBy DEF Starting
      <3>2. PICK purpose \in {"web", "oauth"}, t \in Names, s \in {"discover", "refused"} :
              Begin(c, purpose, Null, t, s)
        BY <3>1 DEF StartCallback, Presented
      <3> QED
        BY <1>0, <1>1, <3>2, Begins DEF Opening
    <2>3. CASE call'[c].op = "oidcSession"
      <3>1. StartOidcSession(c)
        BY <1>2, <2>3, OpenedBy DEF Starting
      <3>2. PICK t \in Names, s \in {"assertCanSignIn", "refused"} :
              Begin(c, "oidcSession", ticket["handoff"][t].user, t, s)
        BY <3>1 DEF StartOidcSession, Presented
      <3> QED
        BY <1>0, <1>1, <3>2, Begins DEF Opening
    <2> QED
      BY <1>1, <2>1, <2>2, <2>3
  <1>3. CASE Going(c)
    <2>1. call[c].op = call'[c].op /\ call[c].pc # "idle"
      BY <1>3 DEF Going, Under
    <2>2. ASSUME NEW s, Goto(c, s) PROVE s \in Opening
      BY <1>0, <1>1, <2>2, Goes
    <2>3. ASSUME NEW e, NEW s, MovesFor(c, e, s), e \in Emails \cup {Null} PROVE s \in Opening
      BY <1>0, <1>1, <2>3, GoesFor DEF MovesFor
    <2>4. CASE AccountStep(c) \/ StartSignIn(c, "consent") \/ StartSignIn(c, "cli")
      <3>1. ClearFailed(c) \/ ~ClearFailed(c)
        OBVIOUS
      <3>2. CASE ClearFailed(c)
        <4>1. call'[c].user = call[c].user /\ call[c].user \in Emails
          BY <1>0, <3>2, Goes DEF ClearFailed, At, Equipped, Fits
        <4> QED
          BY <3>2, <4>1, AccountWrites
      <3>3. CASE ~ClearFailed(c)
        <4>1. /\ CutOff(c) => Goto(c, "cut")
              /\ InsertUser(c) => Goto(c, "refused") \/ Goto(c, "mailVerification")
              /\ IssueEmailVerification(c) \/ MarkVerified(c) \/ RequestPasswordReset(c)
                   \/ RevokeReplaced(c) => Goto(c, "ok")
              /\ RecordFailedLogin(c) => Goto(c, "refused")
              /\ IssueSession(c) => Goto(c, "ok") \/ Goto(c, "revokeReplaced")
              /\ RevokeAllRefreshTokens(c) => Goto(c, "refused") \/ Goto(c, "ok")
              /\ SetPassword(c) => Goto(c, "revokeAll")
          BY DEF CutOff, InsertUser, IssueEmailVerification, MarkVerified, RequestPasswordReset,
             RevokeReplaced, RecordFailedLogin, IssueSession, RevokeAllRefreshTokens, SetPassword
        <4>2. FALSE
          BY <1>0, <2>1, <2>2, <2>4, <3>3, <4>1, AccountActs DEF Opening, Opens
        <4> QED
          BY <4>2
      <3> QED
        BY <3>2, <3>3
    <2>5. CASE OidcStep(c)
      <3>1. CASE AssertCanSignIn(c)
        <4>1. UNCHANGED account /\ (Locked(call[c].user) => Goto(c, "refused"))
              /\ \E s : Goto(c, s)
          BY <3>1 DEF AssertCanSignIn, Moves
        <4>2. call'[c].user = call[c].user
          BY <1>0, <4>1, Goes
        <4>3. ~Goto(c, "refused")
          BY <2>2 DEF Opening
        <4> QED
          BY <4>1, <4>2, <4>3 DEF Locked
      <3>2. CASE ~AssertCanSignIn(c)
        <4>1. /\ Discover(c) => \E s \in {"saveState", "redeem", "discovering"} : Goto(c, s)
              /\ SaveLoginState(c) \/ CreateWebHandoff(c) => Goto(c, "ok")
              /\ Redeem(c) => Goto(c, "findLinked") \/ Goto(c, "refused")
              /\ CreateUser(c) => Goto(c, "refused") \/ Goto(c, "link")
          BY DEF Discover, Discovered, SaveLoginState, CreateWebHandoff, Redeem, CreateUser, Moves
        <4>2. FindLinked(c) \/ FindExact(c) \/ FindAlike(c) \/ Link(c) =>
                \E e \in Emails \cup {Null},
                   s \in {"assertCanSignIn", "findExact", "refused", "link", "findAlike", "createUser"} :
                  MovesFor(c, e, s)
          <5>1. linked \in Emails \cup {Null} /\ claims[c] \in Emails \cup {Null}
                /\ call[c].user \in Emails \cup {Null}
            BY DEF Typed, TypeOK, OidcTypeOK, Requests, Request
          <5> QED
            BY <5>1 DEF FindLinked, FindExact, FindAlike, Link
        <4>3. FALSE
          BY <1>0, <2>1, <2>2, <2>3, <2>5, <3>2, <4>1, <4>2, OidcActs DEF Opening, Opens
        <4> QED
          BY <4>3
      <3> QED
        BY <3>1, <3>2
    <2>6. CASE GrantStep(c)
      <3>1. /\ ConnectionSelectionPage(c) \/ CreateAuthorizationCode(c) \/ InsertGrant(c) => Goto(c, "ok")
            /\ RequestNoLongerValid(c) => Goto(c, "refused")
            /\ EnsureV11ReadDefaults(c) => Goto(c, "checkConfigs")
            /\ CheckConfigs(c) => Goto(c, "validateClient") \/ Goto(c, "refused")
            /\ ValidateClient(c) => Goto(c, "insertCode") \/ Goto(c, "refused")
            /\ ConsumeCode(c) => Goto(c, "insertGrant") \/ Goto(c, "refused")
            /\ MintToken(c) => Goto(c, "ok") \/ Goto(c, "refused")
        BY DEF ConnectionSelectionPage, CreateAuthorizationCode, InsertGrant, RequestNoLongerValid,
           EnsureV11ReadDefaults, CheckConfigs, ValidateClient, ConsumeCode, MintToken, Moves, On, Refused
      <3>2. FALSE
        BY <1>0, <2>1, <2>2, <2>6, <3>1, GrantActs DEF Opening, Opens
      <3> QED
        BY <3>2
    <2> QED
      BY <2>4, <2>5, <2>6 DEF Step
  <1> QED
    BY <1>0, <1>2, <1>3

\* A step leaves the locks and who was caught, or it locks an account and
\* catches every request that is under way.
LEMMA LockMoves ==
  ASSUME Typed, NEW c \in Calls, Step(c)
  PROVE  \A e \in Emails : account'[e].lock = "until" =>
           \/ account[e].lock = "until" /\ caught'[e] = caught[e]
           \/ \A d \in Calls : Under(d) => d \in caught'[e]
  <1>0. caught \in [Emails -> SUBSET Calls] /\ call[c].count + 1 \in Nat /\ Threshold \in Nat
    BY AccountsAssumption DEF Typed, TypeOK, AccountsTypeOK, Requests, Request
  <1>1. CASE RecordFailedLogin(c)
    <2> DEFINE u == call[c].user
               under == {d \in Calls : Under(d)}
               n == call[c].count + 1
    <2>1. caught' = IF n >= Threshold THEN [caught EXCEPT ![u] = under] ELSE caught
      BY <1>1 DEF RecordFailedLogin
    <2>2. /\ n >= Threshold \/ n < Threshold
          /\ n >= Threshold => ~(n < Threshold)
      BY <1>0
    <2>3. \A e \in Emails : IF e = u THEN n < Threshold => account'[e].lock = "never"
                            ELSE account'[e] = account[e]
      BY <1>1, AccountWrites
    <2>4. \A d \in Calls : Under(d) => d \in under
      OBVIOUS
    <2> HIDE DEF n, u, under
    <2> QED
      BY <1>0, <2>1, <2>2, <2>3, <2>4
  <1>2. CASE ~RecordFailedLogin(c)
    <2>1. UNCHANGED caught
      BY <1>2, AccountFrame, OidcFrame, GrantFrame DEF Step
    <2>2. \A e \in Emails : account'[e].lock # "until" \/ account'[e].lock = account[e].lock
      <3>1. CASE \A e \in Emails : account'[e].lock = account[e].lock
        BY <3>1
      <3>2. CASE InsertUser(c) \/ CreateUser(c) \/ ClearFailed(c) \/ SetPassword(c)
        BY <3>2, AccountWrites
      <3> QED
        BY <1>2, <3>1, <3>2, AccountMoves
    <2> QED
      BY <2>1, <2>2
  <1> QED
    BY <1>1, <1>2

LEMMA AdmittedStep ==
  ASSUME Typed, Admitted, Next
  PROVE  Admitted'
  <1>0. /\ account \in [Emails -> Account] /\ Requests
        /\ \A c \in Calls : LetsIn(c) => Under(c) /\ call[c].user \in Emails
        /\ \A c \in Calls : LetsIn(c)' => call'[c].pc \in Opening
    BY DEF Typed, TypeOK, AccountsTypeOK, LetsIn, At, Opening, Under, Ended, Equipped, Fits
  <1>1. ASSUME NEW d \in Calls, call'[d] = call[d], LetsIn(d)'
        PROVE  LetsIn(d) /\ Under(d) /\ call'[d].user = call[d].user /\ call[d].user \in Emails
    BY <1>0, <1>1 DEF LetsIn, At
  <1>2. CASE Outside
    <2>1. UNCHANGED caught /\ \A e \in Emails : Locked(e)' => Locked(e)
      BY <1>0, <1>2 DEF Outside, Expire, DiscoveryEnds, ExpireCode, Administer, Account, Locked
    <2>2. \A d \in Calls : LetsIn(d)' => call'[d] = call[d]
      BY <1>0, <1>2, OutsideCourse DEF Opening
    <2> QED
      BY <1>1, <2>1, <2>2 DEF Admitted, Locked
  <1>3. ASSUME NEW c \in Calls, Step(c) PROVE Admitted'
    <2>1. \A d \in Calls : d # c => call'[d] = call[d]
      BY <1>3, StepCourse DEF Course, Others
    <2>2. LetsIn(c)' => ~Locked(call[c].user)'
      BY <1>3, LetsInStep DEF Locked
    <2>3. ASSUME NEW d \in Calls, d # c, LetsIn(d)', Locked(call[d].user)'
          PROVE  d \in caught'[call'[d].user]
      <3>1. LetsIn(d) /\ Under(d) /\ call'[d].user = call[d].user /\ call[d].user \in Emails
        BY <1>1, <2>1, <2>3
      <3>2. account'[call[d].user].lock = "until"
        BY <2>3, <3>1 DEF Locked
      <3> QED
        BY <1>3, <3>1, <3>2, LockMoves DEF Admitted, Locked
    <2> QED
      BY <2>2, <2>3 DEF Admitted
  <1> QED
    BY <1>2, <1>3, NextIs

LEMMA CountingStep ==
  ASSUME Typed, Alone, Unused, Counting, Next, ~crossed'
  PROVE  Counting'
  <1>0. /\ account \in [Emails -> Account] /\ wrong \in [Emails -> Nat] /\ Requests
        /\ Threshold \in Nat \ {0} /\ events \in Nat
        /\ \A c \in Calls : Tries(c) => Under(c) /\ call[c].user \in Emails
        /\ 0 % Threshold = 0
    BY AccountsAssumption DEF Typed, TypeOK, AccountsTypeOK, Tries, Under, Ended, Equipped, Fits
  <1>1. CASE Outside
    <2>1. ~crossed /\ UNCHANGED wrong
      <3>1. ~crossed
        BY <1>1, Zenon DEF Outside, Expire, DiscoveryEnds, ExpireCode, Administer
      <3>2. UNCHANGED wrong
        BY <1>1 DEF Outside, Expire, DiscoveryEnds, ExpireCode, Administer
      <3> QED
        BY <3>1, <3>2
    <2>2. \A c \in Calls : \/ call'[c] = call[c]
                           \/ ~Tries(c)' /\ ~Tries(c)
      BY <1>1, OutsideCourse DEF Tries
    <2>3. \A e \in Emails : /\ account'[e].failed = account[e].failed
                            /\ Locked(e)' => Locked(e)
      BY <1>0, <1>1 DEF Outside, Expire, DiscoveryEnds, ExpireCode, Administer, Account, Locked
    <2>4. events' # 0 \/ UNCHANGED <<account, events>>
      BY <1>0, <1>1 DEF Outside, Expire, DiscoveryEnds, ExpireCode, Administer
    <2>5. \A e \in Emails : Counts(e) => Counts(e)'
      BY <2>1, <2>3, <2>4 DEF Counts, Locked
    <2>6. \A c \in Calls : Tries(c)' <=> Tries(c)
      BY <2>2 DEF Tries
    <2>7. \A e \in Emails : (\A c \in Calls : Tries(c)' => call'[c].user # e) => Counts(e)'
      BY <2>1, <2>2, <2>5, <2>6 DEF Counting
    <2>8. ASSUME NEW c \in Calls
          PROVE  /\ At(c, "recordFailed")' => Missed(c)'
                 /\ At(c, "clearFailed")' => wrong'[call'[c].user] = 0
      <3>1. CASE call'[c] = call[c]
        <4>1. At(c, "recordFailed")' => Missed(c)'
          BY <1>0, <2>1, <2>3, <3>1 DEF Counting, At, Missed, Tries
        <4>2. At(c, "clearFailed")' => wrong'[call'[c].user] = 0
          BY <2>1, <3>1 DEF Counting, At
        <4> QED
          BY <4>1, <4>2
      <3>2. CASE ~Tries(c)'
        BY <3>2 DEF At, Tries
      <3> QED
        BY <2>2, <3>1, <3>2
    <2> QED
      BY <2>7, <2>8 DEF Counting
  <1>2. ASSUME NEW c \in Calls, Step(c) PROVE Counting'
    <2>1. /\ \A d \in Calls : d # c => call'[d] = call[d]
          /\ (Starting(c) \/ Going(c)) /\ Equipped(c) /\ Equipped(c)'
          /\ ~crossed /\ \A d \in Calls : d # c => ~Under(d) /\ ~Under(d)'
      BY <1>2, Solo, StepCourse DEF Course, Typed
    <2>2. ~CutOff(c) /\ UNCHANGED events
      <3>1. ~CutOff(c)
        BY Zenon DEF CutOff
      <3> QED
        BY <1>2, <3>1, AccountFrame, OidcFrame, GrantFrame DEF Step
    <2>3. \A d \in Calls : /\ Tries(d) => d = c
                           /\ Tries(d)' => d = c
      <3>1. \A d \in Calls : Tries(d)' => Under(d)'
        BY DEF Tries, Under, Ended
      <3> QED
        BY <1>0, <2>1, <3>1
    <2>4. ASSUME \A e \in Emails : (Tries(c)' => call'[c].user # e) => Counts(e)',
                 At(c, "recordFailed")' => Missed(c)',
                 At(c, "clearFailed")' => wrong'[call'[c].user] = 0
          PROVE  Counting'
      <3>1. \A d \in Calls : At(d, "recordFailed")' \/ At(d, "clearFailed")' => Tries(d)'
        BY DEF At, Tries
      <3> QED
        BY <2>3, <2>4, <3>1 DEF Counting
    <2>5. ~Tries(c) => \A e \in Emails : Counts(e)
      BY <2>1, <2>3 DEF Counting
    <2>6. ASSUME NEW e \in Emails, Counts(e), account'[e].failed = account[e].failed,
                 account'[e].lock = account[e].lock, wrong'[e] = wrong[e]
          PROVE  Counts(e)'
      BY <2>2, <2>6 DEF Counts, Locked
    <2>7. ASSUME NEW e \in Emails, account'[e].failed = 0, wrong'[e] = 0
          PROVE  Counts(e)'
      BY <1>0, <2>7 DEF Counts
    <2> DEFINE u == call[c].user
    <2>8. CASE RecordFailedLogin(c)
      <3>1. /\ At(c, "recordFailed") /\ u \in Emails /\ UNCHANGED wrong
            /\ call'[c].pc = "refused"
        <4>1. At(c, "recordFailed") /\ Goto(c, "refused") /\ UNCHANGED wrong
          BY <2>8 DEF RecordFailedLogin
        <4> QED
          BY <1>0, <4>1, Goes DEF At, Tries
      <3>2. \A e \in Emails : e # u => Counts(e)'
        <4>1. \A e \in Emails : e # u => Counts(e)
          BY <2>1, <2>3, <3>1 DEF Counting
        <4>2. \A e \in Emails : e # u => account'[e] = account[e]
          BY <2>8, AccountWrites
        <4> QED
          BY <2>6, <3>1, <4>1, <4>2
      <3>3. ASSUME NEW e \in Emails, e = u PROVE Counts(e)'
        <4> DEFINE n == wrong[u] - 1
                   k == call[c].count
        <4>1. /\ wrong[u] \in Nat /\ wrong[u] # 0 /\ k = account[u].failed
              /\ account[u].failed = n % Threshold
          BY <1>0, <2>1, <3>1 DEF Counting, Missed
        <4>2. n \in Nat /\ n + 1 = wrong[u]
          BY <4>1
        <4>3. /\ k + 1 >= Threshold => account'[u].failed = 0 /\ account'[u].lock = "until"
              /\ k + 1 < Threshold => account'[u].failed = k + 1
          BY <2>8, <3>1, AccountWrites
        <4> HIDE DEF n, k
        <4>4. /\ k \in Nat /\ k = n % Threshold
              /\ k + 1 >= Threshold => wrong[u] % Threshold = 0
              /\ k + 1 < Threshold => wrong[u] % Threshold = k + 1
          BY <1>0, <4>1, <4>2, CountsOn
        <4>5. k + 1 \in Nat /\ k + 1 # 0 /\ (k + 1 >= Threshold \/ k + 1 < Threshold)
          BY <1>0, <4>4
        <4>6. account'[e].failed = wrong'[e] % Threshold
          BY <3>1, <3>3, <4>3, <4>4, <4>5
        <4>7. wrong'[e] % Threshold = 0 => account'[e].lock = "until"
          BY <3>1, <3>3, <4>3, <4>4, <4>5
        <4> QED
          BY <4>6, <4>7 DEF Counts, Locked
      <3>4. ~Tries(c)' /\ ~At(c, "recordFailed")' /\ ~At(c, "clearFailed")'
        BY <3>1 DEF Tries, At
      <3> QED
        BY <2>4, <3>2, <3>3, <3>4
    <2>9. CASE ClearFailed(c)
      <3>1. At(c, "clearFailed") /\ u \in Emails /\ UNCHANGED wrong /\ wrong[u] = 0
        BY <1>0, <2>1, <2>9 DEF ClearFailed, Counting, At, Tries
      <3>2. ~Tries(c)' /\ ~At(c, "recordFailed")' /\ ~At(c, "clearFailed")'
        <4>1. call[c].op \in {"login", "consent", "cli"}
          BY <2>1, <3>1 DEF At, Equipped, Fits, Journey, Ended
        <4>2. call'[c].pc = After(call[c].op)
          BY <1>0, <2>9, Goes DEF ClearFailed
        <4> QED
          BY <4>1, <4>2, AfterIs DEF Tries, At
      <3>3. \A e \in Emails : e # u => Counts(e) /\ account'[e] = account[e]
        BY <2>1, <2>3, <2>9, AccountWrites DEF Counting
      <3>4. account'[u].failed = 0
        BY <2>9, <3>1, AccountWrites
      <3> QED
        BY <2>4, <2>6, <2>7, <3>1, <3>2, <3>3, <3>4
    <2>10. CASE SetPassword(c)
      <3>1. ~Tries(c) /\ wrong' = [wrong EXCEPT ![u] = 0] /\ call'[c].pc = "revokeAll"
        <4>1. At(c, "setPassword") /\ Goto(c, "revokeAll") /\ wrong' = [wrong EXCEPT ![u] = 0]
          BY <2>10 DEF SetPassword
        <4> QED
          BY <1>0, <4>1, Goes DEF At, Tries
      <3>2. ~Tries(c)' /\ ~At(c, "recordFailed")' /\ ~At(c, "clearFailed")'
        BY <3>1 DEF Tries, At
      <3>3. \A e \in Emails : /\ e # u => account'[e] = account[e] /\ wrong'[e] = wrong[e]
                              /\ e = u => account'[e].failed = 0 /\ wrong'[e] = 0
        BY <1>0, <2>10, <3>1, AccountWrites
      <3> QED
        BY <2>4, <2>5, <2>6, <2>7, <3>1, <3>2, <3>3
    <2>11. CASE InsertUser(c) \/ CreateUser(c)
      <3>1. ~Tries(c) /\ UNCHANGED wrong /\ call'[c].pc \in {"refused", "mailVerification", "link"}
        <4>1. /\ At(c, "insertUser") \/ At(c, "createUser")
              /\ UNCHANGED wrong
              /\ \E s \in {"refused", "mailVerification", "link"} : Goto(c, s)
          BY <2>11 DEF InsertUser, CreateUser
        <4> QED
          BY <1>0, <4>1, Goes DEF At, Tries
      <3>2. ~Tries(c)' /\ ~At(c, "recordFailed")' /\ ~At(c, "clearFailed")'
        BY <3>1 DEF Tries, At
      <3>3. \A e \in Emails : \/ account'[e] = account[e]
                              \/ ~account[e].exists /\ account'[e].failed = 0
        BY <2>11, AccountWrites
      <3>4. \A e \in Emails : ~account[e].exists => wrong'[e] = 0
        BY <3>1 DEF Unused
      <3> QED
        BY <2>4, <2>5, <2>6, <2>7, <3>1, <3>2, <3>3, <3>4
    <2>12. ASSUME NEW op \in {"login", "consent", "cli"}, StartSignIn(c, op) PROVE Counting'
      <3>1. PICK e \in Emails :
              LET a == account[e]  q == call'[c] IN
              /\ q.user = e /\ q.op = op /\ q.count = a.failed
              /\ UNCHANGED <<account, events>> /\ wrong' = [wrong EXCEPT ![e] = wrong'[e]]
              /\ \/ q.pc = "refused" /\ wrong'[e] = wrong[e]
                 \/ q.pc = "recordFailed" /\ wrong'[e] = wrong[e] + 1 /\ a.exists
                 \/ q.pc = "clearFailed" /\ wrong'[e] = 0
                 \/ q.pc = After(op) /\ wrong'[e] = 0 /\ a.failed = 0 /\ a.lock = "never"
        BY <2>12, SignInReads
      <3>2. \A d \in Emails : Counts(d)
        <4>1. ~Tries(c)
          BY <2>12, <1>0, Begins DEF StartSignIn, Tries
        <4> QED
          BY <2>5, <4>1
      <3>3. \A d \in Emails : d # e => Counts(d)'
        <4>1. \A d \in Emails : d # e => wrong'[d] = wrong[d]
          BY <1>0, <3>1
        <4> QED
          BY <2>6, <3>1, <3>2, <4>1
      <3>4. At(c, "recordFailed")' => Missed(c)'
        <4>1. ASSUME call'[c].pc = "recordFailed" PROVE Missed(c)'
          <5>1. wrong'[e] = wrong[e] + 1
            BY <2>12, <3>1, <4>1, AfterIs
          <5>2. wrong[e] \in Nat /\ account[e].failed = wrong[e] % Threshold
            BY <1>0, <3>2 DEF Counts
          <5>3. wrong'[e] # 0 /\ wrong'[e] - 1 = wrong[e]
            BY <5>1, <5>2
          <5> QED
            BY <3>1, <5>2, <5>3 DEF Missed
        <4> QED
          BY <4>1 DEF At
      <3>5. At(c, "clearFailed")' => wrong'[call'[c].user] = 0
        BY <2>12, <3>1, AfterIs DEF At
      <3>6. ~Tries(c)' => Counts(e)'
        <4>1. CASE call'[c].pc = "refused"
          <5>1. wrong'[e] = wrong[e]
            BY <2>12, <3>1, <4>1, AfterIs
          <5> QED
            BY <2>6, <3>1, <3>2, <5>1
        <4>2. CASE call'[c].pc # "refused" /\ ~Tries(c)'
          <5>1. wrong'[e] = 0 /\ account[e].failed = 0
            BY <3>1, <4>2 DEF Tries
          <5> QED
            BY <2>7, <3>1, <5>1
        <4> QED
          BY <4>1, <4>2
      <3> QED
        BY <2>4, <3>1, <3>3, <3>4, <3>5, <3>6
    <2>13. CASE /\ ~RecordFailedLogin(c) /\ ~ClearFailed(c) /\ ~SetPassword(c)
                /\ ~InsertUser(c) /\ ~CreateUser(c)
                /\ \A op \in {"login", "consent", "cli"} : ~StartSignIn(c, op)
      <3>1. ~Tries(c)
        BY <1>2, <2>2, <2>13, GoneBy DEF Tries
      <3>2. ~Tries(c)'
        <4>1. ASSUME Tries(c)' PROVE FALSE
          <5>1. call'[c].op \in {"login", "consent", "cli"}
            BY <2>1, <4>1 DEF Tries, Equipped, Fits, Journey, Ended
          <5>2. Going(c)
            BY <1>2, <2>1, <2>13, <5>1, OpenedBy DEF Starting
          <5>3. call[c].op \in {"login", "consent", "cli"} /\ Under(c)
            BY <5>1, <5>2 DEF Going
          <5>4. IssueSession(c) \/ ConnectionSelectionPage(c) \/ RequestNoLongerValid(c) \/ MintToken(c)
            BY <1>2, <2>1, <2>2, <2>13, <5>3, GoneBy DEF Equipped, Fits, Journey, Under
          <5>5. \E s \in {"ok", "refused", "revokeReplaced"} : Goto(c, s)
            BY <5>4 DEF IssueSession, ConnectionSelectionPage, RequestNoLongerValid, MintToken,
               Refused, Moves
          <5> QED
            BY <1>0, <4>1, <5>5, Goes DEF Tries
        <4> QED
          BY <4>1
      <3>3. UNCHANGED wrong
        BY <1>2, <2>13, WrongMoves
      <3>4. \A e \in Emails : account'[e].failed = account[e].failed /\ account'[e].lock = account[e].lock
        BY <1>2, <2>13, AccountMoves
      <3>5. \A e \in Emails : Counts(e)'
        BY <2>5, <2>6, <3>1, <3>3, <3>4
      <3>6. ~At(c, "recordFailed")' /\ ~At(c, "clearFailed")'
        BY <3>2 DEF At, Tries
      <3> QED
        BY <2>4, <3>5, <3>6
    <2> QED
      BY <2>8, <2>9, <2>10, <2>11, <2>12, <2>13
  <1> QED
    BY <1>1, <1>2, NextIs

LEMMA InitCounting ==
  ASSUME Init
  PROVE  Unused /\ Counting /\ Admitted
  <1>0. Threshold \in Nat \ {0}
    BY AccountsAssumption
  <1>1. PICK f \in Emails, a \in Accounts :
          /\ account = [d \in Emails |-> IF d = f THEN a ELSE NoAccount]
          /\ wrong = [d \in Emails |-> account[d].failed]
    BY DEF Init, AccountsInit
  <1>2. \A c \in Calls : call[c].pc = "idle"
    BY DEF Init, AccountsInit
  <1>3. /\ NoAccount.failed = 0 /\ ~NoAccount.exists
        /\ a.failed \in {0, Threshold - 1} /\ (~a.exists => a.failed = 0)
    <2> DEFINE used == [NoAccount EXCEPT !.password = "set", !.exists = TRUE]
    <2>1. NoAccount.failed = 0 /\ ~NoAccount.exists
      BY DEF NoAccount
    <2>2. used.failed = 0 /\ used.exists /\ [used EXCEPT !.failed = Threshold - 1].failed = Threshold - 1
          /\ [used EXCEPT !.failed = Threshold - 1].exists
          /\ [used EXCEPT !.lock = "until"].failed = 0 /\ [used EXCEPT !.lock = "until"].exists
          /\ [used EXCEPT !.password = "none"].failed = 0 /\ [used EXCEPT !.password = "none"].exists
      BY DEF NoAccount
    <2>3. \/ a = NoAccount \/ a = used \/ a = [used EXCEPT !.failed = Threshold - 1]
          \/ a = [used EXCEPT !.lock = "until"] \/ a = [used EXCEPT !.password = "none"]
      BY DEF Accounts
    <2> HIDE DEF used
    <2> QED
      BY <2>1, <2>2, <2>3
  <1>4. \A e \in Emails : /\ account[e].failed \in Nat /\ account[e].failed < Threshold
                          /\ wrong[e] = account[e].failed
                          /\ ~account[e].exists => wrong[e] = 0
    BY <1>0, <1>1, <1>3
  <1>5. \A n \in Nat : n < Threshold => n % Threshold = n
    BY <1>0
  <1>6. \A e \in Emails : Counts(e)
    BY <1>4, <1>5 DEF Counts
  <1> QED
    BY <1>2, <1>4, <1>6 DEF Unused, Counting, Admitted, At, LetsIn

\* Unless requests cross, every wrong password since the last right one is
\* counted and as many as the threshold lock the account; and however they
\* cross, a locked account lets nobody in by any way of signing in, but the
\* requests that were under way when it was locked.
THEOREM WrongPasswordsLock == Spec => LockoutHolds
  <1>1. Init => Unused /\ Counting /\ Admitted
    BY InitCounting
  <1>2. Typed /\ Once /\ Unused /\ Counting /\ Admitted /\ [Next]_vars => (Unused /\ Counting /\ Admitted)'
    <2>1. ASSUME Unused, Counting, Admitted, UNCHANGED vars PROVE (Unused /\ Counting /\ Admitted)'
      <3>1. UNCHANGED <<account, call, wrong, events, crossed, caught>>
        BY <2>1 DEF vars, accountVars
      <3>2. Unused' /\ Counting'
        BY <2>1, <3>1 DEF Unused, Counting, Counts, Locked, Tries, Missed, At
      <3>3. Admitted'
        BY <2>1, <3>1 DEF Admitted, Locked, LetsIn, At
      <3> QED
        BY <3>2, <3>3
    <2>2. ASSUME Typed, Once, Unused, Counting, Admitted, Next PROVE (Unused /\ Counting /\ Admitted)'
      <3>1. ~crossed' => Counting'
        BY <2>2, CountingStep DEF Once
      <3>2. crossed' => Counting'
        BY DEF Counting
      <3> QED
        BY <2>2, <3>1, <3>2, UnusedStep, AdmittedStep DEF Once
    <2> QED
      BY <2>1, <2>2
  <1>3. Counting' => CountsEveryFailure'
    <2> SUFFICES ASSUME Counting', ~crossed', Quiet' PROVE \A e \in Emails : Counts(e)'
      BY DEF CountsEveryFailure, Counts
    <2>1. \A c \in Calls : ~Tries(c)'
      BY DEF Quiet, Under, Tries, Ended
    <2> QED
      BY <2>1 DEF Counting
  <1>4. Admitted /\ Counting' => [CountsEveryFailure' /\ LockHolds]_accountVars
    BY <1>3 DEF Admitted, LockHolds
  <1> QED
    BY <1>1, <1>2, <1>4, TypeCorrect, OnceAlways, PTL DEF Spec, LockoutHolds

=============================================================================
