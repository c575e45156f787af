------------------------------ MODULE Accounts ------------------------------
(***************************************************************************)
(* Accounts and web sessions (auth/authService.ts, routes/auth.ts): every  *)
(* operation as the sequence of database statements it makes.  A statement *)
(* is one step; what lies between two of them belongs to the second.       *)
(*                                                                         *)
(* A user row is named by its email, which is unique as it is spelled.     *)
(* Emails are the spellings of one address that differ only in case.  What *)
(* a call creates (a session, a mailed token) is named by the call; Old    *)
(* names what exists from the start.  Time is the step Expire.             *)
(***************************************************************************)
EXTENDS Naturals, FiniteSets

CONSTANTS Calls,      \* requests; each is made once
          Emails,     \* spellings of one email address
          Threshold,  \* wrong passwords that lock an account
          MaxEvents,  \* bound: things that run out of time, changes made
                      \* by an administrator, and calls cut off
          Null, Old

ASSUME AccountsAssumption ==
  /\ Null \notin Calls \cup Emails /\ Old \notin Calls \cup {Null}
  /\ Threshold \in Nat \ {0} /\ MaxEvents \in Nat

VARIABLES account,  \* users
          session,  \* refresh_tokens
          ticket,   \* what is sent to be used once, by kind
          call,     \* where each request is
          events,   \* how many of those there have been
          crossed,  \* history: two requests have been under way at once
          wrong,    \* history: wrong passwords since the last right one
          ends,     \* history: how often all sessions of a user were ended
          caught    \* history: the requests under way when an account was
                    \* last locked

accountVars == <<account, session, ticket, call, events, crossed, wrong, ends, caught>>

Kinds   == {"verify", "reset", "web", "oauth", "handoff"}
Names   == Calls \cup {Old}
NoTicket == [state |-> "none", user |-> Null]
NoSession == [state |-> "none", user |-> Null, next |-> Null, since |-> 0]
NoAccount == [password |-> "none", failed |-> 0, lock |-> "never",
              verified |-> FALSE, exists |-> FALSE]

\* `users` (db/schema/user.ts): lock is lockedUntil, absent, ahead or past.
Account == [password : {"none", "set"}, failed : 0 .. Threshold,
            lock : {"never", "until", "over"}, verified : BOOLEAN, exists : BOOLEAN]

\* `refresh_tokens`: next is replacedByTokenId.  since (history) is the value
\* of `ends` the session counts from: a refreshed one counts from where the
\* one it replaces does.
Session == [state : {"none", "live", "expired", "revoked"}, user : Emails \cup {Null},
            next : Names \cup {Null}, since : Nat]

\* Rows of email_verification_tokens, password_reset_tokens,
\* oidc_login_states (by purpose) and oidc_web_handoffs.
Ticket == [state : {"none", "open", "expired", "used"}, user : Emails \cup {Null}]

Ended == {"ok", "refused", "cut"}
Under(c) == call[c].pc \notin Ended \cup {"idle"}
Quiet    == \A c \in Calls : ~Under(c)

Registered(e) == account[e].exists
Locked(e)     == account[e].lock = "until"

At(c, pc)   == call[c].pc = pc
Goto(c, pc) == call' = [call EXCEPT ![c].pc = pc]

\* A request's start, with its first read: count is the failed sign-ins read,
\* began (history) how often the user's sessions had been ended.
Begin(c, op, user, tok, pc) ==
  /\ At(c, "idle")
  /\ call' = [call EXCEPT ![c] = [op |-> op, pc |-> pc, user |-> user, tok |-> tok,
                count |-> IF user \in Emails THEN account[user].failed ELSE 0,
                began |-> IF user \in Emails THEN ends[user] ELSE 0]]
  /\ crossed' = (crossed \/ ~Quiet)

-----------------------------------------------------------------------------
(* register, verifyEmail.                                                  *)

StartRegister(c) ==
  /\ \E e \in Emails :
       Begin(c, "register", e, Null, IF Registered(e) THEN "refused" ELSE "insertUser")
  /\ UNCHANGED <<account, session, ticket, events, wrong, ends, caught>>

\* The unique constraint decides between two registrations.
InsertUser(c) ==
  LET e == call[c].user IN
  /\ At(c, "insertUser")
  /\ IF Registered(e)
     THEN Goto(c, "refused") /\ UNCHANGED account
     ELSE /\ account' = [account EXCEPT ![e] =
                           [NoAccount EXCEPT !.password = "set", !.exists = TRUE]]
          /\ Goto(c, "mailVerification")
  /\ UNCHANGED <<session, ticket, events, crossed, wrong, ends, caught>>

Issue(kind, c, e) == ticket' = [ticket EXCEPT ![kind][c] = [state |-> "open", user |-> e]]

IssueEmailVerification(c) ==
  /\ At(c, "mailVerification")
  /\ Issue("verify", c, call[c].user) /\ Goto(c, "ok")
  /\ UNCHANGED <<account, session, events, crossed, wrong, ends, caught>>

\* What has been handed out and may be presented, used or not.
Presented(kind) == {t \in Names : ticket[kind][t].state # "none"}

StartVerifyEmail(c) ==
  /\ \E t \in Presented("verify") :
       Begin(c, "verify", ticket["verify"][t].user, t,
             IF ticket["verify"][t].state = "open" THEN "markVerified" ELSE "refused")
  /\ UNCHANGED <<account, session, ticket, events, wrong, ends, caught>>

MarkVerified(c) ==
  /\ At(c, "markVerified")
  /\ ticket' = [ticket EXCEPT !["verify"][call[c].tok].state = "used"]
  /\ account' = [account EXCEPT ![call[c].user].verified = TRUE]
  /\ Goto(c, "ok")
  /\ UNCHANGED <<session, events, crossed, wrong, ends, caught>>

-----------------------------------------------------------------------------
(* Signing in with a password: op is "login" (the web's, which opens a     *)
(* session), "consent" (an MCP connection's, which goes on to the          *)
(* selection page) or "cli" (the command line's).                          *)

VerifyCredentials(e, right, after) ==
  IF ~Registered(e) \/ Locked(e) \/ account[e].password = "none" THEN "refused"
  ELSE IF ~right THEN "recordFailed"
  ELSE IF account[e].failed > 0 \/ account[e].lock # "never" THEN "clearFailed"
  ELSE after

After(op) == CASE op = "login" -> "issueSession"
               [] op = "consent" -> "selectionPage"
               [] op = "cli" -> "mintToken"

StartSignIn(c, op) ==
  /\ \E e \in Emails, right \in BOOLEAN :
       LET pc == VerifyCredentials(e, right, After(op)) IN
       /\ Begin(c, op, e, Null, pc)
       /\ wrong' = [wrong EXCEPT ![e] = CASE pc = "refused" -> @
                                          [] pc = "recordFailed" -> @ + 1
                                          [] OTHER -> 0]
  /\ UNCHANGED <<account, session, ticket, events, ends, caught>>

RecordFailedLogin(c) ==
  LET e == call[c].user  attempts == call[c].count + 1 IN
  /\ At(c, "recordFailed")
  /\ account' = [account EXCEPT ![e].failed = IF attempts >= Threshold THEN 0 ELSE attempts,
                                ![e].lock = IF attempts >= Threshold THEN "until" ELSE "never"]
  /\ caught' = IF attempts >= Threshold THEN [caught EXCEPT ![e] = {d \in Calls : Under(d)}] ELSE caught
  /\ Goto(c, "refused")
  /\ UNCHANGED <<session, ticket, events, crossed, wrong, ends>>

ClearFailed(c) ==
  /\ At(c, "clearFailed")
  /\ account' = [account EXCEPT ![call[c].user].failed = 0, ![call[c].user].lock = "never"]
  /\ Goto(c, After(call[c].op))
  /\ UNCHANGED <<session, ticket, events, crossed, wrong, ends, caught>>

-----------------------------------------------------------------------------
(* Sessions.                                                               *)

\* A request that was under way while the sessions were ended counts from then.
CountsFrom(c) ==
  IF call[c].op = "refresh" /\ call[c].began = ends[call[c].user]
    THEN session[call[c].tok].since ELSE ends[call[c].user]

\* A refresh goes on to revoke the token it replaces; a sign-in is done.
IssueSession(c) ==
  /\ At(c, "issueSession")
  /\ session' = [session EXCEPT ![c] = [state |-> "live", user |-> call[c].user, next |-> Null,
                                        since |-> CountsFrom(c)]]
  /\ Goto(c, IF call[c].op = "refresh" THEN "revokeReplaced" ELSE "ok")
  /\ UNCHANGED <<account, ticket, events, crossed, wrong, ends, caught>>

RevokeReplaced(c) ==
  /\ At(c, "revokeReplaced")
  /\ session' = [session EXCEPT ![call[c].tok].state = "revoked", ![call[c].tok].next = c]
  /\ Goto(c, "ok")
  /\ UNCHANGED <<account, ticket, events, crossed, wrong, ends, caught>>

Sessions == {t \in Names : session[t].state # "none"}

\* Mutant: whether the token was revoked is not looked at.
RefreshesRevoked(t) == IF session[t].state = "expired" THEN "refused" ELSE "issueSession"

Refreshed(t) == CASE session[t].state = "revoked" -> "revokeAll"
                  [] session[t].state = "expired" -> "refused"
                  [] OTHER -> "issueSession"

StartRefresh(c) ==
  /\ \E t \in Sessions : Begin(c, "refresh", session[t].user, t, Refreshed(t))
  /\ UNCHANGED <<account, session, ticket, events, wrong, ends, caught>>

Revoke(tokens) == session' = [t \in Names |-> IF t \in tokens THEN [session[t] EXCEPT !.state = "revoked"]
                                              ELSE session[t]]

RevokeAllRefreshTokens(c) ==
  LET e == call[c].user IN
  /\ At(c, "revokeAll")
  /\ Revoke({t \in Sessions : session[t].user = e})
  /\ ends' = [ends EXCEPT ![e] = @ + 1]
  /\ Goto(c, IF call[c].op = "refresh" THEN "refused" ELSE "ok")
  /\ UNCHANGED <<account, ticket, events, crossed, wrong, caught>>

\* The user is the access token's, and only a token of theirs is revoked.
Logout(c) ==
  /\ \E t \in Sessions, e \in Emails :
       /\ Registered(e)
       /\ Begin(c, "logout", e, t, "ok")
       /\ Revoke({t} \cap {s \in Sessions : session[s].user = e})
  /\ UNCHANGED <<account, ticket, events, wrong, ends, caught>>

-----------------------------------------------------------------------------
(* Resetting a password.                                                   *)

StartPasswordReset(c) ==
  /\ \E e \in Emails :
       Begin(c, "forgot", e, Null, IF Registered(e) THEN "insertReset" ELSE "ok")
  /\ UNCHANGED <<account, session, ticket, events, wrong, ends, caught>>

RequestPasswordReset(c) ==
  /\ At(c, "insertReset")
  /\ Issue("reset", c, call[c].user) /\ Goto(c, "ok")
  /\ UNCHANGED <<account, session, events, crossed, wrong, ends, caught>>

StartResetPassword(c) ==
  /\ \E t \in Presented("reset") :
       Begin(c, "reset", ticket["reset"][t].user, t,
             IF ticket["reset"][t].state = "open" THEN "setPassword" ELSE "refused")
  /\ UNCHANGED <<account, session, ticket, events, wrong, ends, caught>>

SetPassword(c) ==
  LET e == call[c].user IN
  /\ At(c, "setPassword")
  /\ ticket' = [ticket EXCEPT !["reset"][call[c].tok].state = "used"]
  /\ account' = [account EXCEPT ![e].password = "set", ![e].failed = 0, ![e].lock = "never"]
  /\ wrong' = [wrong EXCEPT ![e] = 0]
  /\ Goto(c, "revokeAll")
  /\ UNCHANGED <<session, events, crossed, ends, caught>>

-----------------------------------------------------------------------------
(* Time and faults.                                                        *)

\* A lock ends, or a session or something mailed runs out.
Expire ==
  /\ events < MaxEvents /\ events' = events + 1
  /\ \/ /\ \E e \in Emails : Locked(e) /\ account' = [account EXCEPT ![e].lock = "over"]
        /\ UNCHANGED <<session, ticket>>
     \/ /\ \E t \in Names : session[t].state = "live" /\ session' = [session EXCEPT ![t].state = "expired"]
        /\ UNCHANGED <<account, ticket>>
     \/ /\ \E k \in Kinds, t \in Names :
             ticket[k][t].state = "open" /\ ticket' = [ticket EXCEPT ![k][t].state = "expired"]
        /\ UNCHANGED <<account, session>>
  /\ UNCHANGED <<call, crossed, wrong, ends, caught>>

\* The process goes down, or a statement fails.
CutOff(c) ==
  /\ Under(c) /\ events < MaxEvents
  /\ Goto(c, "cut") /\ crossed' = TRUE /\ events' = events + 1
  /\ UNCHANGED <<account, session, ticket, wrong, ends, caught>>

\* Accounts the sign-ins tell apart: none, one in use, one about to be locked,
\* one locked and one without a password.
Accounts ==
  LET used == [NoAccount EXCEPT !.password = "set", !.exists = TRUE] IN
  {NoAccount, used, [used EXCEPT !.failed = Threshold - 1], [used EXCEPT !.lock = "until"],
   [used EXCEPT !.password = "none"]}

\* One session and one of each ticket are there.
AccountsInit ==
  \E e \in Emails, a \in Accounts :
    /\ account = [d \in Emails |-> IF d = e THEN a ELSE NoAccount]
    /\ session = [t \in Names |-> IF t = Old /\ a.exists
                    THEN [NoSession EXCEPT !.state = "live", !.user = e] ELSE NoSession]
    /\ ticket = [k \in Kinds |-> [t \in Names |->
                   IF t = Old /\ (a.exists \/ k \in {"web", "oauth"})
                   THEN [state |-> "open", user |-> IF k \in {"web", "oauth"} THEN Null ELSE e]
                   ELSE NoTicket]]
    /\ wrong = [d \in Emails |-> account[d].failed]
    /\ call = [c \in Calls |-> [op |-> "none", pc |-> "idle", user |-> Null, tok |-> Null, count |-> 0,
                           began |-> 0]]
    /\ ends = [d \in Emails |-> 0] /\ caught = [d \in Emails |-> {}]
    /\ events = 0 /\ crossed = FALSE

AccountStep(c) ==
  \/ StartRegister(c) \/ InsertUser(c) \/ IssueEmailVerification(c)
  \/ StartVerifyEmail(c) \/ MarkVerified(c)
  \/ StartSignIn(c, "login") \/ RecordFailedLogin(c) \/ ClearFailed(c)
  \/ IssueSession(c) \/ StartRefresh(c) \/ RevokeReplaced(c) \/ RevokeAllRefreshTokens(c)
  \/ Logout(c)
  \/ StartPasswordReset(c) \/ RequestPasswordReset(c) \/ StartResetPassword(c) \/ SetPassword(c)
  \/ CutOff(c)

-----------------------------------------------------------------------------
(* Properties.                                                             *)

AccountsTypeOK ==
  /\ account \in [Emails -> Account]
  /\ session \in [Names -> Session]
  /\ ticket \in [Kinds -> [Names -> Ticket]]
  /\ wrong \in [Emails -> Nat] /\ ends \in [Emails -> Nat] /\ caught \in [Emails -> SUBSET Calls]
  /\ events \in 0 .. MaxEvents /\ crossed \in BOOLEAN

\* As long as requests do not cross, every wrong password since the last right
\* one is counted, and as many as the threshold lock the account.  Two that
\* cross store the same count (each writes what it read plus one), and a stale
\* count lifts a lock set meanwhile.
CountsEveryFailure ==
  ~crossed /\ Quiet => \A e \in Emails :
    /\ account[e].failed = wrong[e] % Threshold
    /\ wrong[e] # 0 /\ wrong[e] % Threshold = 0 /\ events = 0 => Locked(e)

\* A request that goes on to let someone in: with a session, the code of one,
\* the page where a connection is selected, or a token for the command line.
LetsIn(c) ==
  \/ At(c, "issueSession") /\ call[c].op # "refresh"
  \/ At(c, "handOff") \/ At(c, "selectionPage") \/ At(c, "mintToken")

\* A locked account lets nobody in, by any of the ways of signing in, however
\* requests cross: only one that was under way already when the account was
\* locked, and had found it open, still goes on.
LockHolds ==
  \A c \in Calls : LetsIn(c) /\ call'[c].pc # call[c].pc /\ Locked(call[c].user)
    => c \in caught[call[c].user]

\* Guessing is slowed down: wrong passwords add up to a lock, and the lock
\* closes every way of signing in.
LockoutHolds == [][CountsEveryFailure' /\ LockHolds]_accountVars

\* All sessions of a user are ended by a reset, and when a used token comes
\* back.  No line of refreshes outlives that: a session that is live counts
\* from after the last end, so that between it and the sign-in at the start of
\* its line there is a request which began later, or was under way just then.
\* The latter is how a refresh that crosses with a reset still escapes it.
EndedSessionsStayEnded ==
  \A t \in Names : session[t].state = "live" => session[t].since = ends[session[t].user]

\* As long as requests do not cross, a refresh token has one successor, and is
\* no longer live beside it.  Two refreshes that cross both get a session.
OneSuccessor ==
  ~crossed /\ Quiet => \A c \in Calls : call[c].op = "refresh" /\ call[c].pc = "ok" =>
    /\ session[call[c].tok].state = "revoked"
    /\ \A d \in Calls : call[d].op = "refresh" /\ call[d].pc = "ok" /\ call[d].tok = call[c].tok => d = c

\* As long as requests do not cross, a mailed token does its work once.  The
\* updates that mark it used are unconditional, so that two that cross both do.
MailedTokenOnce ==
  ~crossed => \A c, d \in Calls :
    /\ c # d /\ call[c].op = call[d].op /\ call[c].tok = call[d].tok
    /\ call[c].op \in {"verify", "reset"} /\ call[c].pc = "ok"
    => call[d].pc # "ok"
=============================================================================
