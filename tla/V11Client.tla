----------------------------- MODULE V11Client -----------------------------
(***************************************************************************)
(* Writes (and restricted reads) to PTV v11: the retry loop of             *)
(* PtvV11Client.request and the process-wide token cache its requests      *)
(* share (ptv/v11/client.ts, ptv/v11/auth/apiLogin.ts).  All the requests  *)
(* here use one organisation's API user, so the cache has one key.         *)
(*                                                                         *)
(* Node runs what lies between two awaited network answers without         *)
(* interruption: reading a token from the cache and sending the request    *)
(* with it are one step, and so are the end of a login and the sending of  *)
(* every request that waited for it.  A login that tries several addresses *)
(* changes nothing between them, and is one request here.  PTV is          *)
(* external: it may answer in any way, reject any token, and lose any      *)
(* answer.                                                                 *)
(***************************************************************************)
EXTENDS Naturals, FiniteSets

CONSTANTS
    Requests,       \* the requests made
    MaxRetries      \* V11ClientOptions.maxRetries

ASSUME ConstantsAssumption == MaxRetries \in Nat

VARIABLES
    req,        \* req[r]: the local state of request r
    cached,     \* the token in V11ApiTokenCache.tokens, or 0
    stale,      \* the cached token is within EXPIRY_MARGIN_MS of its expiry
    inFlight,   \* the login in V11ApiTokenCache.inFlight, or 0
    logins,     \* the logins not answered yet
    issued,     \* how many logins were started; login l obtains token l
    rejected,   \* history: rejected[r], the tokens r got a 401 for
    sends       \* history: sends[r], how many times r was sent to PTV

vars == <<req, cached, stale, inFlight, logins, issued, rejected, sends>>

-----------------------------------------------------------------------------
Pcs == {"token", "login", "sent", "ended"}
Results == {"none", "ok", "refused", "failed", "loginFailed"}

RequestState == [pc : Pcs,
                 attempt : 0..MaxRetries,
                 reauthenticated : 0..1,   \* 1 once a 401 was answered so
                 token : Nat,       \* the token sent, or the login waited for
                 result : Results]

TypeOK ==
    /\ req \in [Requests -> RequestState]
    /\ cached \in Nat
    /\ stale \in BOOLEAN
    /\ inFlight \in Nat
    /\ logins \subseteq Nat
    /\ issued \in Nat
    /\ rejected \in [Requests -> SUBSET Nat]
    /\ sends \in [Requests -> Nat]

Init ==
    /\ req = [r \in Requests |-> [pc |-> "token", attempt |-> 0,
                                  reauthenticated |-> 0, token |-> 0,
                                  result |-> "none"]]
    /\ cached = 0
    /\ stale = FALSE
    /\ inFlight = 0
    /\ logins = {}
    /\ issued = 0
    /\ rejected = [r \in Requests |-> {}]
    /\ sends = [r \in Requests |-> 0]

At(r, pc) == req[r].pc = pc

-----------------------------------------------------------------------------
(* V11ApiTokenCache.                                                        *)

Usable == cached # 0 /\ ~stale

\* getToken finds a token: the request goes out with it.
SendCached(r) ==
    /\ At(r, "token")
    /\ Usable
    /\ req' = [req EXCEPT ![r].pc = "sent", ![r].token = cached]
    /\ sends' = [sends EXCEPT ![r] = @ + 1]
    /\ UNCHANGED <<cached, stale, inFlight, logins, issued, rejected>>

\* getToken waits for the login under way.
JoinLogin(r) ==
    /\ At(r, "token")
    /\ ~Usable
    /\ inFlight # 0
    /\ req' = [req EXCEPT ![r].pc = "login", ![r].token = inFlight]
    /\ UNCHANGED <<cached, stale, inFlight, logins, issued, rejected, sends>>

MutStartLogin(r) ==
    /\ At(r, "token")
    /\ ~Usable
    /\ issued' = issued + 1
    /\ inFlight' = issued'
    /\ logins' = logins \cup {issued'}
    /\ req' = [req EXCEPT ![r].pc = "login", ![r].token = issued']
    /\ UNCHANGED <<cached, stale, rejected, sends>>

\* getToken starts one.
StartLogin(r) ==
    /\ At(r, "token")
    /\ ~Usable
    /\ inFlight = 0
    /\ issued' = issued + 1
    /\ inFlight' = issued'
    /\ logins' = logins \cup {issued'}
    /\ req' = [req EXCEPT ![r].pc = "login", ![r].token = issued']
    /\ UNCHANGED <<cached, stale, rejected, sends>>

WaitingFor(l) == {r \in Requests : At(r, "login") /\ req[r].token = l}

\* The login succeeds: everyone who waited stores its token and goes on.
LoginSucceeds(l) ==
    /\ l \in logins
    /\ logins' = logins \ {l}
    /\ inFlight' = 0
    /\ cached' = l
    /\ stale' = FALSE
    /\ req' = [r \in Requests |-> IF r \in WaitingFor(l)
                                  THEN [req[r] EXCEPT !.pc = "sent"]
                                  ELSE req[r]]
    /\ sends' = [r \in Requests |-> IF r \in WaitingFor(l) THEN sends[r] + 1
                                                           ELSE sends[r]]
    /\ UNCHANGED <<issued, rejected>>

MutLoginFails(l) ==
    /\ l \in logins
    /\ logins' = logins \ {l}
    /\ req' = [r \in Requests |-> IF r \in WaitingFor(l)
                                  THEN [req[r] EXCEPT !.pc = "ended",
                                                      !.result = "loginFailed"]
                                  ELSE req[r]]
    /\ UNCHANGED <<cached, stale, inFlight, issued, rejected, sends>>

\* The login is rejected, and with it every request that waited: a failed
\* login is outside the loop's try, and not retried.
LoginFails(l) ==
    /\ l \in logins
    /\ logins' = logins \ {l}
    /\ inFlight' = 0
    /\ req' = [r \in Requests |-> IF r \in WaitingFor(l)
                                  THEN [req[r] EXCEPT !.pc = "ended",
                                                      !.result = "loginFailed"]
                                  ELSE req[r]]
    /\ UNCHANGED <<cached, stale, issued, rejected, sends>>

\* Time passes.
Lapse ==
    /\ Usable
    /\ stale' = TRUE
    /\ UNCHANGED <<req, cached, inFlight, logins, issued, rejected, sends>>

-----------------------------------------------------------------------------
(* PtvV11Client.request, when PTV's answer (or the lack of one) is in.      *)

Ends(r, result) ==
    /\ req' = [req EXCEPT ![r].pc = "ended", ![r].result = result]
    /\ UNCHANGED <<cached, stale, inFlight, logins, issued, rejected, sends>>

Succeeds(r) == At(r, "sent") /\ Ends(r, "ok")

\* Any 4xx but 401 and 429.
Refused(r) == At(r, "sent") /\ Ends(r, "refused")

MutReauthenticateKeeping(r) ==
    /\ At(r, "sent")
    /\ req[r].reauthenticated = 0
    /\ rejected' = [rejected EXCEPT ![r] = @ \cup {req[r].token}]
    /\ req' = [req EXCEPT ![r].pc = "token", ![r].reauthenticated = 1]
    /\ UNCHANGED <<cached, stale, inFlight, logins, issued, sends>>

\* The first 401: the cached token goes, and the pass is made once more.
Reauthenticate(r) ==
    /\ At(r, "sent")
    /\ req[r].reauthenticated = 0
    /\ rejected' = [rejected EXCEPT ![r] = @ \cup {req[r].token}]
    /\ cached' = 0
    /\ req' = [req EXCEPT ![r].pc = "token", ![r].reauthenticated = 1]
    /\ UNCHANGED <<stale, inFlight, logins, issued, sends>>

\* A 401 after that: the request fails, and the token stays in the cache.
RejectedAgain(r) ==
    /\ At(r, "sent")
    /\ req[r].reauthenticated = 1
    /\ rejected' = [rejected EXCEPT ![r] = @ \cup {req[r].token}]
    /\ req' = [req EXCEPT ![r].pc = "ended", ![r].result = "refused"]
    /\ UNCHANGED <<cached, stale, inFlight, logins, issued, sends>>

\* 429, 5xx, no answer, or one that cannot be read: again after a pause,
\* whether or not PTV has carried the request out,
Retry(r) ==
    /\ At(r, "sent")
    /\ req[r].attempt # MaxRetries
    /\ req' = [req EXCEPT ![r].pc = "token", ![r].attempt = @ + 1]
    /\ UNCHANGED <<cached, stale, inFlight, logins, issued, rejected, sends>>

\* and the last attempt's failure is the request's.
GivesUp(r) ==
    /\ At(r, "sent")
    /\ req[r].attempt = MaxRetries
    /\ Ends(r, "failed")

-----------------------------------------------------------------------------
Answer(r) ==
    \/ Succeeds(r)
    \/ Refused(r)
    \/ Reauthenticate(r)
    \/ RejectedAgain(r)
    \/ Retry(r)
    \/ GivesUp(r)

GetToken(r) == SendCached(r) \/ JoinLogin(r) \/ StartLogin(r)

LoginAnswer == \E l \in logins : LoginSucceeds(l) \/ LoginFails(l)

Next ==
    \/ \E r \in Requests : GetToken(r) \/ Answer(r)
    \/ LoginAnswer
    \/ Lapse

Spec == Init /\ [][Next]_vars

\* Every fetch is answered or fails in the end (undici's own timeouts), and a
\* sleeping request wakes up.
FairSpec ==
    /\ Spec
    /\ \A r \in Requests : WF_vars(GetToken(r)) /\ WF_vars(Answer(r))
    /\ WF_vars(LoginAnswer)

-----------------------------------------------------------------------------
(* Properties.                                                              *)

\* The cache "shares one in-flight login between concurrent callers".
OneLogin == Cardinality(logins) <= 1

\* A request is sent once per attempt, and once more for its "one retry with
\* a fresh token", whatever other requests do to the token they share.
SendsBounded ==
    \A r \in Requests : sends[r] <= req[r].attempt + 1 + req[r].reauthenticated

\* That retry is made with a fresh token: a request is never sent again with
\* a token PTV has rejected for it, although other requests log in, drop and
\* store tokens in the same cache meanwhile.
RetriesWithFreshToken ==
    [][\A r \in Requests : sends'[r] # sends[r] => req'[r].token \notin rejected[r]]_vars

\* Every request ends, also those that wait for a login another one started.
EveryRequestEnds == \A r \in Requests : <>At(r, "ended")

\* However PTV answers, the client's load on it is bounded: one login at a
\* time, and a few sendings of each request.
LoadBounded ==
    /\ OneLogin
    /\ SendsBounded

=============================================================================
