--------------------------- MODULE V11ClientProofs ---------------------------
(***************************************************************************)
(* For any number of requests and retries: requests share their logins,    *)
(* are sent a bounded number of times, and never again with a token PTV    *)
(* has rejected for them.                                                  *)
(***************************************************************************)
EXTENDS V11Client, FiniteSetTheorems, TLAPS

\* A login is under way exactly when the cache says so, the one last issued,
\* and those that wait wait for it.
LoginInv ==
    /\ logins = IF inFlight = 0 THEN {} ELSE {inFlight}
    /\ inFlight \in {0, issued}
    /\ cached <= issued
    /\ inFlight # 0 => cached < inFlight
    /\ \A r \in Requests : At(r, "login") => req[r].token = inFlight /\ inFlight # 0
    /\ \A r \in Requests : At(r, "sent") =>
          req[r].token \in 1..issued /\ req[r].token # inFlight

\* What was rejected was issued, is not being issued, and is not in the cache
\* as long as the request it was rejected for goes on.
RejectedInv ==
    \A r \in Requests : \A t \in rejected[r] :
        /\ t \in 1..issued
        /\ t # inFlight
        /\ t = cached => At(r, "ended")

\* How often each request was sent, by where it is.
SendsInv ==
    \A r \in Requests :
        /\ sends[r] <= req[r].attempt + 1 + req[r].reauthenticated
        /\ At(r, "token") \/ At(r, "login") => sends[r] <= req[r].attempt + req[r].reauthenticated

\* TypeOK but for stale: the provers take Boolean variables apart.
Types ==
    /\ req \in [Requests -> RequestState]
    /\ cached \in Nat
    /\ inFlight \in Nat
    /\ logins \subseteq Nat
    /\ issued \in Nat
    /\ rejected \in [Requests -> SUBSET Nat]
    /\ sends \in [Requests -> Nat]

Inv == Types /\ LoginInv /\ RejectedInv /\ SendsInv

LEMMA InitInv == Init => Inv
  <1> SUFFICES ASSUME Init PROVE Inv
    OBVIOUS
  <1> USE ConstantsAssumption DEF ConstantsAssumption, Init, At
  <1>1. Types
    <2>1. req \in [Requests -> RequestState]
      BY DEF RequestState, Pcs, Results
    <2> QED
      BY <2>1 DEF Types
  <1>2. LoginInv
    BY DEF LoginInv
  <1>3. RejectedInv
    BY DEF RejectedInv
  <1>4. SendsInv
    BY DEF SendsInv
  <1> QED
    BY <1>1, <1>2, <1>3, <1>4 DEF Inv

\* One step per action.
LEMMA StepInv == Inv /\ [Next]_vars => Inv'
  <1> SUFFICES ASSUME Inv, [Next]_vars PROVE Inv'
    OBVIOUS
  <1> USE ConstantsAssumption DEF ConstantsAssumption, Inv, At
  <1>1. ASSUME NEW r \in Requests, SendCached(r) PROVE Inv'
    <2> USE DEF SendCached, Usable
    <2>1. Types'
      <3>1. req' \in [Requests -> RequestState]
        BY <1>1 DEF Types, RequestState, Pcs, Results
      <3>2. /\ cached' \in Nat /\ inFlight' \in Nat /\ issued' \in Nat
            /\ logins' \subseteq Nat
        BY <1>1 DEF Types, RequestState
      <3>3. /\ rejected' \in [Requests -> SUBSET Nat]
            /\ sends' \in [Requests -> Nat]
        BY <1>1 DEF Types, RequestState
      <3> QED
        BY <3>1, <3>2, <3>3 DEF Types
    <2>2. LoginInv'
      BY <1>1 DEF Types, RequestState, LoginInv
    <2>3. RejectedInv'
      BY <1>1 DEF Types, RequestState, LoginInv, RejectedInv
    <2>4. SendsInv'
      BY <1>1 DEF Types, RequestState, SendsInv
    <2> QED
      BY <2>1, <2>2, <2>3, <2>4
  <1>2. ASSUME NEW r \in Requests, JoinLogin(r) PROVE Inv'
    <2> USE DEF JoinLogin
    <2>1. Types'
      <3>1. req' \in [Requests -> RequestState]
        BY <1>2 DEF Types, RequestState, Pcs, Results
      <3>2. /\ cached' \in Nat /\ inFlight' \in Nat /\ issued' \in Nat
            /\ logins' \subseteq Nat
        BY <1>2 DEF Types, RequestState
      <3>3. /\ rejected' \in [Requests -> SUBSET Nat]
            /\ sends' \in [Requests -> Nat]
        BY <1>2 DEF Types, RequestState
      <3> QED
        BY <3>1, <3>2, <3>3 DEF Types
    <2>2. LoginInv'
      BY <1>2 DEF Types, RequestState, LoginInv
    <2>3. RejectedInv'
      BY <1>2 DEF Types, RequestState, LoginInv, RejectedInv
    <2>4. SendsInv'
      BY <1>2 DEF Types, RequestState, SendsInv
    <2> QED
      BY <2>1, <2>2, <2>3, <2>4
  <1>3. ASSUME NEW r \in Requests, StartLogin(r) PROVE Inv'
    <2> USE DEF StartLogin
    <2>1. Types'
      <3>1. req' \in [Requests -> RequestState]
        <4>1. issued' \in Nat
          BY <1>3 DEF Types
        <4>2. req[r] \in RequestState
          BY DEF Types
        <4>3. [req[r] EXCEPT !.pc = "login", !.token = issued'] \in RequestState
          BY <4>1, <4>2 DEF RequestState, Pcs
        <4> QED
          BY <1>3, <4>3 DEF Types
      <3>2. /\ cached' \in Nat /\ inFlight' \in Nat /\ issued' \in Nat
            /\ logins' \subseteq Nat
        BY <1>3 DEF Types, RequestState
      <3>3. /\ rejected' \in [Requests -> SUBSET Nat]
            /\ sends' \in [Requests -> Nat]
        BY <1>3 DEF Types, RequestState
      <3> QED
        BY <3>1, <3>2, <3>3 DEF Types
    <2>2. LoginInv'
      BY <1>3 DEF Types, RequestState, LoginInv
    <2>3. RejectedInv'
      BY <1>3 DEF Types, RequestState, LoginInv, RejectedInv
    <2>4. SendsInv'
      BY <1>3 DEF Types, RequestState, SendsInv
    <2> QED
      BY <2>1, <2>2, <2>3, <2>4
  <1>4. ASSUME NEW l \in logins, LoginSucceeds(l) PROVE Inv'
    <2> USE DEF LoginSucceeds, WaitingFor
    <2>1. Types'
      <3>1. req' \in [Requests -> RequestState]
        BY <1>4 DEF Types, RequestState, Pcs, Results
      <3>2. /\ cached' \in Nat /\ inFlight' \in Nat /\ issued' \in Nat
            /\ logins' \subseteq Nat
        BY <1>4 DEF Types, RequestState
      <3>3. /\ rejected' \in [Requests -> SUBSET Nat]
            /\ sends' \in [Requests -> Nat]
        BY <1>4 DEF Types, RequestState
      <3> QED
        BY <3>1, <3>2, <3>3 DEF Types
    <2>2. LoginInv'
      BY <1>4 DEF Types, RequestState, LoginInv
    <2>3. RejectedInv'
      BY <1>4 DEF Types, RequestState, LoginInv, RejectedInv
    <2>4. SendsInv'
      BY <1>4 DEF Types, RequestState, SendsInv
    <2> QED
      BY <2>1, <2>2, <2>3, <2>4
  <1>5. ASSUME NEW l \in logins, LoginFails(l) PROVE Inv'
    <2>1. Types'
      <3>1. req' \in [Requests -> RequestState]
        BY <1>5 DEF LoginFails, Types, RequestState, Pcs, Results
      <3> QED
        BY <1>5, <3>1 DEF LoginFails, Types
    <2>2. /\ inFlight = issued /\ inFlight # 0
          /\ logins' = {} /\ inFlight' = 0
          /\ UNCHANGED <<cached, issued, rejected, sends>>
      BY <1>5 DEF LoginFails, Types, LoginInv
    <2>3. ASSUME NEW q \in Requests
          PROVE  /\ req'[q].token = req[q].token
                 /\ req'[q].attempt = req[q].attempt
                 /\ req'[q].reauthenticated = req[q].reauthenticated
                 /\ req'[q].pc = IF At(q, "login") THEN "ended" ELSE req[q].pc
      BY <1>5, <2>2 DEF LoginFails, WaitingFor, Types, RequestState, LoginInv
    <2>4. LoginInv'
      BY <2>2, <2>3 DEF Types, LoginInv
    <2>5. RejectedInv'
      <3> SUFFICES ASSUME NEW q \in Requests, NEW t \in rejected'[q]
                   PROVE  t \in 1..issued' /\ t # inFlight' /\ (t = cached' => At(q, "ended")')
        BY DEF RejectedInv
      <3>1. t \in 1..issued /\ (t = cached => At(q, "ended"))
        BY <2>2 DEF RejectedInv
      <3> QED
        BY <2>2, <2>3, <3>1
    <2>6. SendsInv'
      BY <2>2, <2>3 DEF SendsInv
    <2> QED
      BY <2>1, <2>4, <2>5, <2>6
  <1>6. ASSUME Lapse PROVE Inv'
    <2> USE DEF Lapse
    <2>1. Types'
      <3>1. req' \in [Requests -> RequestState]
        BY <1>6 DEF Types, RequestState, Pcs, Results
      <3>2. /\ cached' \in Nat /\ inFlight' \in Nat /\ issued' \in Nat
            /\ logins' \subseteq Nat
        BY <1>6 DEF Types, RequestState
      <3>3. /\ rejected' \in [Requests -> SUBSET Nat]
            /\ sends' \in [Requests -> Nat]
        BY <1>6 DEF Types, RequestState
      <3> QED
        BY <3>1, <3>2, <3>3 DEF Types
    <2>2. LoginInv'
      BY <1>6 DEF Types, RequestState, LoginInv
    <2>3. RejectedInv'
      BY <1>6 DEF Types, RequestState, LoginInv, RejectedInv
    <2>4. SendsInv'
      BY <1>6 DEF Types, RequestState, SendsInv
    <2> QED
      BY <2>1, <2>2, <2>3, <2>4
  <1>7. ASSUME NEW r \in Requests, Succeeds(r) \/ Refused(r) \/ GivesUp(r) PROVE Inv'
    <2> USE DEF Succeeds, Refused, GivesUp, Ends
    <2>1. Types'
      <3>1. req' \in [Requests -> RequestState]
        BY <1>7 DEF Types, RequestState, Pcs, Results
      <3>2. /\ cached' \in Nat /\ inFlight' \in Nat /\ issued' \in Nat
            /\ logins' \subseteq Nat
        BY <1>7 DEF Types, RequestState
      <3>3. /\ rejected' \in [Requests -> SUBSET Nat]
            /\ sends' \in [Requests -> Nat]
        BY <1>7 DEF Types, RequestState
      <3> QED
        BY <3>1, <3>2, <3>3 DEF Types
    <2>2. LoginInv'
      BY <1>7 DEF Types, RequestState, LoginInv
    <2>3. RejectedInv'
      BY <1>7 DEF Types, RequestState, LoginInv, RejectedInv
    <2>4. SendsInv'
      BY <1>7 DEF Types, RequestState, SendsInv
    <2> QED
      BY <2>1, <2>2, <2>3, <2>4
  <1>8. ASSUME NEW r \in Requests, Reauthenticate(r) PROVE Inv'
    <2> USE DEF Reauthenticate
    <2>1. Types'
      <3>1. req' \in [Requests -> RequestState]
        BY <1>8 DEF Types, RequestState, Pcs, Results
      <3>2. /\ cached' \in Nat /\ inFlight' \in Nat /\ issued' \in Nat
            /\ logins' \subseteq Nat
        BY <1>8 DEF Types, RequestState
      <3>3. /\ rejected' \in [Requests -> SUBSET Nat]
            /\ sends' \in [Requests -> Nat]
        BY <1>8 DEF Types, RequestState
      <3> QED
        BY <3>1, <3>2, <3>3 DEF Types
    <2>2. LoginInv'
      BY <1>8 DEF Types, RequestState, LoginInv
    <2>3. RejectedInv'
      BY <1>8 DEF Types, RequestState, LoginInv, RejectedInv
    <2>4. SendsInv'
      BY <1>8 DEF Types, RequestState, SendsInv
    <2> QED
      BY <2>1, <2>2, <2>3, <2>4
  <1>9. ASSUME NEW r \in Requests, RejectedAgain(r) PROVE Inv'
    <2> USE DEF RejectedAgain
    <2>1. Types'
      <3>1. req' \in [Requests -> RequestState]
        BY <1>9 DEF Types, RequestState, Pcs, Results
      <3>2. /\ cached' \in Nat /\ inFlight' \in Nat /\ issued' \in Nat
            /\ logins' \subseteq Nat
        BY <1>9 DEF Types, RequestState
      <3>3. /\ rejected' \in [Requests -> SUBSET Nat]
            /\ sends' \in [Requests -> Nat]
        BY <1>9 DEF Types, RequestState
      <3> QED
        BY <3>1, <3>2, <3>3 DEF Types
    <2>2. LoginInv'
      BY <1>9 DEF Types, RequestState, LoginInv
    <2>3. RejectedInv'
      BY <1>9 DEF Types, RequestState, LoginInv, RejectedInv
    <2>4. SendsInv'
      BY <1>9 DEF Types, RequestState, SendsInv
    <2> QED
      BY <2>1, <2>2, <2>3, <2>4
  <1>10. ASSUME NEW r \in Requests, Retry(r) PROVE Inv'
    <2> USE DEF Retry
    <2>1. Types'
      <3>1. req[r].attempt + 1 \in 0..MaxRetries
        BY <1>10 DEF Types, RequestState
      <3>2. req' \in [Requests -> RequestState]
        BY <1>10, <3>1 DEF Types, RequestState, Pcs, Results
      <3> QED
        BY <1>10, <3>2 DEF Types
    <2>2. LoginInv'
      BY <1>10 DEF Types, RequestState, LoginInv
    <2>3. RejectedInv'
      BY <1>10 DEF Types, RequestState, LoginInv, RejectedInv
    <2>4. SendsInv'
      BY <1>10 DEF Types, RequestState, SendsInv
    <2> QED
      BY <2>1, <2>2, <2>3, <2>4
  <1>11. ASSUME UNCHANGED vars PROVE Inv'
    <2> USE DEF vars
    <2>1. Types'
      <3>1. req' \in [Requests -> RequestState]
        BY <1>11 DEF Types, RequestState, Pcs, Results
      <3>2. /\ cached' \in Nat /\ inFlight' \in Nat /\ issued' \in Nat
            /\ logins' \subseteq Nat
        BY <1>11 DEF Types, RequestState
      <3>3. /\ rejected' \in [Requests -> SUBSET Nat]
            /\ sends' \in [Requests -> Nat]
        BY <1>11 DEF Types, RequestState
      <3> QED
        BY <3>1, <3>2, <3>3 DEF Types
    <2>2. LoginInv'
      BY <1>11 DEF Types, RequestState, LoginInv
    <2>3. RejectedInv'
      BY <1>11 DEF Types, RequestState, LoginInv, RejectedInv
    <2>4. SendsInv'
      BY <1>11 DEF Types, RequestState, SendsInv
    <2> QED
      BY <2>1, <2>2, <2>3, <2>4
  <1> QED
    BY <1>1, <1>2, <1>3, <1>4, <1>5, <1>6, <1>7, <1>8, <1>9, <1>10, <1>11
    DEF Next, GetToken, Answer, LoginAnswer

LEMMA Invariant == Spec => []Inv
  BY InitInv, StepInv, PTL DEF Spec

\* Requests, the cache and the logins always have their types.
THEOREM TypeCorrect == Spec => []TypeOK
  <1>1. Init => stale \in BOOLEAN
    BY DEF Init
  <1>2. stale \in BOOLEAN /\ [Next]_vars => (stale \in BOOLEAN)'
    BY Zenon DEF Next, GetToken, SendCached, JoinLogin, StartLogin, Answer, Succeeds,
           Refused, Ends, Reauthenticate, RejectedAgain, Retry, GivesUp, LoginAnswer,
           LoginSucceeds, LoginFails, Lapse, vars
  <1>3. Inv /\ stale \in BOOLEAN => TypeOK
    BY Zenon DEF Inv, Types, TypeOK
  <1> QED
    BY <1>1, <1>2, <1>3, Invariant, PTL DEF Spec

\* However many requests need a token, one login is under way at most.
THEOREM LoginsAreShared == Spec => []OneLogin
  <1>1. ASSUME Inv PROVE OneLogin
    <2>1. logins = {} \/ logins = {inFlight}
      BY <1>1 DEF Inv, LoginInv
    <2> QED
      BY <2>1, FS_EmptySet, FS_Singleton DEF OneLogin
  <1> QED
    BY <1>1, Invariant, PTL

\* A request is sent once per attempt and once more at most.
THEOREM RetriesAreBounded == Spec => []SendsBounded
  <1>1. Inv => SendsBounded
    BY DEF Inv, SendsInv, SendsBounded
  <1> QED
    BY <1>1, Invariant, PTL

\* Whatever PTV answers, logins do not pile up and requests are not repeated
\* without end.
THEOREM LoadIsBounded == Spec => []LoadBounded
  BY LoginsAreShared, RetriesAreBounded, PTL DEF LoadBounded

\* No request is sent with a token PTV has rejected for it.
THEOREM FreshTokens == Spec => RetriesWithFreshToken
  <1> DEFINE Fresh == \A r \in Requests : sends'[r] # sends[r] => req'[r].token \notin rejected[r]
  <1>1. ASSUME Inv, [Next]_vars PROVE [Fresh]_vars
    <2> SUFFICES ASSUME NEW r \in Requests, sends'[r] # sends[r]
                 PROVE  req'[r].token \notin rejected[r]
      OBVIOUS
    <2>1. ASSUME NEW q \in Requests, SendCached(q) PROVE req'[r].token \notin rejected[r]
      <3>1. sends'[r] # sends[r] => r = q
        BY <1>1, <2>1 DEF Inv, Types, SendCached
      <3>2. r = q /\ req'[r].token = cached /\ cached # 0 /\ ~At(r, "ended")
        BY <1>1, <2>1, <3>1 DEF Inv, Types, RequestState, SendCached, Usable, At
      <3> QED
        BY <1>1, <3>2 DEF Inv, RejectedInv
    <2>2. ASSUME NEW l \in logins, LoginSucceeds(l) PROVE req'[r].token \notin rejected[r]
      BY <1>1, <2>2 DEF Inv, Types, LoginInv, RejectedInv, LoginSucceeds, WaitingFor, At
    <2> QED
      BY <1>1, <2>1, <2>2
      DEF Next, GetToken, JoinLogin, StartLogin, Answer, Succeeds, Refused, Ends,
          Reauthenticate, RejectedAgain, Retry, GivesUp, LoginAnswer, LoginFails, Lapse, vars
  <1> QED
    BY <1>1, Invariant, PTL DEF Spec, RetriesWithFreshToken

=============================================================================
