---------------------------- MODULE PtvReadsProofs ----------------------------
(***************************************************************************)
(* What PtvReads guarantees for every catalogue, any number of reads, of   *)
(* processes and of PTV's changes and errors: the cached catalogue is one  *)
(* whole download, the names of codes neither grow too old nor get lost on *)
(* their way to the table, and failures are forgotten.                     *)
(***************************************************************************)
EXTENDS PtvReads, FiniteSetTheorems, WellFoundedInduction, TLAPS

\* The steps of a read at which it has no adapter: before it and after it.
Stopped == {"idle", "done", "failed", "lost", "nothing"}

\* A read's record, with the values of its fields in some set.
Rec(S) ==
  [op : S, pc : S, process : S, calm : S, fetched : S, seen : S, staleAt : S, found : S,
   waited : S, checked : S, scope : S, todo : S, page : S, mine : S, items : S, answer : S]

Shaped == \E S : call \in [Calls -> Rec(S)]

Placed ==
  /\ Shaped
  /\ api \in [Processes -> Apis]
  /\ \A c \in Calls : call[c].pc \notin Stopped => call[c].process \in Processes
  /\ \A c \in Calls : call[c].pc = "get" => call[c].op = "service"

\* A step of one read.
ReadStep(c) ==
  \/ CatalogueStep(c) /\ UNCHANGED <<codeVars, listed, lists>>
  \/ CodeStep(c) /\ UNCHANGED <<listed, lists>>
  \/ StartRead(c) \/ GetService(c) \/ AskList(c) \/ TakePage(c) \/ Complete(c)

\* The rows a transaction would leave, and those it adds.
Others(c) == table[Api(c)] \ call[c].seen
NewRows(c) == {Row(o, call[c].fetched, call[c].staleAt, TRUE) : o \in call[c].fetched}
Inserted(c) ==
  /\ At(c, "insert")
  /\ \A x \in Others(c), y \in NewRows(c) : x.org # y.org
  /\ table' = [table EXCEPT ![Api(c)] = Others(c) \cup NewRows(c)]

\* What the record q of a read that goes on has when it gets to a step.
Got(c, q) ==
  LET r == call[c] IN
  /\ r.pc \notin Stopped /\ q.process = r.process /\ q.calm = r.calm
  /\ q.pc \notin Stopped \cup {"get", "root"}
  /\ q.pc \in {"hydrate", "byId"} => q.fetched = ptvOrgs
  /\ q.pc = "delete" =>
       r.pc \in {"hydrate", "byId"} /\ q.fetched \in {r.fetched, r.fetched \cap ptvOrgs}
  /\ q.pc = "insert" =>
       /\ r.pc = "delete" /\ q.fetched = r.fetched /\ q.seen = table[Api(c)]
       /\ q.staleAt = now + CatalogueTtl
  /\ q.pc = "search" =>
       \/ HasFreshCatalogue(Api(c)) /\ q.checked = now /\ UNCHANGED table
       \/ Inserted(c) /\ q.checked = r.staleAt - CatalogueTtl
  /\ q.pc = "scope" =>
       \/ q.checked = -1 /\ q.found = {}
       \/ /\ r.pc = "search" /\ q.found = Live(table[Api(c)])
          /\ q.checked = r.checked /\ q.waited = (now > r.checked)
  /\ q.pc = "primed" => q.answer \in {store, Null}
  /\ q.pc = "answered" => q.answer = known
  /\ q.pc = "save" => r.pc = "flush" /\ q.answer = pending[r.process]

\* How a read starts and ends.
Begun(q) ==
  /\ q.process \in Processes /\ q.calm = (events = MaxEvents)
  /\ q.pc \in {"check", "ask", "get", "root"}
  /\ q.pc = "get" => q.op = "service"
Over(c, q) ==
  /\ q.pc \in {"done", "failed", "lost", "nothing"} /\ q.calm = call[c].calm
  /\ q.pc = "failed" => events < MaxEvents

Changes(c) ==
  LET q == call'[c] IN
  /\ \E T : q \in Rec(T)
  /\ \A d \in Calls : d # c => call'[d] = call[d]
  /\ DOMAIN call' = Calls /\ call' = [d \in DOMAIN call' |-> call'[d]]
  /\ Begun(q) \/ Over(c, q) \/ Got(c, q)

LEMMA IdleShaped == \E S : Idle \in Rec(S)
  <1> DEFINE S == {"none", "idle", Null, FALSE, {}, 0, <<>>, 1}
  <1>1. Idle \in Rec(S)
    BY DEF Idle, Rec
  <1> QED
    BY <1>1

\* One read gets the record q, which starts, ends or goes on.
LEMMA Becomes ==
  ASSUME Shaped, NEW c \in Calls, NEW T, NEW q \in Rec(T), call' = [call EXCEPT ![c] = q],
         Begun(q) \/ Over(c, q) \/ Got(c, q)
  PROVE  Changes(c)
  BY DEF Shaped, Changes

LEMMA EndedIs ==
  ASSUME Shaped, NEW c \in Calls, NEW s
  PROVE  /\ \E T : Ended(c, s) \in Rec(T)
         /\ Ended(c, s).pc = s /\ Ended(c, s).calm = call[c].calm
  <1> DEFINE b == call[c].calm
  <1> HIDE DEF b
  <1>1. [Idle EXCEPT !.pc = s, !.calm = b].pc = s /\ [Idle EXCEPT !.pc = s, !.calm = b].calm = b
    BY DEF Idle
  <1>2. PICK S : Idle \in Rec(S)
    BY IdleShaped
  <1>3. [Idle EXCEPT !.pc = s, !.calm = b] \in Rec(S \cup {s, b})
    BY <1>2 DEF Rec
  <1> QED
    BY <1>1, <1>3 DEF Ended, b

\* A read that ends, and one whose download fails.
LEMMA Ends ==
  ASSUME Shaped, NEW c \in Calls, NEW s \in {"done", "failed", "lost", "nothing"},
         s = "failed" => events < MaxEvents, call' = [call EXCEPT ![c] = Ended(c, s)]
  PROVE  Changes(c)
  <1>1. Over(c, Ended(c, s))
    BY EndedIs DEF Over
  <1> QED
    BY <1>1, EndedIs, Becomes

LEMMA Fails ==
  ASSUME Shaped, NEW c \in Calls, call[c].pc \notin Stopped, NEW s \in {"failed", "lost"},
         s = "failed" => events < MaxEvents, CatalogueFails(c, s)
  PROVE  Changes(c)
  <1> DEFINE r == call[c]
             q == [r EXCEPT !.pc = "scope", !.seen = {}, !.fetched = {}, !.found = {},
                          !.checked = -1]
  <1>1. CASE r.op # "content"
    BY <1>1, Ends DEF CatalogueFails, Shaped
  <1>2. CASE r.op = "content"
    <2>1. PICK S : call \in [Calls -> Rec(S)]
      BY DEF Shaped
    <2>2. call' = [call EXCEPT ![c] = q]
      BY <1>2, <2>1 DEF CatalogueFails
    <2>3. r \in Rec(S)
      BY <2>1
    <2>4. q \in Rec(S \cup {"scope", {}, -1})
      BY <2>3 DEF Rec
    <2>5. q.pc = "scope" /\ q.process = r.process /\ q.calm = r.calm /\ q.checked = -1 /\ q.found = {}
      BY <2>3 DEF Rec
    <2>6. Got(c, q)
      BY <2>5 DEF Got, Stopped
    <2> HIDE DEF q
    <2> QED
      BY <2>2, <2>4, <2>6, Becomes
  <1> QED
    BY <1>1, <1>2

\* A read whose next step asks nothing of its record.
LEMMA GoesTo ==
  ASSUME Shaped, NEW c \in Calls, call[c].pc \notin Stopped,
         NEW s \in {"check", "list", "ask", "waiting", "load", "fetch", "flush", "complete"},
         Goto(c, s)
  PROVE  Changes(c)
  <1> DEFINE r == call[c]
             q == [r EXCEPT !.pc = s]
  <1>1. PICK S : call \in [Calls -> Rec(S)]
    BY DEF Shaped
  <1>2. call' = [call EXCEPT ![c] = q]
    BY <1>1 DEF Goto
  <1>3. q \in Rec(S \cup {s}) /\ q.pc = s /\ q.process = r.process /\ q.calm = r.calm
    BY <1>1 DEF Rec
  <1> HIDE DEF q
  <1>4. Got(c, q)
    BY <1>3 DEF Got, Stopped
  <1> QED
    BY <1>2, <1>3, <1>4, Becomes

\* Each step of a read, as what it makes of the read's record.
LEMMA CatalogueChanges1 ==
  ASSUME Placed, NEW c \in Calls, CatalogueStep(c), ~InsertRows(c), ~ChooseScope(c)
  PROVE  Changes(c)
  <1> DEFINE r == call[c]
  <1>1. PICK S : call \in [Calls -> Rec(S)]
    BY DEF Placed, Shaped
  <1>2. Shaped /\ r \in Rec(S)
    BY <1>1 DEF Placed
  <1>3. CASE CheckFresh(c)
    <2> DEFINE v == IF HasFreshCatalogue(Api(c)) THEN "search" ELSE "list"
               q == [r EXCEPT !.pc = v, !.checked = now]
    <2>1. /\ r.pc = "check" /\ UNCHANGED table
          /\ v = "list" \/ (v = "search" /\ HasFreshCatalogue(Api(c)))
      BY <1>3 DEF CheckFresh, At, catalogueVars
    <2>2. call' = [call EXCEPT ![c].pc = v, ![c].checked = now]
      BY <1>3 DEF CheckFresh
    <2> HIDE DEF v
    <2>3. call' = [call EXCEPT ![c] = q]
      BY <1>1, <2>2 DEF Rec
    <2>4. q \in Rec(S \cup {v, now})
      BY <1>2 DEF Rec
    <2>5. q.pc = v /\ q.checked = now /\ q.process = r.process /\ q.calm = r.calm
      BY <1>2 DEF Rec
    <2> HIDE DEF q
    <2>6. Got(c, q)
      BY <2>1, <2>5 DEF Got, Stopped
    <2> QED
      BY <1>2, <2>3, <2>4, <2>6, Becomes
  <1>4. CASE ListCatalogue(c) /\ ~DownloadFails(c)
    <2> DEFINE v == IF Api(c) = "v12" THEN "hydrate" ELSE "byId"
               q == [r EXCEPT !.pc = v, !.fetched = ptvOrgs]
    <2>1. r.pc = "list" /\ v \in {"hydrate", "byId"}
      BY <1>4 DEF ListCatalogue, At
    <2>2. call' = [call EXCEPT ![c].pc = v, ![c].fetched = ptvOrgs]
      BY <1>4 DEF ListCatalogue
    <2> HIDE DEF v
    <2>3. call' = [call EXCEPT ![c] = q]
      BY <1>1, <2>2 DEF Rec
    <2>4. q \in Rec(S \cup {v, ptvOrgs})
      BY <1>2 DEF Rec
    <2>5. q.pc = v /\ q.fetched = ptvOrgs /\ q.process = r.process /\ q.calm = r.calm
      BY <1>2 DEF Rec
    <2> HIDE DEF q
    <2>6. Got(c, q)
      BY <2>1, <2>5 DEF Got, Stopped
    <2> QED
      BY <1>2, <2>3, <2>4, <2>6, Becomes
  <1>5. CASE HydrateCatalogue(c) /\ ~DownloadFails(c)
    <2> DEFINE q == [r EXCEPT !.pc = "delete"]
    <2>1. r.pc = "hydrate" /\ Goto(c, "delete")
      BY <1>5 DEF HydrateCatalogue, At
    <2>2. call' = [call EXCEPT ![c] = q]
      BY <1>1, <2>1 DEF Goto
    <2>3. q \in Rec(S \cup {"delete"})
      BY <1>2 DEF Rec
    <2>4. q.pc = "delete" /\ q.fetched = r.fetched /\ q.process = r.process /\ q.calm = r.calm
      BY <1>2 DEF Rec
    <2> HIDE DEF q
    <2>5. Got(c, q)
      BY <2>1, <2>4 DEF Got, Stopped
    <2> QED
      BY <1>2, <2>2, <2>3, <2>5, Becomes
  <1>6. CASE ReadByIds(c) /\ ~DownloadFails(c)
    <2> DEFINE v == r.fetched \cap ptvOrgs
               q == [r EXCEPT !.pc = "delete", !.fetched = v]
    <2>1. r.pc = "byId"
      BY <1>6 DEF ReadByIds, At
    <2>2. call' = [call EXCEPT ![c].pc = "delete", ![c].fetched = v]
      BY <1>1, <1>6 DEF ReadByIds, Rec
    <2>3. call' = [call EXCEPT ![c] = q]
      <3> HIDE DEF v
      <3> QED
        BY <1>1, <2>2 DEF Rec
    <2>4. q \in Rec(S \cup {v, "delete"})
      BY <1>2 DEF Rec
    <2>5. q.pc = "delete" /\ q.fetched = v /\ q.process = r.process /\ q.calm = r.calm
      BY <1>2 DEF Rec
    <2> HIDE DEF q
    <2>6. Got(c, q)
      BY <2>1, <2>5 DEF Got, Stopped
    <2> QED
      BY <1>2, <2>3, <2>4, <2>6, Becomes
  <1>7. CASE DeleteRows(c)
    <2> DEFINE stale == now + CatalogueTtl
               seen == table[Api(c)]
               q == [r EXCEPT !.pc = "insert", !.staleAt = stale, !.seen = seen]
    <2>1. r.pc = "delete"
      BY <1>7 DEF DeleteRows, At
    <2>2. call' = [call EXCEPT ![c].pc = "insert", ![c].staleAt = stale, ![c].seen = seen]
      BY <1>7 DEF DeleteRows
    <2>3. stale = now + CatalogueTtl /\ seen = table[Api(c)]
      OBVIOUS
    <2> HIDE DEF stale, seen
    <2>4. call' = [call EXCEPT ![c] = q]
      BY <1>1, <2>2 DEF Rec
    <2>5. q \in Rec(S \cup {stale, seen, "insert"})
      BY <1>2 DEF Rec
    <2>6. /\ q.pc = "insert" /\ q.staleAt = stale /\ q.seen = seen /\ q.fetched = r.fetched
          /\ q.process = r.process /\ q.calm = r.calm
      BY <1>2 DEF Rec
    <2> HIDE DEF q
    <2>7. Got(c, q)
      BY <2>1, <2>3, <2>6 DEF Got, Stopped
    <2> QED
      BY <1>2, <2>4, <2>5, <2>7, Becomes
  <1>8. CASE SearchRows(c)
    <2> DEFINE live == Live(table[Api(c)])
               late == now > r.checked
               q == [r EXCEPT !.pc = "scope", !.found = live, !.waited = late]
    <2>1. r.pc = "search"
      BY <1>8 DEF SearchRows, At
    <2>2. call' = [call EXCEPT ![c].pc = "scope", ![c].found = live, ![c].waited = late]
      BY <1>8 DEF SearchRows
    <2>3. live = Live(table[Api(c)]) /\ late = (now > r.checked)
      OBVIOUS
    <2> HIDE DEF live, late
    <2>4. call' = [call EXCEPT ![c] = q]
      BY <1>1, <2>2 DEF Rec
    <2>5. q \in Rec(S \cup {live, late, "scope"})
      BY <1>2 DEF Rec
    <2>6. /\ q.pc = "scope" /\ q.found = live /\ q.waited = late /\ q.checked = r.checked
          /\ q.process = r.process /\ q.calm = r.calm
      BY <1>2 DEF Rec
    <2> HIDE DEF q
    <2>7. Got(c, q)
      BY <2>1, <2>3, <2>6, Zenon DEF Got, Stopped
    <2> QED
      BY <1>2, <2>4, <2>5, <2>7, Becomes
  <1>9. CASE DownloadFails(c) /\ r.pc \notin Stopped
    BY <1>2, <1>9, Fails DEF DownloadFails, Event
  <1>10. CASE ReadRoot(c)
    <2>1. r.pc \notin Stopped
      BY <1>10 DEF ReadRoot, At, Stopped
    <2> QED
      BY <1>2, <1>10, <2>1, GoesTo, Ends DEF ReadRoot, Fail, Event
  <1>11. ListCatalogue(c) \/ HydrateCatalogue(c) \/ ReadByIds(c) => r.pc \notin Stopped
    BY DEF ListCatalogue, HydrateCatalogue, ReadByIds, At, Stopped
  <1> QED
    BY <1>3, <1>4, <1>5, <1>6, <1>7, <1>8, <1>9, <1>10, <1>11 DEF CatalogueStep

LEMMA InsertChanges ==
  ASSUME Placed, NEW c \in Calls, InsertRows(c)
  PROVE  Changes(c)
  <1> DEFINE r == call[c]
             k == r.staleAt - CatalogueTtl
             q == [r EXCEPT !.pc = "search", !.seen = {}, !.fetched = {}, !.checked = k]
  <1>1. PICK S : call \in [Calls -> Rec(S)]
    BY DEF Placed, Shaped
  <1>2. Shaped /\ r \in Rec(S) /\ r.pc = "insert"
    BY <1>1 DEF Placed, InsertRows, At
  <1>3. CASE \E x \in Others(c), y \in NewRows(c) : x.org = y.org
    <2>1. CatalogueFails(c, "lost")
      BY <1>3 DEF InsertRows, Others, NewRows
    <2> QED
      BY <1>2, <2>1, Fails DEF Stopped
  <1>4. CASE \A x \in Others(c), y \in NewRows(c) : x.org # y.org
    <2>1. call' = [call EXCEPT ![c].pc = "search", ![c].seen = {}, ![c].fetched = {}, ![c].checked = k]
      BY <1>4 DEF InsertRows, Others, NewRows
    <2>2. Inserted(c)
      BY <1>4 DEF InsertRows, Inserted, Others, NewRows
    <2>3. k = r.staleAt - CatalogueTtl
      OBVIOUS
    <2> HIDE DEF k
    <2>4. call' = [call EXCEPT ![c] = q]
      BY <1>1, <2>1 DEF Rec
    <2>5. q \in Rec(S \cup {k, {}, "search"})
      BY <1>2 DEF Rec
    <2>6. /\ q.pc = "search" /\ q.checked = k
          /\ q.process = r.process /\ q.calm = r.calm
      BY <1>2 DEF Rec
    <2> HIDE DEF q
    <2>7. Got(c, q)
      BY <1>2, <2>2, <2>3, <2>6 DEF Got, Stopped
    <2> QED
      BY <1>2, <2>4, <2>5, <2>7, Becomes
  <1> QED
    BY <1>3, <1>4

\* A read that goes on to an organisation's services.
LEMMA ReadsOn ==
  ASSUME Shaped, NEW c \in Calls, call[c].pc \notin Stopped, NEW scope, Reads(c, scope)
  PROVE  Changes(c)
  <1> DEFINE r == call[c]
             o == r.op
             p == r.process
             k == r.calm
             q == [Idle EXCEPT !.op = o, !.process = p, !.calm = k, !.pc = "ask",
                               !.scope = scope, !.todo = scope]
  <1>1. call' = [call EXCEPT ![c] = q]
    BY DEF Reads
  <1>2. o = r.op /\ p = r.process /\ k = r.calm
    OBVIOUS
  <1> HIDE DEF o, p, k
  <1>3. PICK S : Idle \in Rec(S)
    BY IdleShaped
  <1>4. q \in Rec(S \cup {o, p, k, scope, "ask"})
    BY <1>3 DEF Rec
  <1>5. q.pc = "ask" /\ q.process = p /\ q.calm = k
    BY <1>3 DEF Rec
  <1> HIDE DEF q
  <1>6. Got(c, q)
    BY <1>2, <1>5 DEF Got, Stopped
  <1> QED
    BY <1>1, <1>4, <1>6, Becomes

LEMMA ChooseChanges ==
  ASSUME Placed, NEW c \in Calls, ChooseScope(c)
  PROVE  Changes(c)
  <1>1. Shaped /\ call[c].pc \notin Stopped
    BY DEF Placed, ChooseScope, At, Stopped
  <1>2. \/ call' = [call EXCEPT ![c] = Ended(c, "done")]
        \/ call' = [call EXCEPT ![c] = Ended(c, "nothing")]
        \/ \E scope : Reads(c, scope)
    BY DEF ChooseScope
  <1> QED
    BY <1>1, <1>2, Ends, ReadsOn

\* A read's step that changes its place and its answer only.
LEMMA Answers ==
  ASSUME Shaped, NEW c \in Calls, call[c].pc \notin Stopped, NEW s, NEW v,
         \/ call' = [call EXCEPT ![c].pc = s, ![c].answer = v]
         \/ call' = [call EXCEPT ![c].answer = v, ![c].pc = s],
         \/ s \in {"fetch", "flush", "complete"}
         \/ s = "primed" /\ v \in {store, Null}
         \/ s = "answered" /\ v = known
         \/ s = "save" /\ call[c].pc = "flush" /\ v = pending[call[c].process]
  PROVE  Changes(c)
  <1> DEFINE r == call[c]
             q == [r EXCEPT !.pc = s, !.answer = v]
  <1>1. PICK S : call \in [Calls -> Rec(S)]
    BY DEF Shaped
  <1>2. r \in Rec(S)
    BY <1>1
  <1>3. call' = [call EXCEPT ![c] = q]
    BY <1>1 DEF Rec
  <1>4. q \in Rec(S \cup {s, v})
    BY <1>2 DEF Rec
  <1>5. q.pc = s /\ q.answer = v /\ q.process = r.process /\ q.calm = r.calm
    BY <1>2 DEF Rec
  <1> HIDE DEF q
  <1>6. Got(c, q)
    BY <1>5 DEF Got, Stopped
  <1> QED
    BY <1>3, <1>4, <1>6, Becomes

LEMMA CodeChanges ==
  ASSUME Placed, NEW c \in Calls, CodeStep(c)
  PROVE  Changes(c)
  <1> DEFINE r == call[c]
             p == r.process
  <1>1. Shaped
    BY DEF Placed
  <1>2. r.pc \notin Stopped
    BY DEF CodeStep, LoadRow, Prime, AskName, RememberName, BeginFlush, Save, At, Stopped
  <1>3. CASE LoadRow(c)
    <2>1. PICK row \in {store, Null} :
            call' = [call EXCEPT ![c].pc = "primed",
                       ![c].answer = IF row # Null /\ row.expiresAt > now THEN row ELSE Null]
      BY <1>3 DEF LoadRow
    <2> DEFINE v == IF row # Null /\ row.expiresAt > now THEN row ELSE Null
    <2>2. v \in {store, Null}
      OBVIOUS
    <2>3. call' = [call EXCEPT ![c].pc = "primed", ![c].answer = v]
      BY <2>1
    <2> HIDE DEF v
    <2> QED
      BY <1>1, <1>2, <2>2, <2>3, Answers
  <1>4. CASE Prime(c)
    <2> DEFINE row == r.answer
               primed == row # Null /\ row.expiresAt > now
               s == IF primed \/ Remembers(p) THEN "flush" ELSE "fetch"
    <2>1. call' = [call EXCEPT ![c].answer = Null, ![c].pc = s]
      BY <1>4 DEF Prime
    <2>2. s \in {"flush", "fetch"}
      OBVIOUS
    <2> HIDE DEF s
    <2> QED
      BY <1>1, <1>2, <2>1, <2>2, Answers
  <1>5. CASE AskName(c)
    <2>1. \/ call' = [call EXCEPT ![c].pc = "answered", ![c].answer = known]
          \/ Goto(c, "flush")
      BY <1>5 DEF AskName
    <2> QED
      BY <1>1, <1>2, <2>1, Answers, GoesTo
  <1>6. CASE RememberName(c)
    BY <1>1, <1>2, <1>6, Answers DEF RememberName
  <1>7. CASE BeginFlush(c)
    <2>1. \/ Goto(c, "complete")
          \/ r.pc = "flush" /\ call' = [call EXCEPT ![c].pc = "save", ![c].answer = pending[p]]
      BY <1>7 DEF BeginFlush, At
    <2> QED
      BY <1>1, <1>2, <2>1, Answers, GoesTo
  <1>8. CASE Save(c)
    BY <1>1, <1>2, <1>8, Answers DEF Save
  <1> QED
    BY <1>3, <1>4, <1>5, <1>6, <1>7, <1>8 DEF CodeStep

LEMMA ListChanges ==
  ASSUME Placed, NEW c \in Calls,
         StartRead(c) \/ GetService(c) \/ AskList(c) \/ TakePage(c) \/ Complete(c)
  PROVE  Changes(c)
  <1> DEFINE r == call[c]
  <1>1. PICK S : call \in [Calls -> Rec(S)]
    BY DEF Placed, Shaped
  <1>2. Shaped /\ r \in Rec(S)
    BY <1>1 DEF Placed
  <1>3. CASE StartRead(c)
    <2>1. PICK op \in DOMAIN FirstStep, p \in Processes :
            LET scope == IF op = "services" THEN <<Root>> ELSE <<>> IN
            call' = [call EXCEPT ![c] =
              [Idle EXCEPT !.op = op, !.pc = FirstStep[op], !.process = p,
                           !.calm = (events = MaxEvents), !.scope = scope, !.todo = scope]]
      BY <1>3 DEF StartRead
    <2> DEFINE scope == IF op = "services" THEN <<Root>> ELSE <<>>
               s == FirstStep[op]
               k == (events = MaxEvents)
               q == [Idle EXCEPT !.op = op, !.pc = s, !.process = p, !.calm = k,
                                 !.scope = scope, !.todo = scope]
    <2>2. call' = [call EXCEPT ![c] = q]
      BY <2>1
    <2>3. /\ s \in {"check", "ask", "get", "root"} /\ k = (events = MaxEvents)
          /\ s = "get" => op = "service"
      BY DEF FirstStep
    <2> HIDE DEF scope, s, k
    <2>4. PICK U : Idle \in Rec(U)
      BY IdleShaped
    <2>5. q \in Rec(U \cup {op, s, p, k, scope})
      BY <2>4 DEF Rec
    <2>6. q.pc = s /\ q.process = p /\ q.calm = k /\ q.op = op
      BY <2>4 DEF Rec
    <2> HIDE DEF q
    <2>7. Begun(q)
      BY <2>3, <2>6, Zenon DEF Begun
    <2> QED
      BY <1>2, <2>2, <2>5, <2>7, Becomes
  <1>4. CASE GetService(c)
    <2>1. r.pc \notin Stopped
      BY <1>4 DEF GetService, At, Stopped
    <2>2. \/ call' = [call EXCEPT ![c] = Ended(c, "done")]
          \/ \E s \in {"load", "flush", "complete"} : Goto(c, s)
          \/ events < MaxEvents /\ call' = [call EXCEPT ![c] = Ended(c, "failed")]
      BY <1>4 DEF GetService, LookUp, Event, Fail
    <2> QED
      BY <1>2, <2>1, <2>2, Ends, GoesTo
  <1>5. CASE AskList(c)
    BY <1>2, <1>5, GoesTo DEF AskList, At, Stopped
  <1>6. CASE TakePage(c)
    <2>1. r.pc \notin Stopped
      BY <1>6 DEF TakePage, At, Stopped
    <2>2. \/ \E s \in {"load", "flush", "complete"} : Goto(c, s)
          \/ events < MaxEvents /\ call' = [call EXCEPT ![c] = Ended(c, "failed")]
      BY <1>6 DEF TakePage, LookUp, Event, Fail
    <2> QED
      BY <1>2, <2>1, <2>2, Ends, GoesTo
  <1>7. CASE Complete(c)
    <2> DEFINE page == PageOf(Of(c).rows, r.page)
               mine == r.mine \o page
               last == LastPage(Of(c).rows, Len(mine), Len(page))
               items == r.items \o SubSeq(mine, 1, MinOf(Len(mine), MaxItems))
               again == r.page + 1
               rest == Tail(r.todo)
               o == r.op
               p == r.process
               sc == r.scope
               q1 == [r EXCEPT !.pc = "ask", !.page = again, !.mine = mine]
               q2 == [r EXCEPT !.pc = "ask", !.todo = rest, !.page = 1, !.mine = <<>>,
                               !.items = items]
               q3 == [Ended(c, "done") EXCEPT !.op = o, !.process = p, !.items = items,
                                              !.scope = sc]
    <2>1. r.pc = "complete"
      BY <1>7 DEF Complete, At
    <2>2. \/ call' = [call EXCEPT ![c] = Ended(c, "done")]
          \/ call' = [call EXCEPT ![c] = q1]
          \/ call' = [call EXCEPT ![c] = q2]
          \/ call' = [call EXCEPT ![c] = q3]
      <3>1. call' = [call EXCEPT ![c] =
              CASE r.op # "content" -> Ended(c, "done")
                [] r.op = "content" /\ ~last -> q1
                [] r.op = "content" /\ last /\ Len(r.todo) > 1 -> q2
                [] OTHER -> q3]
        BY <1>1, <1>7 DEF Complete
      <3> HIDE DEF q1, q2, q3, last
      <3> QED
        BY <3>1
    <2> HIDE DEF mine, items, again, rest, o, p, sc
    <2>3. /\ q1 \in Rec(S \cup {"ask", again, mine})
          /\ q1.pc = "ask" /\ q1.process = r.process /\ q1.calm = r.calm
      BY <1>2 DEF Rec
    <2>4. /\ q2 \in Rec(S \cup {"ask", rest, 1, <<>>, items})
          /\ q2.pc = "ask" /\ q2.process = r.process /\ q2.calm = r.calm
      BY <1>2 DEF Rec
    <2>5. PICK T : Ended(c, "done") \in Rec(T)
      BY <1>2, EndedIs
    <2>6. Ended(c, "done").pc = "done" /\ Ended(c, "done").calm = r.calm
      BY <1>2, EndedIs
    <2>7. /\ q3 \in Rec(T \cup {o, p, items, sc})
          /\ q3.pc = "done" /\ q3.calm = r.calm
      BY <2>5, <2>6 DEF Rec
    <2> HIDE DEF q1, q2, q3
    <2>8. Got(c, q1) /\ Got(c, q2) /\ Over(c, q3)
      BY <2>1, <2>3, <2>4, <2>7 DEF Got, Over, Stopped
    <2> QED
      BY <1>2, <2>2, <2>3, <2>4, <2>7, <2>8, Ends, Becomes
  <1> QED
    BY <1>3, <1>4, <1>5, <1>6, <1>7

LEMMA StepChanges ==
  ASSUME Placed, NEW c \in Calls, ReadStep(c)
  PROVE  Changes(c)
  BY CatalogueChanges1, InsertChanges, ChooseChanges, CodeChanges, ListChanges DEF ReadStep

-----------------------------------------------------------------------------
(* What a step leaves alone.                                                *)

Events == events' = events \/ (events < MaxEvents /\ events' = events + 1)

LEMMA Footprint ==
  ASSUME NEW c \in Calls, ReadStep(c)
  PROVE  /\ UNCHANGED <<now, ptvOrgs, api, known>>
         /\ UNCHANGED table \/ Inserted(c)
         /\ Events
         /\ UNCHANGED <<memory, pending, store, unsaved>> \/ CodeStep(c)
  <1>1. CASE CatalogueStep(c) /\ UNCHANGED codeVars /\ ~InsertRows(c)
    BY <1>1 DEF CatalogueStep, CheckFresh, ListCatalogue, HydrateCatalogue, ReadByIds, DeleteRows,
       SearchRows, ReadRoot, ChooseScope, DownloadFails, catalogueVars, codeVars, Events, Event
  <1>2. CASE InsertRows(c) /\ UNCHANGED codeVars
    BY <1>2 DEF InsertRows, Inserted, Others, NewRows, codeVars, Events
  <1>3. CASE CodeStep(c)
    BY <1>3 DEF CodeStep, LoadRow, Prime, AskName, RememberName, BeginFlush, Save, catalogueVars,
       codeVars, Events, Event
  <1>4. CASE StartRead(c) \/ GetService(c) \/ AskList(c) \/ TakePage(c) \/ Complete(c)
    BY <1>4 DEF StartRead, GetService, AskList, TakePage, Complete, catalogueVars, codeVars, Events,
       Event
  <1> QED
    BY <1>1, <1>2, <1>3, <1>4 DEF ReadStep

\* A step of the downloads, of the clock or of PTV's own: it ends reads that
\* wait for a download that failed.
Outside ==
  /\ UNCHANGED <<api, table, memory, pending, store, unsaved>>
  /\ now' \in {now, now + 1}
  /\ ptvOrgs' \subseteq ptvOrgs \cup Orgs /\ (Root \in ptvOrgs => Root \in ptvOrgs')
  /\ known' \in {known, ~known}
  /\ Events
  /\ UNCHANGED call
       \/ /\ events < MaxEvents
          /\ \E waiting \in SUBSET Calls :
               /\ \A c \in waiting : call[c].pc = "waiting"
               /\ call' = [c \in Calls |-> IF c \in waiting THEN Ended(c, "failed") ELSE call[c]]

LEMMA NextIs ==
  ASSUME Next
  PROVE  Outside \/ \E c \in Calls : ReadStep(c)
  <1>1. ASSUME NEW p \in Processes, NEW o \in Orgs,
               LoadV11List(p, o) \/ LoadV12List(p, o) \/ HydrateList(p, o)
        PROVE  Outside
    BY <1>1 DEF LoadV11List, LoadV12List, HydrateList, catalogueVars, codeVars, Outside, Events
  <1>2. ASSUME NEW p \in Processes, NEW o \in Orgs, ListFails(p, o)
        PROVE  Outside
    <2>1. /\ events < MaxEvents
          /\ call' = [c \in Calls |-> IF c \in Waiting(p, o) THEN Ended(c, "failed") ELSE call[c]]
          /\ UNCHANGED <<api, table, memory, pending, store, unsaved, now, ptvOrgs, known>>
          /\ Events
      BY <1>2 DEF ListFails, Event, Events, codeVars
    <2>2. Waiting(p, o) \in SUBSET Calls /\ \A c \in Waiting(p, o) : call[c].pc = "waiting"
      BY DEF Waiting, At
    <2> QED
      BY <2>1, <2>2 DEF Outside
  <1>3. CASE (Tick \/ CatalogueChanges) /\ UNCHANGED <<codeVars, listed, lists>>
    BY <1>3, CatalogueAssumption DEF Tick, CatalogueChanges, Event, Events, codeVars, Outside
  <1>4. CASE VocabularyChanges \/ ContentChanges
    BY <1>4 DEF VocabularyChanges, ContentChanges, Event, Events, codeVars, Outside
  <1> QED
    BY <1>1, <1>2, <1>3, <1>4 DEF Next, ReadStep

\* Each read keeps its record, starts, ends or goes on.
LEMMA RecordsChange ==
  ASSUME Placed, Next, NEW d \in Calls
  PROVE  \/ call'[d] = call[d]
         \/ ReadStep(d) /\ (Begun(call'[d]) \/ Got(d, call'[d]))
         \/ Over(d, call'[d])
  <1>1. CASE Outside
    <2>1. Ended(d, "failed").pc = "failed" /\ Ended(d, "failed").calm = call[d].calm
      BY EndedIs DEF Placed
    <2> QED
      BY <1>1, <2>1 DEF Outside, Over
  <1>2. ASSUME NEW c \in Calls, ReadStep(c)
        PROVE  \/ call'[d] = call[d]
               \/ ReadStep(d) /\ (Begun(call'[d]) \/ Got(d, call'[d]))
               \/ Over(d, call'[d])
    BY <1>2, StepChanges DEF Changes
  <1> QED
    BY <1>1, <1>2, NextIs

LEMMA StepPlaced ==
  ASSUME Placed, Next
  PROVE  Placed'
  <1>1. PICK S : call \in [Calls -> Rec(S)]
    BY DEF Placed, Shaped
  <1>2. api' \in [Processes -> Apis]
    BY NextIs, Footprint DEF Outside, Placed
  <1>3. Shaped'
    <2>1. CASE Outside
      <3>1. CASE UNCHANGED call
        BY <1>1, <3>1 DEF Shaped
      <3>2. ASSUME NEW waiting \in SUBSET Calls,
                   call' = [c \in Calls |-> IF c \in waiting THEN Ended(c, "failed") ELSE call[c]]
            PROVE  Shaped'
        <4>1. PICK T : Idle \in Rec(T)
          BY IdleShaped
        <4> DEFINE U == S \cup T \cup {"failed"}
        <4>2. \A c \in Calls : call[c] \in Rec(U)
          BY <1>1 DEF Rec
        <4>3. ASSUME NEW c \in Calls PROVE Ended(c, "failed") \in Rec(U)
          <5> DEFINE k == call[c].calm
          <5>1. k \in U
            BY <1>1 DEF Rec
          <5> HIDE DEF k
          <5>2. [Idle EXCEPT !.pc = "failed", !.calm = k] \in Rec(U)
            BY <4>1, <5>1 DEF Rec
          <5> QED
            BY <5>2 DEF Ended, k
        <4>4. call' \in [Calls -> Rec(U)]
          BY <3>2, <4>2, <4>3
        <4> QED
          BY <4>4 DEF Shaped
      <3> QED
        BY <2>1, <3>1, <3>2 DEF Outside
    <2>2. ASSUME NEW c \in Calls, Changes(c) PROVE Shaped'
      <3>1. PICK T : call'[c] \in Rec(T)
        BY <2>2 DEF Changes
      <3>2. \A d \in Calls : call'[d] \in Rec(S \cup T)
        BY <1>1, <2>2, <3>1 DEF Changes, Rec
      <3>3. call' \in [Calls -> Rec(S \cup T)]
        BY <2>2, <3>2 DEF Changes
      <3> QED
        BY <3>3 DEF Shaped
    <2> QED
      BY <2>1, <2>2, NextIs, StepChanges
  <1>4. ASSUME NEW d \in Calls, call'[d].pc \notin Stopped PROVE call'[d].process \in Processes
    BY <1>4, RecordsChange DEF Placed, Begun, Over, Got, Stopped
  <1>5. ASSUME NEW d \in Calls, call'[d].pc = "get" PROVE call'[d].op = "service"
    BY <1>5, RecordsChange DEF Placed, Begun, Over, Got
  <1> QED
    BY <1>2, <1>3, <1>4, <1>5 DEF Placed

-----------------------------------------------------------------------------
(* The cached catalogue is one whole download.                              *)

\* The rows of one download: Root's organisation is in every one, because
\* PTV's catalogue never lacks it.
Download(rows, list, stale, domain) == rows = {Row(o, list, stale, domain) : o \in list}
Whole(rows, latest) ==
  \E list \in SUBSET Orgs, stale \in Int, domain \in BOOLEAN :
    Root \in list /\ stale <= latest /\ Download(rows, list, stale, domain)

Reading(c) ==
  LET r == call[c] IN
  /\ r.pc \in {"hydrate", "byId", "delete", "insert"}
       => Root \in r.fetched /\ r.fetched \subseteq Orgs
  /\ r.pc = "insert" =>
       r.staleAt \in Int /\ r.staleAt <= now + CatalogueTtl /\ Whole(r.seen, r.staleAt)
  /\ r.pc = "search" =>
       /\ r.checked \in Int /\ r.checked <= now
       /\ \A x \in table[api[r.process]] : x.domain /\ x.staleAt > r.checked
  /\ r.pc = "scope" /\ r.found = {} /\ r.checked >= 0 => r.waited
  /\ r.pc = "scope" => \A x \in r.found : x.org \in Orgs

Downloads ==
  /\ now \in Nat
  /\ Root \in ptvOrgs /\ ptvOrgs \subseteq Orgs
  /\ table = [a \in Apis |-> table[a]]
  /\ \A a \in Apis : Whole(table[a], now + CatalogueTtl)
  /\ \A c \in Calls : Reading(c)

LEMMA WholeRows ==
  ASSUME NEW rows, NEW latest, Whole(rows, latest)
  PROVE  /\ \E x \in rows : x.org = Root
         /\ \A x \in rows : /\ x.staleAt \in Int /\ x.staleAt <= latest
                            /\ x.org \in Orgs /\ {y.org : y \in rows} = x.whole
                            /\ \A y \in rows : y.staleAt = x.staleAt /\ y.domain = x.domain
  <1>1. PICK list \in SUBSET Orgs, stale \in Int, domain \in BOOLEAN :
          Root \in list /\ stale <= latest /\ Download(rows, list, stale, domain)
    BY DEF Whole
  <1>2. \A o : LET x == Row(o, list, stale, domain) IN
          x.org = o /\ x.whole = list /\ x.staleAt = stale /\ x.domain = domain
    BY DEF Row
  <1>3. \A x \in rows : x.org \in list /\ x.whole = list /\ x.staleAt = stale /\ x.domain = domain
    BY <1>1, <1>2 DEF Download
  <1>4. \A o \in list : \E x \in rows : x.org = o
    BY <1>1, <1>2 DEF Download
  <1>5. {y.org : y \in rows} = list
    BY <1>3, <1>4
  <1> QED
    BY <1>1, <1>3, <1>4, <1>5

\* Two downloads that share a row are the same.
LEMMA OneDownload ==
  ASSUME NEW A, NEW B, NEW k, NEW l, Whole(A, k), Whole(B, l), NEW x \in A, x \in B
  PROVE  A = B
  <1>1. PICK la, sa, da : Download(A, la, sa, da)
    BY DEF Whole
  <1>2. PICK lb, sb, db : Download(B, lb, sb, db)
    BY DEF Whole
  <1>3. /\ x.whole = la /\ x.staleAt = sa /\ x.domain = da
    BY <1>1 DEF Download, Row
  <1>4. /\ x.whole = lb /\ x.staleAt = sb /\ x.domain = db
    BY <1>2 DEF Download, Row
  <1> QED
    BY <1>1, <1>2, <1>3, <1>4 DEF Download

\* A transaction that commits replaces the download it saw by its own, which
\* is no older.
LEMMA InsertedIs ==
  ASSUME Placed, Downloads, NEW c \in Calls, Inserted(c)
  PROVE  LET r == call[c]
             a == api[r.process]
         IN
         /\ a \in Apis /\ table' = [table EXCEPT ![a] = NewRows(c)]
         /\ Whole(NewRows(c), r.staleAt)
         /\ \A x \in NewRows(c) : x.domain /\ x.staleAt = r.staleAt
         /\ \A x \in table[a] : x.staleAt \in Int /\ x.staleAt <= r.staleAt
         /\ r.staleAt \in Int /\ r.staleAt <= now + CatalogueTtl
  <1> DEFINE r == call[c]
             a == api[r.process]
  <1>1. /\ r.pc = "insert" /\ Root \in r.fetched /\ r.fetched \subseteq Orgs
        /\ r.staleAt \in Int /\ r.staleAt <= now + CatalogueTtl /\ Whole(r.seen, r.staleAt)
    BY DEF Inserted, At, Downloads, Reading
  <1>2. a \in Apis
    BY <1>1 DEF Placed, Stopped
  <1>3. Whole(table[a], now + CatalogueTtl)
    BY <1>2 DEF Downloads
  <1>4. Whole(NewRows(c), r.staleAt)
    <2>1. Download(NewRows(c), r.fetched, r.staleAt, TRUE)
      BY DEF NewRows, Download
    <2>2. r.staleAt <= r.staleAt /\ r.fetched \in SUBSET Orgs
      BY <1>1
    <2> HIDE DEF r
    <2> QED
      BY <1>1, <2>1, <2>2 DEF Whole
  <1>5. PICK x \in table[a] : x.org = Root
    BY <1>3, WholeRows
  <1>6. PICK y \in NewRows(c) : y.org = Root
    BY <1>4, WholeRows
  <1>7. x \in r.seen
    BY <1>5, <1>6 DEF Inserted, Others, Api
  <1>8. table[a] = r.seen
    BY <1>1, <1>3, <1>7, OneDownload
  <1>9. table' = [table EXCEPT ![a] = NewRows(c)]
    <2>1. Others(c) = {}
      BY <1>8 DEF Others, Api
    <2> QED
      BY <2>1 DEF Inserted, Api
  <1>10. \A z \in NewRows(c) : z.domain /\ z.staleAt = r.staleAt
    BY DEF NewRows, Row
  <1>11. \A z \in table[a] : z.staleAt \in Int /\ z.staleAt <= r.staleAt
    BY <1>1, <1>8, WholeRows
  <1> QED
    BY <1>1, <1>2, <1>4, <1>9, <1>10, <1>11

LEMMA WholeLonger ==
  ASSUME NEW rows, NEW k \in Int, NEW l \in Int, k <= l, Whole(rows, k)
  PROVE  Whole(rows, l)
  BY DEF Whole

\* No later download brings rows that are older.
LEMMA TableLater ==
  ASSUME Placed, Downloads, Next, NEW b \in Apis
  PROVE  /\ Whole(table'[b], now' + CatalogueTtl)
         /\ \A k \in Int : (\A x \in table[b] : x.domain /\ x.staleAt > k)
              => \A x \in table'[b] : x.domain /\ x.staleAt > k
  <1>1. now \in Nat /\ now' \in {now, now + 1} /\ CatalogueTtl \in Nat
    BY NextIs, Footprint, CatalogueAssumption DEF Outside, Downloads
  <1>2. CASE table'[b] = table[b]
    <2>1. Whole(table[b], now + CatalogueTtl)
      BY DEF Downloads
    <2>2. Whole(table[b], now' + CatalogueTtl)
      BY <1>1, <2>1, WholeLonger
    <2> QED
      BY <1>2, <2>2
  <1>3. CASE table'[b] # table[b]
    <2>1. PICK c \in Calls : Inserted(c) /\ ReadStep(c)
      BY <1>3, NextIs, Footprint DEF Outside
    <2> DEFINE r == call[c]
               a == api[r.process]
    <2>2. /\ a \in Apis /\ table' = [table EXCEPT ![a] = NewRows(c)]
          /\ Whole(NewRows(c), r.staleAt)
          /\ \A x \in NewRows(c) : x.domain /\ x.staleAt = r.staleAt
          /\ \A x \in table[a] : x.staleAt \in Int /\ x.staleAt <= r.staleAt
          /\ r.staleAt \in Int /\ r.staleAt <= now + CatalogueTtl
      BY <2>1, InsertedIs
    <2> HIDE DEF r, a
    <2>3. b = a /\ table'[b] = NewRows(c)
      BY <1>3, <2>2 DEF Downloads
    <2>4. now' = now
      BY <2>1, Footprint
    <2>5. Whole(table'[b], now' + CatalogueTtl)
      BY <1>1, <2>2, <2>3, <2>4, WholeLonger
    <2>6. \E x \in table[a] : x.org = Root
      BY <2>2, WholeRows DEF Downloads
    <2> QED
      BY <2>2, <2>3, <2>5, <2>6
  <1> QED
    BY <1>2, <1>3

LEMMA StepDownloads ==
  ASSUME Placed, Downloads, Next
  PROVE  Downloads'
  <1>1. /\ now \in Nat /\ now' \in Nat /\ now' >= now /\ UNCHANGED api
        /\ CatalogueTtl \in Nat \ {0}
        /\ Root \in ptvOrgs /\ ptvOrgs \subseteq Orgs
        /\ Root \in ptvOrgs' /\ ptvOrgs' \subseteq Orgs
    BY NextIs, Footprint, CatalogueAssumption DEF Outside, Downloads
  <1>2. table' = [a \in Apis |-> table'[a]]
    <2>1. CASE UNCHANGED table
      BY <2>1 DEF Downloads
    <2>2. ASSUME NEW c \in Calls, Inserted(c) PROVE table' = [a \in Apis |-> table'[a]]
      BY <2>2 DEF Downloads, Inserted
    <2> QED
      BY <2>1, <2>2, NextIs, Footprint DEF Outside
  <1>3. ASSUME NEW d \in Calls PROVE Reading(d)'
    <2> DEFINE r == call[d]
               q == call'[d]
               b == api[r.process]
    <2>1. r.pc \notin Stopped => b \in Apis
      BY DEF Placed
    <2>2. CASE q = r
      <3>1. r.pc = "insert" => Whole(r.seen, r.staleAt) /\ r.staleAt <= now' + CatalogueTtl
        BY <1>1 DEF Downloads, Reading
      <3>2. r.pc = "search" =>
              /\ r.checked <= now'
              /\ \A x \in table'[api'[r.process]] : x.domain /\ x.staleAt > r.checked
        BY <1>1, <2>1, TableLater DEF Downloads, Reading, Stopped
      <3> QED
        BY <2>2, <3>1, <3>2 DEF Downloads, Reading
    <2>3. CASE Over(d, q) \/ Begun(q)
      BY <2>3 DEF Over, Begun, Reading
    <2>4. CASE ReadStep(d) /\ Got(d, q)
      <3>0. now' = now /\ b \in Apis /\ q.process = r.process /\ Api(d) = b
        BY <2>1, <2>4, Footprint DEF Got, Api
      <3>1. q.pc \in {"hydrate", "byId", "delete", "insert"}
              => Root \in q.fetched /\ q.fetched \subseteq Orgs
        BY <1>1, <2>4 DEF Got, Downloads, Reading
      <3>2. q.pc = "insert" =>
              q.staleAt \in Int /\ q.staleAt <= now' + CatalogueTtl /\ Whole(q.seen, q.staleAt)
        BY <1>1, <2>4, <3>0 DEF Got, Downloads
      <3>3. ASSUME q.pc = "search"
            PROVE  /\ q.checked \in Int /\ q.checked <= now'
                   /\ \A x \in table'[b] : x.domain /\ x.staleAt > q.checked
        <4>1. CASE HasFreshCatalogue(b) /\ q.checked = now /\ UNCHANGED table
          BY <1>1, <3>0, <4>1 DEF HasFreshCatalogue, Live
        <4>2. CASE Inserted(d) /\ q.checked = r.staleAt - CatalogueTtl
          <5>1. /\ table' = [table EXCEPT ![b] = NewRows(d)]
                /\ \A x \in NewRows(d) : x.domain /\ x.staleAt = r.staleAt
                /\ r.staleAt \in Int /\ r.staleAt <= now + CatalogueTtl
            BY <4>2, InsertedIs
          <5>2. table'[b] = NewRows(d)
            BY <3>0, <5>1 DEF Downloads
          <5> HIDE DEF b, r, q
          <5> QED
            BY <1>1, <3>0, <4>2, <5>1, <5>2
        <4> QED
          BY <2>4, <3>0, <3>3, <4>1, <4>2 DEF Got
      <3>4. ASSUME q.pc = "scope", q.found = {}, q.checked >= 0 PROVE q.waited
        <4>1. CASE q.checked = -1
          BY <3>4, <4>1
        <4>2. CASE /\ r.pc = "search" /\ q.found = Live(table[b])
                   /\ q.checked = r.checked /\ q.waited = (now > r.checked)
          <5>1. /\ r.checked \in Int /\ r.checked <= now
                /\ \A x \in table[b] : x.domain /\ x.staleAt > r.checked
            BY <4>2 DEF Downloads, Reading
          <5>2. PICK x \in table[b] : x.org = Root
            BY <3>0, WholeRows DEF Downloads
          <5>3. r.checked # now
            BY <3>4, <4>2, <5>1, <5>2 DEF Live
          <5>4. now > r.checked
            BY <1>1, <5>1, <5>3
          <5> QED
            BY <4>2, <5>4, Zenon
        <4> QED
          BY <2>4, <3>0, <3>4, <4>1, <4>2 DEF Got
      <3>5. ASSUME q.pc = "scope" PROVE \A x \in q.found : x.org \in Orgs
        <4>1. q.found = {} \/ q.found = Live(table[b])
          BY <2>4, <3>0, <3>5 DEF Got
        <4>2. \A x \in table[b] : x.org \in Orgs
          BY <3>0, WholeRows DEF Downloads
        <4> HIDE DEF q, b
        <4> QED
          BY <4>1, <4>2 DEF Live
      <3> QED
        BY <1>1, <3>0, <3>1, <3>2, <3>3, <3>4, <3>5 DEF Reading
    <2> QED
      BY <2>2, <2>3, <2>4, RecordsChange
  <1> QED
    BY <1>1, <1>2, <1>3, TableLater DEF Downloads

LEMMA InitShaped ==
  ASSUME Init
  PROVE  Placed /\ \A c \in Calls : call[c] = Idle /\ Idle.pc = "idle" /\ Idle.calm = FALSE
  <1>1. call = [c \in Calls |-> Idle]
    BY DEF Init, CatalogueInit
  <1>2. Idle.pc = "idle" /\ Idle.calm = FALSE
    BY DEF Idle
  <1>3. Shaped
    BY <1>1, IdleShaped DEF Shaped
  <1>4. api \in [Processes -> Apis]
    BY DEF Init, CatalogueInit
  <1> QED
    BY <1>1, <1>2, <1>3, <1>4 DEF Placed, Stopped

LEMMA InitDownloads ==
  ASSUME Init
  PROVE  Downloads
  <1>1. now = 0 /\ ptvOrgs = Orgs /\ Root \in Orgs /\ CatalogueTtl \in Nat
    BY CatalogueAssumption DEF Init, CatalogueInit
  <1>2. PICK rows \in {{Row(Root, {Root}, CatalogueTtl, TRUE)}, {Row(Root, {Root}, CatalogueTtl, FALSE)}} :
          table = [a \in Apis |-> rows]
    BY DEF Init, CatalogueInit
  <1>3. Whole(rows, now + CatalogueTtl)
    <2>1. PICK domain \in BOOLEAN : rows = {Row(Root, {Root}, CatalogueTtl, domain)}
      OBVIOUS
    <2>2. Download(rows, {Root}, CatalogueTtl, domain)
      BY <2>1 DEF Download
    <2>3. {Root} \in SUBSET Orgs /\ CatalogueTtl \in Int /\ CatalogueTtl <= now + CatalogueTtl
          /\ Root \in {Root}
      BY <1>1
    <2> QED
      BY <2>2, <2>3 DEF Whole
  <1>4. \A c \in Calls : Reading(c)
    BY InitShaped DEF Reading
  <1> QED
    BY <1>1, <1>2, <1>3, <1>4 DEF Downloads

LEMMA DownloadsAreWhole ==
  ASSUME Downloads
  PROVE  CatalogueIsWhole
  <1>1. OneCatalogue
    BY WholeRows DEF Downloads, OneCatalogue
  <1>2. EmptyOnlyAtExpiry
    BY DEF Downloads, Reading, EmptyOnlyAtExpiry, At
  <1> QED
    BY <1>1, <1>2 DEF CatalogueIsWhole

LEMMA StaysPlaced == Spec => []Placed
  <1>1. Init => Placed
    BY InitShaped
  <1>2. Placed /\ [Next]_vars => Placed'
    <2>1. CASE UNCHANGED vars
      BY <2>1 DEF vars, catalogueVars, Placed, Shaped
    <2> QED
      BY <2>1, StepPlaced
  <1> QED
    BY <1>1, <1>2, PTL DEF Spec

\* The cached rows of an API version are always one whole download, however
\* many reads replace them at a time (replaceCatalogue), and a search finds
\* nothing only when the copy expired between its check and its read.
THEOREM CatalogueStaysWhole == Spec => []CatalogueIsWhole
  <1>1. Init => Downloads
    BY InitDownloads
  <1>2. Placed /\ Downloads /\ [Next]_vars => Downloads'
    <2>1. ASSUME Downloads, UNCHANGED vars PROVE Downloads'
      BY <2>1 DEF vars, catalogueVars, Downloads, Reading
    <2> QED
      BY <2>1, StepDownloads
  <1>3. Downloads => CatalogueIsWhole
    BY DownloadsAreWhole
  <1> QED
    BY <1>1, <1>2, <1>3, StaysPlaced, PTL DEF Spec

-----------------------------------------------------------------------------
(* The names of codes.                                                      *)

Entries == {Entry(found, set) : found \in BOOLEAN, set \in Int}

Named ==
  /\ now \in Int /\ known \in BOOLEAN
  /\ memory \in [Processes -> Entries \cup {Null}]
  /\ pending \in [Processes -> Seq(Entries)]
  /\ store \in Entries \cup {Null}
  /\ unsaved \subseteq Processes \X Entries
  /\ \A c \in Calls :
       /\ call[c].pc = "primed" => call[c].answer \in Entries \cup {Null}
       /\ call[c].pc = "answered" => call[c].answer \in BOOLEAN
       /\ call[c].pc = "save" => call[c].answer \in Seq(Entries) /\ call[c].answer # <<>>

LEMMA SavingIsSave ==
  ASSUME NEW c \in Calls, ReadStep(c), call[c].pc = "save"
  PROVE  Save(c)
  <1>1. ~CatalogueStep(c)
    BY DEF CatalogueStep, CheckFresh, ListCatalogue, HydrateCatalogue, ReadByIds, DeleteRows,
       InsertRows, SearchRows, ReadRoot, ChooseScope, At
  <1>2. ~(StartRead(c) \/ GetService(c) \/ AskList(c) \/ TakePage(c) \/ Complete(c))
    BY DEF StartRead, GetService, AskList, TakePage, Complete, At
  <1>3. ~(LoadRow(c) \/ Prime(c) \/ AskName(c) \/ RememberName(c) \/ BeginFlush(c))
    BY DEF LoadRow, Prime, AskName, RememberName, BeginFlush, At
  <1> QED
    BY <1>1, <1>2, <1>3 DEF ReadStep, CodeStep

\* A read that comes to save has something to save.
LEMMA FlushingIsBegin ==
  ASSUME Placed, NEW c \in Calls, ReadStep(c), call[c].pc = "flush", call'[c].pc = "save"
  PROVE  BeginFlush(c) /\ pending[call[c].process] # <<>>
  <1>1. ~CatalogueStep(c)
    BY DEF CatalogueStep, CheckFresh, ListCatalogue, HydrateCatalogue, ReadByIds, DeleteRows,
       InsertRows, SearchRows, ReadRoot, ChooseScope, At
  <1>2. ~(StartRead(c) \/ GetService(c) \/ AskList(c) \/ TakePage(c) \/ Complete(c))
    BY DEF StartRead, GetService, AskList, TakePage, Complete, At
  <1>3. ~(LoadRow(c) \/ Prime(c) \/ AskName(c) \/ RememberName(c) \/ Save(c))
    BY DEF LoadRow, Prime, AskName, RememberName, Save, At
  <1>4. BeginFlush(c)
    BY <1>1, <1>2, <1>3 DEF ReadStep, CodeStep
  <1>5. ASSUME Goto(c, "complete") PROVE FALSE
    BY <1>5 DEF Goto, Placed, Shaped, Rec
  <1> QED
    BY <1>4, <1>5 DEF BeginFlush

LEMMA StepNamed ==
  ASSUME Placed, Named, Next
  PROVE  Named'
  <1>1. now' \in Int /\ known' \in BOOLEAN
    <2>1. now' \in {now, now + 1} /\ known' \in {known, ~known}
      <3>1. CASE Outside
        BY <3>1, Zenon DEF Outside
      <3>2. ASSUME NEW c \in Calls, ReadStep(c)
            PROVE  now' \in {now, now + 1} /\ known' \in {known, ~known}
        <4>1. UNCHANGED now /\ UNCHANGED known
          BY <3>2, Footprint
        <4> QED
          BY <4>1, Zenon
      <3> QED
        BY <3>1, <3>2, NextIs
    <2>2. now' \in Int
      BY <2>1 DEF Named
    <2>3. known' \in BOOLEAN
      BY <2>1, Zenon DEF Named
    <2> QED
      BY <2>2, <2>3
  <1>2. /\ memory' \in [Processes -> Entries \cup {Null}]
        /\ pending' \in [Processes -> Seq(Entries)]
        /\ store' \in Entries \cup {Null}
        /\ unsaved' \subseteq Processes \X Entries
    <2>1. CASE UNCHANGED <<memory, pending, store, unsaved>>
      BY <2>1 DEF Named
    <2>2. ASSUME NEW c \in Calls, CodeStep(c)
          PROVE  /\ memory' \in [Processes -> Entries \cup {Null}]
                 /\ pending' \in [Processes -> Seq(Entries)]
                 /\ store' \in Entries \cup {Null}
                 /\ unsaved' \subseteq Processes \X Entries
      <3> DEFINE p == call[c].process
      <3>1. CASE LoadRow(c) \/ AskName(c)
        BY <3>1 DEF LoadRow, AskName, codeVars, Named
      <3>2. CASE Prime(c)
        BY <3>2 DEF Prime, At, Named
      <3>0. call[c].pc \notin Stopped
        BY <2>2 DEF CodeStep, LoadRow, Prime, AskName, RememberName, BeginFlush, Save, At, Stopped
      <3>3. CASE RememberName(c)
        <4>1. CASE UNCHANGED <<memory, pending, unsaved>>
          BY <3>3, <4>1 DEF RememberName, Named
        <4>2. CASE Set(p, call[c].answer)
          <5> DEFINE e == Entry(call[c].answer, now)
          <5>0. call[c].answer \in BOOLEAN /\ now \in Int
            BY <3>3 DEF RememberName, At, Named
          <5>1. e \in Entries
            BY <5>0 DEF Entries
          <5>2. /\ memory' = [memory EXCEPT ![p] = e] /\ UNCHANGED store
                /\ pending' = [pending EXCEPT ![p] = Append(@, e)]
                /\ unsaved' = unsaved \cup {<<p, e>>}
            BY <3>3, <4>2 DEF Set, RememberName
          <5> HIDE DEF e
          <5> QED
            <6>1. p \in Processes
              BY <3>0 DEF Placed
            <6> HIDE DEF p
            <6>2. pending[p] \in Seq(Entries)
              BY <6>1 DEF Named
            <6>3. Append(pending[p], e) \in Seq(Entries)
              BY <5>1, <6>2
            <6>4. pending' \in [Processes -> Seq(Entries)]
              BY <5>2, <6>3 DEF Named
            <6> QED
              BY <5>1, <5>2, <6>1, <6>4 DEF Named
        <4> QED
          BY <3>3, <4>1, <4>2 DEF RememberName
      <3>4. CASE BeginFlush(c)
        <4>1. /\ UNCHANGED <<memory, store, unsaved>>
              /\ UNCHANGED pending \/ pending' = [pending EXCEPT ![p] = <<>>]
          BY <3>4 DEF BeginFlush
        <4>2. <<>> \in Seq(Entries)
          OBVIOUS
        <4> HIDE DEF p
        <4> QED
          BY <4>1, <4>2 DEF Named
      <3>5. CASE Save(c)
        <4>1. Last(call[c].answer) \in Entries
          BY <3>5 DEF Save, At, Named, Last
        <4> QED
          BY <3>5, <4>1 DEF Save, Named
      <3> QED
        BY <2>2, <3>1, <3>2, <3>3, <3>4, <3>5 DEF CodeStep
    <2> QED
      BY <2>1, <2>2, NextIs, Footprint DEF Outside
  <1>3. ASSUME NEW d \in Calls
        PROVE  /\ call'[d].pc = "primed" => call'[d].answer \in Entries \cup {Null}
               /\ call'[d].pc = "answered" => call'[d].answer \in BOOLEAN
               /\ call'[d].pc = "save" =>
                    call'[d].answer \in Seq(Entries) /\ call'[d].answer # <<>>
    <2> DEFINE q == call'[d]
    <2>1. CASE q = call[d]
      BY <2>1 DEF Named
    <2>2. CASE Over(d, q) \/ Begun(q)
      BY <2>2 DEF Over, Begun
    <2>3. CASE ReadStep(d) /\ Got(d, q)
      <3>1. q.pc = "save" => q.answer \in Seq(Entries) /\ q.answer # <<>>
        <4>1. ASSUME q.pc = "save" PROVE BeginFlush(d) /\ pending[call[d].process] # <<>>
          BY <2>3, <4>1, FlushingIsBegin DEF Got
        <4> QED
          BY <2>3, <4>1 DEF Got, Named, Placed
      <3> QED
        BY <2>3, <3>1 DEF Got, Named
    <2> QED
      BY <2>1, <2>2, <2>3, RecordsChange
  <1> QED
    BY <1>1, <1>2, <1>3 DEF Named

LEMMA AppendedSet ==
  ASSUME NEW S, NEW s \in Seq(S), NEW x \in S
  PROVE  x \in ToSet(Append(s, x)) /\ ToSet(s) \subseteq ToSet(Append(s, x))
  <1>1. /\ Len(s) + 1 \in DOMAIN Append(s, x) /\ Append(s, x)[Len(s) + 1] = x
        /\ \A i \in DOMAIN s : i \in DOMAIN Append(s, x) /\ Append(s, x)[i] = s[i]
    OBVIOUS
  <1> QED
    BY <1>1 DEF ToSet

\* What is set and not saved is pending, or with a read that saves it.
LEMMA StepLosesNothing ==
  ASSUME Placed, Named, NothingSetIsLost, Next
  PROVE  NothingSetIsLost'
  <1> DEFINE Kept(e) == \/ e[2] \in ToSet(pending[e[1]])
                        \/ \E c \in Calls : /\ At(c, "save") /\ call[c].process = e[1]
                                            /\ e[2] \in ToSet(call[c].answer)
  <1> USE DEF At
  <1>1. CASE Outside
    <2>1. ASSUME NEW c \in Calls, call[c].pc = "save" PROVE call'[c] = call[c]
      BY <1>1, <2>1 DEF Outside
    <2> QED
      BY <1>1, <2>1 DEF Outside, NothingSetIsLost
  <1>2. ASSUME NEW c \in Calls, ReadStep(c) PROVE NothingSetIsLost'
    <2> DEFINE r == call[c]
               p == r.process
    <2>0. \A d \in Calls : d # c => call'[d] = call[d]
      BY <1>2, StepChanges DEF Changes
    <2>1. ASSUME r.pc # "save", UNCHANGED <<pending, unsaved>>
          PROVE  NothingSetIsLost'
      <3>1. ASSUME NEW d \in Calls, call[d].pc = "save" PROVE call'[d] = call[d]
        BY <2>0, <2>1, <3>1
      <3> QED
        BY <2>1, <3>1 DEF NothingSetIsLost
    <2>2. CASE ~CodeStep(c)
      <3>1. r.pc # "save" /\ UNCHANGED <<pending, unsaved>>
        BY <1>2, <2>2, SavingIsSave, Footprint DEF CodeStep
      <3> QED
        BY <2>1, <3>1
    <2>3. CASE LoadRow(c) \/ Prime(c) \/ AskName(c)
      <3>1. r.pc # "save" /\ UNCHANGED <<pending, unsaved>>
        BY <2>3 DEF LoadRow, Prime, AskName, codeVars
      <3> QED
        BY <2>1, <3>1
    <2>4. CASE RememberName(c)
      <3>1. r.pc = "answered" /\ p \in Processes
        BY <2>4 DEF RememberName, Placed, Stopped
      <3>2. CASE UNCHANGED <<pending, unsaved>>
        BY <2>1, <3>1, <3>2
      <3>3. CASE Set(p, r.answer)
        <4> DEFINE x == Entry(r.answer, now)
        <4>1. /\ pending' = [pending EXCEPT ![p] = Append(@, x)]
              /\ unsaved' = unsaved \cup {<<p, x>>}
          BY <3>3 DEF Set
        <4>2. x \in Entries
          <5>1. r.answer \in BOOLEAN /\ now \in Int
            BY <2>4 DEF RememberName, At, Named
          <5> HIDE DEF r
          <5> QED
            BY <5>1 DEF Entries
        <4> HIDE DEF x
        <4>3. pending'[p] = Append(pending[p], x) /\ pending[p] \in Seq(Entries)
          BY <3>1, <4>1 DEF Named
        <4>4. x \in ToSet(pending'[p]) /\ ToSet(pending[p]) \subseteq ToSet(pending'[p])
          BY <4>2, <4>3, AppendedSet
        <4>5. \A o : o # p => pending'[o] = pending[o]
          BY <4>1 DEF Named
        <4>6. \A d \in Calls : call[d].pc = "save" => call'[d] = call[d]
          BY <2>0, <3>1
        <4> QED
          BY <4>1, <4>4, <4>5, <4>6 DEF NothingSetIsLost
      <3> QED
        BY <2>4, <3>2, <3>3 DEF RememberName
    <2>5. CASE BeginFlush(c)
      <3>1. r.pc = "flush" /\ p \in Processes
        BY <2>5 DEF BeginFlush, Placed, Stopped
      <3>2. CASE pending[p] = <<>>
        BY <2>1, <2>5, <3>1, <3>2 DEF BeginFlush
      <3>3. CASE pending[p] # <<>>
        <4>1. /\ call' = [call EXCEPT ![c].pc = "save", ![c].answer = pending[p]]
              /\ pending' = [pending EXCEPT ![p] = <<>>] /\ UNCHANGED unsaved
          BY <2>5, <3>3 DEF BeginFlush
        <4>2. call'[c].pc = "save" /\ call'[c].answer = pending[p] /\ call'[c].process = p
          BY <4>1 DEF Placed, Shaped, Rec
        <4>3. \A o : o # p => pending'[o] = pending[o]
          BY <4>1 DEF Named
        <4>4. \A d \in Calls : call[d].pc = "save" => call'[d] = call[d]
          BY <2>0, <3>1
        <4>5. ASSUME NEW e \in unsaved'
              PROVE  \/ e[2] \in ToSet(pending'[e[1]])
                     \/ \E d \in Calls : /\ call'[d].pc = "save" /\ call'[d].process = e[1]
                                         /\ e[2] \in ToSet(call'[d].answer)
          <5>1. e \in unsaved
            BY <4>1, <4>5
          <5>2. CASE e[2] \in ToSet(pending[e[1]])
            BY <4>2, <4>3, <5>2
          <5>3. CASE \E d \in Calls : /\ call[d].pc = "save" /\ call[d].process = e[1]
                                      /\ e[2] \in ToSet(call[d].answer)
            BY <4>4, <5>3
          <5> QED
            BY <5>1, <5>2, <5>3 DEF NothingSetIsLost
        <4> QED
          BY <4>5 DEF NothingSetIsLost
      <3> QED
        BY <3>2, <3>3
    <2>6. CASE Save(c)
      <3>1. /\ unsaved' = unsaved \ {<<p, r.answer[i]>> : i \in DOMAIN r.answer}
            /\ UNCHANGED pending
        BY <2>6 DEF Save
      <3>2. ASSUME NEW e \in unsaved' 
            PROVE  \/ e[2] \in ToSet(pending'[e[1]])
                   \/ \E d \in Calls : /\ call'[d].pc = "save" /\ call'[d].process = e[1]
                                       /\ e[2] \in ToSet(call'[d].answer)
        <4>1. e \in unsaved /\ \A i \in DOMAIN r.answer : e # <<p, r.answer[i]>>
          BY <3>1, <3>2
        <4>2. e = <<e[1], e[2]>>
          BY <4>1 DEF Named
        <4>3. ~(p = e[1] /\ e[2] \in ToSet(r.answer))
          BY <4>1, <4>2 DEF ToSet
        <4> QED
          BY <2>0, <3>1, <4>1, <4>3 DEF NothingSetIsLost
      <3> QED
        BY <3>2 DEF NothingSetIsLost
    <2> QED
      BY <2>2, <2>3, <2>4, <2>5, <2>6 DEF CodeStep
  <1> QED
    BY <1>1, <1>2, NextIs

LEMMA NamesDoGrowOld ==
  ASSUME Named
  PROVE  NamesGrowOld
  <1>1. ASSUME NEW p \in Processes, Remembers(p)
        PROVE  now < memory[p].setAt + (IF memory[p].found THEN NameTtl ELSE MissingTtl)
    <2>1. PICK found \in BOOLEAN, set \in Int : memory[p] = Entry(found, set)
      BY <1>1 DEF Named, Entries, Remembers
    <2>2. /\ memory[p].expiresAt = memory[p].setAt + (IF memory[p].found THEN NameTtl ELSE MissingTtl)
          /\ memory[p].expiresAt > now
      BY <1>1, <2>1 DEF Entry, Remembers
    <2>3. memory[p].expiresAt \in Int
      BY <2>1, CodeNamesAssumption DEF Entry
    <2> QED
      BY <2>2, <2>3 DEF Named
  <1> QED
    BY <1>1 DEF NamesGrowOld

\* A name is remembered for its time at most from when PTV gave it, through
\* any number of reads, processes and copies through the table
\* (codeNameCache.ts), and no flush loses what was set while it saved.
THEOREM NamesStayKept == Spec => []NamesAreKept
  <1>1. Init => Named /\ NothingSetIsLost
    <2> SUFFICES ASSUME Init PROVE Named /\ NothingSetIsLost
      OBVIOUS
    <2>1. /\ memory = [p \in Processes |-> Null] /\ pending = [p \in Processes |-> <<>>]
          /\ store \in {Null, Entry(TRUE, -1)} /\ unsaved = {}
      BY Zenon DEF Init, CodeInit
    <2>2. now \in Int
      BY DEF Init, CatalogueInit
    <2>3. known \in BOOLEAN
      BY Zenon DEF Init, CodeInit
    <2>4. Entry(TRUE, -1) \in Entries
      <3> DEFINE k == -1
                 t == TRUE
      <3>1. t \in BOOLEAN /\ k \in Int
        OBVIOUS
      <3> HIDE DEF k, t
      <3>2. Entry(t, k) \in Entries
        BY <3>1 DEF Entries
      <3> QED
        BY <3>2 DEF k, t
    <2>5. store \in Entries \cup {Null}
      BY <2>1, <2>4
    <2>6. /\ memory \in [Processes -> Entries \cup {Null}] /\ pending \in [Processes -> Seq(Entries)]
      BY <2>1
    <2> QED
      BY <2>1, <2>2, <2>3, <2>5, <2>6, InitShaped DEF Named, NothingSetIsLost
  <1>2. Placed /\ Named /\ NothingSetIsLost /\ [Next]_vars => (Named /\ NothingSetIsLost)'
    <2>1. ASSUME Named, NothingSetIsLost, UNCHANGED vars PROVE (Named /\ NothingSetIsLost)'
      BY <2>1 DEF vars, catalogueVars, codeVars, Named, NothingSetIsLost, At
    <2> QED
      BY <2>1, StepNamed, StepLosesNothing
  <1>3. Named /\ NothingSetIsLost => NamesAreKept
    BY NamesDoGrowOld DEF NamesAreKept
  <1> QED
    BY <1>1, <1>2, <1>3, StaysPlaced, PTL DEF Spec

-----------------------------------------------------------------------------
(* Failures.                                                                *)

\* A read that began when PTV had failed and changed for the last time.
Calm ==
  /\ events \in Int /\ events <= MaxEvents
  /\ \A c \in Calls : call[c].calm => events = MaxEvents /\ call[c].pc # "failed"

LEMMA StepCalm ==
  ASSUME Placed, Calm, Next
  PROVE  Calm'
  <1>1. Events /\ MaxEvents \in Int
    BY NextIs, Footprint, CatalogueAssumption DEF Outside
  <1>2. events' \in Int /\ events' <= MaxEvents /\ (events = MaxEvents => events' = MaxEvents)
    BY <1>1 DEF Calm, Events
  <1>3. ASSUME NEW d \in Calls, call'[d].calm
        PROVE  events' = MaxEvents /\ call'[d].pc # "failed"
    <2>1. CASE call'[d] = call[d]
      BY <1>2, <1>3, <2>1 DEF Calm
    <2>2. CASE Begun(call'[d])
      <3>1. events = MaxEvents
        BY <1>3, <2>2, Zenon DEF Begun
      <3> QED
        BY <1>2, <2>2, <3>1 DEF Begun
    <2>3. CASE Got(d, call'[d])
      <3>1. call[d].calm /\ call'[d].pc # "failed"
        BY <1>3, <2>3 DEF Got, Stopped
      <3> QED
        BY <1>2, <3>1 DEF Calm
    <2>4. CASE Over(d, call'[d])
      <3>1. events = MaxEvents
        BY <1>3, <2>4 DEF Over, Calm
      <3> QED
        BY <1>1, <1>2, <2>4, <3>1 DEF Over
    <2> QED
      BY <2>1, <2>2, <2>3, <2>4, RecordsChange
  <1> QED
    BY <1>2, <1>3 DEF Calm

\* A read that begins after the last of PTV's errors never fails, whatever
\* downloads failed before it or failed the reads that shared them.
THEOREM FailuresStayForgotten == Spec => []FailuresAreForgotten
  <1>1. Init => Calm
    <2> SUFFICES ASSUME Init PROVE Calm
      OBVIOUS
    <2>1. events \in Int /\ events <= MaxEvents
      BY CatalogueAssumption DEF Init, CatalogueInit
    <2>2. \A c \in Calls : ~call[c].calm
      BY InitShaped, Zenon
    <2> QED
      BY <2>1, <2>2, Zenon DEF Calm
  <1>2. Placed /\ Calm /\ [Next]_vars => Calm'
    <2>1. ASSUME Calm, UNCHANGED vars PROVE Calm'
      BY <2>1 DEF vars, catalogueVars, Calm
    <2> QED
      BY <2>1, StepCalm
  <1>3. Calm => FailuresAreForgotten
    BY Zenon DEF Calm, FailuresAreForgotten
  <1> QED
    BY <1>1, <1>2, <1>3, StaysPlaced, PTL DEF Spec

-----------------------------------------------------------------------------
(* Induction, as the library's least-element principle for sets gives it.   *)

Less == {p \in Nat \X Nat : p[1] < p[2]}

LEMMA LessWellFounded == IsWellFoundedOn(Less, Nat)
<1>1. OpToRel(<, Nat) = Less
  BY DEF OpToRel, Less
<1> QED
  BY <1>1, NatLessThanWellFounded

\* A set of numbers that has 0, and with each number up to m the next, has all
\* of them up to m.
LEMMA Induction ==
  ASSUME NEW m \in Nat, NEW S, 0 \in S,
         \A n \in Nat : n < m /\ n \in S => n + 1 \in S
  PROVE  0..m \subseteq S
<1> SUFFICES ASSUME 0..m \ S # {} PROVE FALSE
  OBVIOUS
<1> DEFINE T == 0..m \ S
<1>1. PICK n \in T : \A k \in T : <<k, n>> \notin Less
  <2>1. T \subseteq Nat /\ T # {}
    OBVIOUS
  <2> HIDE DEF T
  <2> QED
    BY WFMin, LessWellFounded, <2>1
<1>2. n \in Nat /\ n # 0 /\ n <= m
  BY <1>1
<1>3. n - 1 \in S
  <2>1. n - 1 \in 0..m /\ <<n - 1, n>> \in Less
    BY <1>2 DEF Less
  <2> QED
    BY <1>1, <2>1
<1>4. (n - 1) + 1 \in S
  BY <1>2, <1>3
<1> QED
  BY <1>1, <1>2, <1>4

\* A function that is given at 0 and, at i, by what it is at i - 1, exists.
Steps(V, m) == [1..m -> [V -> V]]
Follows(g, v, m, D) == g[0] = v /\ \A i \in 1..m : g[i] = D[i][g[i - 1]]

LEMMA RecursionExists ==
  ASSUME NEW V, NEW v \in V, NEW m \in Nat, NEW D \in Steps(V, m)
  PROVE  \E g \in [0..m -> V] : Follows(g, v, m, D)
<1> USE DEF Steps
<1> DEFINE Good(n, g) == g = [i \in 0..n |-> IF i = 0 THEN v ELSE D[i][g[i - 1]]]
           S == {n \in 0..m : \E g \in [0..n -> V] : Good(n, g)}
<1>1. 0 \in S
  <2>1. [i \in 0..0 |-> v] \in [0..0 -> V] /\ Good(0, [i \in 0..0 |-> v])
    OBVIOUS
  <2> HIDE DEF Good
  <2> QED
    BY <2>1
<1>2. ASSUME NEW n \in Nat, n < m, n \in S PROVE n + 1 \in S
  <2>1. PICK g \in [0..n -> V] : Good(n, g)
    BY <1>2
  <2> DEFINE h == [i \in 0..n + 1 |-> IF i = n + 1 THEN D[n + 1][g[n]] ELSE g[i]]
  <2>2. D[n + 1] \in [V -> V] /\ g[n] \in V
    BY <1>2
  <2>3. h \in [0..n + 1 -> V]
    BY <2>2
  <2>4. Good(n + 1, h)
    <3>1. ASSUME NEW i \in 0..n + 1 PROVE h[i] = IF i = 0 THEN v ELSE D[i][h[i - 1]]
      <4>1. CASE i = n + 1
        BY <4>1
      <4>2. CASE i # n + 1
        <5>1. i \in 0..n /\ h[i] = g[i]
          BY <4>2
        <5>2. i # 0 => h[i - 1] = g[i - 1]
          BY <5>1
        <5>3. g[i] = IF i = 0 THEN v ELSE D[i][g[i - 1]]
          BY <2>1, <5>1
        <5> QED
          BY <5>1, <5>2, <5>3
      <4> QED
        BY <4>1, <4>2
    <3> QED
      BY <3>1
  <2> HIDE DEF Good, h
  <2> QED
    BY <2>3, <2>4, <1>2
<1>3. m \in S
  <2> HIDE DEF S
  <2>1. \A n \in Nat : n < m /\ n \in S => n + 1 \in S
    BY <1>2
  <2>2. 0..m \subseteq S
    BY <1>1, <2>1, Induction
  <2> QED
    BY <2>2
<1> QED
  BY <1>3 DEF Follows

-----------------------------------------------------------------------------
(* The lists a report is put together from.                                 *)

\* A finite set as a list has each element once.
LEMMA SetAsList ==
  ASSUME NEW S, IsFiniteSet(S)
  PROVE  SetToSeq(S) \in Seq(S) /\ IsInjective(SetToSeq(S))
<1> DEFINE n == Cardinality(S)
<1>1. n \in Nat /\ ExistsBijection(1..n, S)
  BY FS_CardinalityType
<1>2. \E f \in [1..n -> S] : IsInjective(f)
  BY <1>1 DEF ExistsBijection, Bijection, Injection
<1>3. SetToSeq(S) \in [1..n -> S] /\ IsInjective(SetToSeq(S))
  BY <1>2 DEF SetToSeq
<1> QED
  BY <1>1, <1>3

\* What is left of a list with some of it behind.
LEMMA LeftOf ==
  ASSUME NEW m, NEW n, m \in Nat, n \in 1..m
  PROVE  /\ m - n \in Nat /\ m - n < m /\ m - n \in 0..m /\ n \in Nat /\ n >= 1
         /\ ~(n > 1) => (m - n) + 1 = m
  OBVIOUS

LEMMA EmptyList == \A V : <<>> \in Seq(V)
  OBVIOUS

LEMMA EmptyOnce == IsInjective(<<>>)
<1>1. DOMAIN <<>> = {}
  OBVIOUS
<1> QED
  BY <1>1 DEF IsInjective

\* Two lists without an entry in common, one after the other.
LEMMA JoinedOnce ==
  ASSUME NEW V, NEW s \in Seq(V), NEW t \in Seq(V), IsInjective(s), IsInjective(t),
         \A i \in 1..Len(s), j \in 1..Len(t) : s[i] # t[j]
  PROVE  /\ s \o t \in Seq(V) /\ IsInjective(s \o t)
         /\ Len(s \o t) = Len(s) + Len(t)
         /\ \A i \in 1..Len(s) : (s \o t)[i] = s[i]
         /\ \A j \in 1..Len(t) : (s \o t)[Len(s) + j] = t[j]
<1> DEFINE u == s \o t
           m == Len(s)
           n == Len(t)
<1>1. /\ u \in Seq(V) /\ Len(u) = m + n /\ m \in Nat /\ n \in Nat
      /\ DOMAIN s = 1..m /\ DOMAIN t = 1..n /\ DOMAIN u = 1..m + n
      /\ \A i \in 1..m : u[i] = s[i]
      /\ \A j \in 1..n : u[m + j] = t[j]
  OBVIOUS
<1> HIDE DEF u, m, n
<1>2. ASSUME NEW a \in DOMAIN u, NEW b \in DOMAIN u, u[a] = u[b], a <= m PROVE a = b
  <2>1. a \in 1..m /\ u[a] = s[a]
    BY <1>1, <1>2
  <2>2. CASE b <= m
    <3>1. b \in 1..m /\ u[b] = s[b]
      BY <1>1, <2>2
    <3> QED
      BY <1>1, <1>2, <2>1, <3>1 DEF IsInjective
  <2>3. CASE b > m
    <3>1. b - m \in 1..n /\ m + (b - m) = b
      BY <1>1, <2>3
    <3>2. u[b] = t[b - m]
      BY <1>1, <3>1
    <3> QED
      BY <1>2, <2>1, <3>1, <3>2 DEF m, n
  <2> QED
    BY <1>1, <2>2, <2>3
<1>3. ASSUME NEW a \in DOMAIN u, NEW b \in DOMAIN u, u[a] = u[b], a > m, b > m PROVE a = b
  <2>1. /\ a - m \in 1..n /\ m + (a - m) = a
        /\ b - m \in 1..n /\ m + (b - m) = b
    BY <1>1, <1>3
  <2>2. t[a - m] = t[b - m]
    <3>1. u[a] = t[a - m] /\ u[b] = t[b - m]
      BY <1>1, <2>1
    <3> QED
      BY <1>3, <3>1
  <2>3. a - m = b - m
    BY <1>1, <2>1, <2>2 DEF IsInjective
  <2> QED
    BY <1>1, <2>1, <2>3
<1>4. IsInjective(u)
  <2>1. \A a \in DOMAIN u, b \in DOMAIN u : u[a] = u[b] => a = b
    BY <1>1, <1>2, <1>3
  <2> QED
    BY <2>1 DEF IsInjective
<1> QED
  BY <1>1, <1>4 DEF u, m, n

LEMMA ServicesJoined ==
  \A s, t \in Seq(Services) :
    /\ IsInjective(s) /\ IsInjective(t)
    /\ \A i \in 1..Len(s), j \in 1..Len(t) : s[i] # t[j]
    => /\ s \o t \in Seq(Services) /\ IsInjective(s \o t)
       /\ Len(s \o t) = Len(s) + Len(t)
       /\ \A i \in 1..Len(s) : (s \o t)[i] = s[i]
       /\ \A j \in 1..Len(t) : (s \o t)[Len(s) + j] = t[j]
<1> SUFFICES ASSUME NEW s \in Seq(Services), NEW t \in Seq(Services), IsInjective(s), IsInjective(t),
                    \A i \in 1..Len(s), j \in 1..Len(t) : s[i] # t[j]
             PROVE  /\ s \o t \in Seq(Services) /\ IsInjective(s \o t)
                    /\ Len(s \o t) = Len(s) + Len(t)
                    /\ \A i \in 1..Len(s) : (s \o t)[i] = s[i]
                    /\ \A j \in 1..Len(t) : (s \o t)[Len(s) + j] = t[j]
  OBVIOUS
<1> QED
  BY JoinedOnce

\* A filtered list has entries of the list, each once if the list has.
LEMMA FilterKeeps ==
  ASSUME NEW V, NEW s \in Seq(V), IsInjective(s), NEW T
  PROVE  Filter(s, T) \in Seq(V) /\ IsInjective(Filter(s, T))
<1> DEFINE W == Seq(V)
           m == Len(s)
           D == [n \in 1..m |-> [q \in W |-> IF s[n] \in T THEN Append(q, s[n]) ELSE q]]
           Body(g) == [n \in 0..m |->
                         IF n = 0 THEN <<>>
                         ELSE IF s[n] \in T THEN Append(g[n - 1], s[n]) ELSE g[n - 1]]
           upTo == CHOOSE g : g = Body(g)
<1>0. m \in Nat /\ DOMAIN s = 1..m /\ \A n \in 1..m : s[n] \in V
  OBVIOUS
<1>1. \E g : g = Body(g)
  <2> DEFINE E == <<>>
  <2>1. m \in Nat /\ E \in W /\ D \in Steps(W, m)
    BY DEF Steps
  <2>2. PICK g \in [0..m -> W] : Follows(g, E, m, D)
    <3> HIDE DEF W, m, E, D, upTo
    <3> QED
      BY <2>1, RecursionExists
  <2>3. ASSUME NEW n \in 0..m, n # 0
        PROVE  g[n] = IF s[n] \in T THEN Append(g[n - 1], s[n]) ELSE g[n - 1]
    <3>1. n \in 1..m /\ n - 1 \in 0..m
      BY <1>0, <2>3
    <3>2. g[n] = D[n][g[n - 1]] /\ g[n - 1] \in W
      <4> HIDE DEF D, W, m
      <4> QED
        BY <2>2, <2>3, <3>1 DEF Follows
    <3>3. D[n] = [q \in W |-> IF s[n] \in T THEN Append(q, s[n]) ELSE q]
      BY <3>1
    <3> HIDE DEF D, W
    <3> QED
      BY <3>2, <3>3
  <2>4. g[0] = <<>>
    BY <2>2 DEF Follows
  <2> HIDE DEF D, W, m
  <2>5. g = Body(g)
    BY <2>2, <2>3, <2>4
  <2> QED
    BY <2>5
<1>2. upTo = Body(upTo)
  <2> HIDE DEF Body
  <2> QED
    BY <1>1
<1>3. Filter(s, T) = upTo[m]
  BY DEF Filter
<1> HIDE DEF upTo, m, D, W
<1>4. /\ upTo[0] = <<>>
      /\ \A n \in 1..m : upTo[n] = IF s[n] \in T THEN Append(upTo[n - 1], s[n]) ELSE upTo[n - 1]
  <2>1. ASSUME NEW n \in 0..m
        PROVE  upTo[n] = IF n = 0 THEN <<>>
                         ELSE IF s[n] \in T THEN Append(upTo[n - 1], s[n]) ELSE upTo[n - 1]
    BY <1>2
  <2>2. 0 \in 0..m /\ \A n \in 1..m : n \in 0..m /\ n # 0
    BY <1>0
  <2> QED
    BY <2>1, <2>2
<1> HIDE DEF Body
<1> DEFINE Good(n) == /\ upTo[n] \in Seq(V) /\ IsInjective(upTo[n])
                      /\ \A k \in 1..Len(upTo[n]) : \E i \in 1..n : upTo[n][k] = s[i]
           S == {n \in 0..m : Good(n)}
<1>5. 0 \in S
  <2>1. <<>> \in Seq(V) /\ IsInjective(<<>>) /\ Len(<<>>) = 0
    BY EmptyOnce
  <2>2. upTo[0] = <<>> /\ 0 \in 0..m
    BY <1>0, <1>4
  <2>3. Good(0)
    BY <2>1, <2>2
  <2> HIDE DEF Good
  <2> QED
    BY <2>2, <2>3
<1>6. ASSUME NEW n \in Nat, n < m, n \in S PROVE n + 1 \in S
  <2> DEFINE q == upTo[n]
             x == s[n + 1]
  <2>1. n + 1 \in 0..m /\ n + 1 \in 1..m /\ (n + 1) - 1 = n
    BY <1>0, <1>6
  <2>2. upTo[n + 1] = IF x \in T THEN Append(q, x) ELSE q
    BY <1>4, <2>1
  <2>3. /\ q \in Seq(V) /\ IsInjective(q) /\ x \in V
        /\ \A k \in 1..Len(q) : \E i \in 1..n : q[k] = s[i]
    BY <1>0, <1>6, <2>1
  <2>4. \A i \in 1..n : i \in 1..n + 1 /\ s[i] # x
    <3>1. \A i \in 1..n : i \in DOMAIN s /\ n + 1 \in DOMAIN s /\ i # n + 1
      BY <1>0, <1>6, <2>1
    <3> QED
      BY <1>6, <3>1 DEF IsInjective
  <2> HIDE DEF q, x, S, Good
  <2>5. Append(q, x) = q \o <<x>> /\ <<x>> \in Seq(V) /\ IsInjective(<<x>>) /\ Len(<<x>>) = 1 /\ <<x>>[1] = x
    BY <2>3 DEF IsInjective
  <2>6. /\ Append(q, x) \in Seq(V) /\ Len(Append(q, x)) = Len(q) + 1
        /\ \A k \in 1..Len(q) : Append(q, x)[k] = q[k]
        /\ Append(q, x)[Len(q) + 1] = x /\ Len(q) \in Nat
    BY <2>3
  <2>7. IsInjective(Append(q, x))
    <3> DEFINE t == <<x>>
    <3>1. t \in Seq(V) /\ IsInjective(t) /\ Len(t) = 1 /\ t[1] = x /\ Append(q, x) = q \o t
      BY <2>5
    <3> HIDE DEF t
    <3>2. \A k \in 1..Len(q), j \in 1..Len(t) : q[k] # t[j]
      BY <2>3, <2>4, <3>1
    <3>3. IsInjective(q \o t)
      BY <2>3, <3>1, <3>2, JoinedOnce
    <3> QED
      BY <3>1, <3>3
  <2>8. \A k \in 1..Len(Append(q, x)) : \E i \in 1..n + 1 : Append(q, x)[k] = s[i]
    <3>1. ASSUME NEW k \in 1..Len(q) PROVE \E i \in 1..n + 1 : Append(q, x)[k] = s[i]
      BY <2>3, <2>4, <2>6
    <3>2. n + 1 \in 1..n + 1 /\ Append(q, x)[Len(q) + 1] = s[n + 1]
      BY <1>6, <2>6 DEF x
    <3>3. \A k \in 1..Len(q) + 1 : k \in 1..Len(q) \/ k = Len(q) + 1
      BY <2>6
    <3> QED
      BY <2>6, <3>1, <3>2, <3>3
  <2>9. Good(n + 1)
    <3>1. CASE x \in T
      BY <2>2, <2>6, <2>7, <2>8, <3>1 DEF Good
    <3>2. CASE x \notin T
      BY <2>2, <2>3, <2>4, <3>2 DEF Good
    <3> QED
      BY <3>1, <3>2
  <2> QED
    BY <2>1, <2>9 DEF S
<1>7. m \in S
  <2>1. \A n \in Nat : n < m /\ n \in S => n + 1 \in S
    BY <1>6
  <2> HIDE DEF S
  <2>2. 0..m \subseteq S
    BY <1>0, <1>5, <2>1, Induction
  <2> QED
    BY <1>0, <2>2
<1> QED
  BY <1>3, <1>7

\* The organisations of a report are known ones, each once.
LEMMA InScopeOnce ==
  ASSUME NEW catalogue \in SUBSET Orgs
  PROVE  /\ InScope(catalogue) \in Seq(Orgs) /\ IsInjective(InScope(catalogue))
         /\ InScope(catalogue) # <<>>
<1> DEFINE m == Cardinality(catalogue) + 1
           W == {s \in Seq(Orgs) : IsInjective(s) /\ Len(s) > 0}
           Next1(s, n) == IF n > Len(s) THEN s ELSE s \o Below(catalogue, s, n)
           D == [n \in 1..m |-> [s \in W |-> Next1(s, n)]]
           Body(g) == [n \in 0..m |->
                         IF n = 0 THEN <<Root>>
                         ELSE LET soFar == g[n - 1] IN
                              IF n > Len(soFar) THEN soFar ELSE soFar \o Below(catalogue, soFar, n)]
           result == CHOOSE g : g = Body(g)
<1>0. m \in Nat /\ IsFiniteSet(catalogue) /\ Root \in Orgs
  <2>1. IsFiniteSet(Orgs) /\ Root \in Orgs
    BY CatalogueAssumption
  <2>2. IsFiniteSet(catalogue)
    BY <2>1, FS_Subset
  <2> QED
    BY <2>1, <2>2, FS_CardinalityType
<1>1. ASSUME NEW s \in W, NEW n \in 1..m PROVE Next1(s, n) \in W
  <2>1. CASE n > Len(s)
    BY <2>1
  <2>2. CASE ~(n > Len(s))
    <3> DEFINE S == {o \in catalogue : Parent[o] = s[n]} \ ToSet(s)
               t == Below(catalogue, s, n)
    <3>1. IsFiniteSet(S)
      <4>1. S \in SUBSET catalogue
        OBVIOUS
      <4> QED
        BY <1>0, <4>1, FS_Subset
    <3>2. t \in Seq(S) /\ IsInjective(t)
      BY <3>1, SetAsList DEF Below
    <3>3. \A j \in 1..Len(t) : t[j] \in S
      BY <3>2
    <3>4. \A i \in 1..Len(s), j \in 1..Len(t) : s[i] # t[j]
      BY <3>3 DEF ToSet
    <3>5. t \in Seq(Orgs)
      BY <3>2, <3>3
    <3> HIDE DEF t
    <3>6. s \o t \in Seq(Orgs) /\ IsInjective(s \o t) /\ Len(s \o t) = Len(s) + Len(t)
      BY <3>2, <3>4, <3>5, JoinedOnce
    <3>7. Len(s \o t) > 0
      BY <3>5, <3>6
    <3> QED
      BY <2>2, <3>6, <3>7 DEF t
  <2> QED
    BY <2>1, <2>2
<1>2. <<Root>> \in W
  BY <1>0 DEF IsInjective
<1>3. \E g : g = Body(g)
  <2> DEFINE E == <<Root>>
  <2> HIDE DEF W, m
  <2>1. D \in Steps(W, m)
    <3> HIDE DEF Next1
    <3> QED
      BY <1>1 DEF Steps
  <2>2. PICK g \in [0..m -> W] : Follows(g, E, m, D)
    <3> HIDE DEF E, D, result
    <3>1. E \in W
      BY <1>2 DEF E
    <3> QED
      BY <1>0, <2>1, <3>1, RecursionExists
  <2>3. ASSUME NEW n \in 0..m, n # 0 PROVE g[n] = Next1(g[n - 1], n)
    <3>1. n \in 1..m /\ n - 1 \in 0..m
      BY <1>0, <2>3
    <3> HIDE DEF Next1
    <3>2. D[n] = [s \in W |-> Next1(s, n)]
      BY <3>1
    <3> HIDE DEF D
    <3>3. g[n] = D[n][g[n - 1]] /\ g[n - 1] \in W
      BY <2>2, <2>3, <3>1 DEF Follows
    <3> QED
      BY <3>2, <3>3
  <2>4. g[0] = <<Root>>
    BY <2>2 DEF Follows
  <2>5. g = Body(g)
    BY <2>2, <2>3, <2>4
  <2> QED
    BY <2>5
<1>4. result = Body(result)
  <2> HIDE DEF Body
  <2> QED
    BY <1>3
<1>5. InScope(catalogue) = result[m]
  BY DEF InScope
<1> HIDE DEF result, m, D, W
<1>6. result[0] = <<Root>> /\ \A n \in 1..m : result[n] = Next1(result[n - 1], n)
  BY <1>0, <1>4
<1> HIDE DEF Body, Next1
<1> DEFINE S == {n \in 0..m : result[n] \in W}
<1>7. 0 \in S
  BY <1>0, <1>2, <1>6
<1>8. ASSUME NEW n \in Nat, n < m, n \in S PROVE n + 1 \in S
  <2>1. n + 1 \in 0..m /\ n + 1 \in 1..m /\ (n + 1) - 1 = n /\ result[n] \in W
    BY <1>0, <1>8
  <2>2. result[n + 1] = Next1(result[n], n + 1)
    BY <1>6, <2>1
  <2> QED
    BY <1>1, <2>1, <2>2
<1>9. m \in S
  <2>1. \A n \in Nat : n < m /\ n \in S => n + 1 \in S
    BY <1>8
  <2> HIDE DEF S
  <2>2. 0..m \subseteq S
    BY <1>0, <1>7, <2>1, Induction
  <2> QED
    BY <1>0, <2>2
<1>10. result[m] \in W
  BY <1>9
<1> QED
  BY <1>5, <1>10 DEF W

-----------------------------------------------------------------------------
(* The lists of the adapters, which are downloaded once.                    *)

Rows(o) == {s \in Services : Owner[s] = o}

Loaded ==
  /\ listed \subseteq Services
  /\ lists = [p \in Processes |-> [o \in Orgs |-> lists[p][o]]]
  /\ \A p \in Processes, o \in Orgs :
       /\ lists[p][o] \in [status : {"none", "loading", "hydrating", "done"}, rows : Seq(Rows(o))]
       /\ IsInjective(lists[p][o].rows)

\* A list that is done stays.
DoneStays ==
  \A p \in Processes, o \in Orgs :
    lists[p][o].status = "done" => lists'[p][o] = lists[p][o]

LEMMA OwnedOnce ==
  ASSUME listed \subseteq Services, NEW o \in Orgs
  PROVE  OwnedBy(o) \in Seq(Rows(o)) /\ IsInjective(OwnedBy(o))
  <1> DEFINE S == {s \in listed : Owner[s] = o}
  <1>1. IsFiniteSet(S)
    <2>1. S \in SUBSET Services /\ IsFiniteSet(Services)
      BY ReadsAssumption
    <2> QED
      BY <2>1, FS_Subset
  <1>2. OwnedBy(o) \in Seq(S) /\ IsInjective(OwnedBy(o))
    BY <1>1, SetAsList DEF OwnedBy
  <1>3. S \subseteq Rows(o)
    BY DEF Rows
  <1> QED
    BY <1>2, <1>3

\* What a step makes of one list.
LEMMA ListIs ==
  ASSUME Loaded, NEW p \in Processes, NEW o \in Orgs, lists[p][o].status # "done",
         NEW l, SetList(p, o, l), UNCHANGED listed,
         \/ l \in {NoList, [NoList EXCEPT !.status = "loading"]}
         \/ \E s \in {"hydrating", "done"} : l = [status |-> s, rows |-> OwnedBy(o)]
         \/ \E T : l = [lists[p][o] EXCEPT !.status = "done", !.rows = Filter(@, T)]
  PROVE  Loaded' /\ DoneStays
  <1> DEFINE L == [status : {"none", "loading", "hydrating", "done"}, rows : Seq(Rows(o))]
  <1>1. lists[p][o] \in L /\ IsInjective(lists[p][o].rows)
    BY DEF Loaded
  <1>2. l \in L /\ IsInjective(l.rows)
    <2>1. CASE l \in {NoList, [NoList EXCEPT !.status = "loading"]}
      <3> DEFINE empty == <<>>
      <3>1. empty \in Seq(Rows(o)) /\ IsInjective(empty)
        BY EmptyOnce, EmptyList, Zenon
      <3>2. \E s \in {"none", "loading"} : l = [status |-> s, rows |-> empty]
        BY <2>1 DEF NoList
      <3> HIDE DEF empty
      <3>3. PICK s \in {"none", "loading"} : l = [status |-> s, rows |-> empty]
        BY <3>2
      <3>4. l \in L
        BY <3>1, <3>3
      <3>5. l.rows = empty
        BY <3>3
      <3> QED
        BY <3>1, <3>4, <3>5
    <2>2. ASSUME NEW s \in {"hydrating", "done"}, l = [status |-> s, rows |-> OwnedBy(o)]
          PROVE  l \in L /\ IsInjective(l.rows)
      BY <2>2, OwnedOnce DEF Loaded
    <2>3. ASSUME NEW T, l = [lists[p][o] EXCEPT !.status = "done", !.rows = Filter(@, T)]
          PROVE  l \in L /\ IsInjective(l.rows)
      <3> DEFINE f == Filter(lists[p][o].rows, T)
      <3>1. f \in Seq(Rows(o)) /\ IsInjective(f)
        BY <1>1, FilterKeeps
      <3>2. l = [lists[p][o] EXCEPT !.status = "done", !.rows = f]
        BY <2>3
      <3> HIDE DEF f
      <3> QED
        BY <1>1, <3>1, <3>2
    <2> QED
      BY <2>1, <2>2, <2>3
  <1>3. lists' = [lists EXCEPT ![p][o] = l]
    BY DEF SetList
  <1>4. /\ lists' = [q \in Processes |-> [u \in Orgs |-> lists'[q][u]]]
        /\ \A q \in Processes, u \in Orgs :
             lists'[q][u] = IF q = p /\ u = o THEN l ELSE lists[q][u]
    <2>1. lists = [q \in Processes |-> [u \in Orgs |-> lists[q][u]]]
      BY DEF Loaded
    <2>2. DOMAIN lists = Processes /\ \A q \in Processes : DOMAIN lists[q] = Orgs
      BY <2>1
    <2>3. lists' = [q \in Processes |-> IF q = p THEN [lists[p] EXCEPT ![o] = l] ELSE lists[q]]
      BY <1>3, <2>2
    <2>4. [lists[p] EXCEPT ![o] = l] = [u \in Orgs |-> IF u = o THEN l ELSE lists[p][u]]
      BY <2>2
    <2>5. \A q \in Processes, u \in Orgs :
            lists'[q][u] = IF q = p /\ u = o THEN l ELSE lists[q][u]
      BY <2>3, <2>4
    <2>6. \A q \in Processes : lists'[q] = [u \in Orgs |-> lists'[q][u]]
      <3>1. \A q \in Processes : lists[q] = [u \in Orgs |-> lists[q][u]]
        BY <2>1
      <3> QED
        BY <2>3, <2>4, <3>1
    <2> QED
      BY <2>3, <2>5, <2>6
  <1>5. listed' \subseteq Services
    BY DEF Loaded
  <1> HIDE DEF L
  <1>6. ASSUME NEW q \in Processes, NEW u \in Orgs
        PROVE  /\ lists'[q][u] \in [status : {"none", "loading", "hydrating", "done"}, rows : Seq(Rows(u))]
               /\ IsInjective(lists'[q][u].rows)
    <2>1. CASE q = p /\ u = o
      BY <1>2, <1>4, <2>1 DEF L
    <2>2. CASE ~(q = p /\ u = o)
      BY <1>4, <2>2 DEF Loaded
    <2> QED
      BY <2>1, <2>2
  <1>7. Rows(o)' = Rows(o) /\ \A u : Rows(u)' = Rows(u)
    BY DEF Rows
  <1>8. Loaded'
    BY <1>4, <1>5, <1>6 DEF Loaded, Rows
  <1>9. DoneStays
    BY <1>4 DEF DoneStays
  <1> QED
    BY <1>8, <1>9

LEMMA StepLoaded ==
  ASSUME Placed, Loaded, Next
  PROVE  Loaded' /\ DoneStays
  <1>1. CASE UNCHANGED lists /\ listed' \subseteq Services
    BY <1>1 DEF Loaded, DoneStays, Rows
  <1>2. ASSUME NEW p \in Processes, NEW o \in Orgs,
               LoadV11List(p, o) \/ LoadV12List(p, o)
        PROVE  Loaded' /\ DoneStays
    <2>1. /\ lists[p][o].status # "done" /\ UNCHANGED listed
          /\ \E s \in {"hydrating", "done"} : SetList(p, o, [status |-> s, rows |-> OwnedBy(o)])
      BY <1>2 DEF LoadV11List, LoadV12List
    <2> QED
      BY <2>1, ListIs
  <1>3. ASSUME NEW p \in Processes, NEW o \in Orgs, HydrateList(p, o)
        PROVE  Loaded' /\ DoneStays
    <2> DEFINE T == (Services \ Bare) \cup listed
    <2>1. /\ lists[p][o].status # "done" /\ UNCHANGED listed
          /\ SetList(p, o, [lists[p][o] EXCEPT !.status = "done", !.rows = Filter(@, T)])
      BY <1>3 DEF HydrateList
    <2> HIDE DEF T
    <2> QED
      BY <2>1, ListIs
  <1>4. ASSUME NEW p \in Processes, NEW o \in Orgs, ListFails(p, o)
        PROVE  Loaded' /\ DoneStays
    <2>1. /\ lists[p][o].status # "done" /\ UNCHANGED listed /\ SetList(p, o, NoList)
      BY <1>4 DEF ListFails
    <2> QED
      BY <2>1, ListIs
  <1>5. ASSUME NEW c \in Calls, AskList(c), lists' # lists
        PROVE  Loaded' /\ DoneStays
    <2> DEFINE p == call[c].process
               o == Head(call[c].todo)
    <2>1. /\ lists[p][o].status = "none" /\ UNCHANGED listed
          /\ SetList(p, o, [NoList EXCEPT !.status = "loading"])
      BY <1>5 DEF AskList, Of
    <2>2. p \in Processes
      BY <1>5 DEF AskList, At, Placed, Stopped
    <2>3. o \in Orgs
      <3>1. lists = [q \in Processes |-> [u \in Orgs |-> lists[q][u]]]
        BY DEF Loaded
      <3>2. lists' = [lists EXCEPT ![p][o] = [NoList EXCEPT !.status = "loading"]]
        BY <2>1 DEF SetList
      <3> HIDE DEF p, o
      <3> QED
        BY <1>5, <2>2, <3>1, <3>2
    <2> HIDE DEF p, o
    <2> QED
      BY <2>1, <2>2, <2>3, ListIs
  <1>6. ASSUME NEW c \in Calls, ReadStep(c) PROVE UNCHANGED listed /\ (UNCHANGED lists \/ AskList(c))
    BY <1>6 DEF ReadStep, StartRead, GetService, AskList, TakePage, Complete
  <1>7. CASE (Tick \/ CatalogueChanges) /\ UNCHANGED <<codeVars, listed, lists>>
    BY <1>1, <1>7 DEF Loaded
  <1>8. CASE VocabularyChanges /\ UNCHANGED <<listed, lists>>
    BY <1>1, <1>8 DEF Loaded
  <1>9. CASE ContentChanges
    <2>1. UNCHANGED lists /\ \E s \in Services : listed' \in {listed \ {s}, listed \cup {s}}
      BY <1>9 DEF ContentChanges
    <2> QED
      BY <1>1, <2>1 DEF Loaded
  <1>10. CASE \E c \in Calls : ReadStep(c)
    <2>1. PICK c \in Calls : ReadStep(c)
      BY <1>10
    <2> QED
      BY <1>1, <1>5, <1>6, <2>1 DEF Loaded
  <1> QED
    BY <1>2, <1>3, <1>4, <1>7, <1>8, <1>9, <1>10 DEF Next, ReadStep

-----------------------------------------------------------------------------
(* A report on its way through the organisations and their pages.           *)

Gathering == {"ask", "waiting", "load", "primed", "fetch", "answered", "flush", "save", "complete"}

\* What the lists of the first d organisations have is in the items.
Covers(items, scope, d, held) ==
  /\ items \in Seq(Services) /\ IsInjective(items)
  /\ \A k \in DOMAIN items : \E i \in 1..d : Owner[items[k]] = scope[i]
  /\ \A i \in 1..d :
       /\ held[scope[i]].status = "done"
       /\ Together(items, held[scope[i]].rows, scope[i])

\* The first pages of a list.
FirstPages(mine, rows, page) ==
  /\ page \in Nat \ {0} /\ mine \in Seq(Services)
  /\ Len(mine) = (page - 1) * PageSize /\ Len(mine) <= Len(rows)
  /\ \A k \in 1..Len(mine) : mine[k] = rows[k]

Gathers(r) ==
  /\ r.scope \in Seq(Orgs) /\ IsInjective(r.scope)
  /\ r.todo \in Seq(Orgs) /\ Len(r.todo) \in 1..Len(r.scope)
  /\ \A j \in 1..Len(r.todo) : r.todo[j] = r.scope[Len(r.scope) - Len(r.todo) + j]
  /\ Covers(r.items, r.scope, Len(r.scope) - Len(r.todo), lists[r.process])
  /\ LET list == lists[r.process][Head(r.todo)] IN
       /\ r.page # 1 \/ r.pc \notin {"ask", "waiting"} => list.status = "done"
       /\ FirstPages(r.mine, list.rows, r.page)

Reports ==
  \A c \in Calls : LET r == call[c] IN
    r.op = "content" =>
      /\ r.pc \in Gathering => Gathers(r)
      /\ r.pc = "done" =>
           /\ r.process \in Processes /\ r.scope \in Seq(Orgs)
           /\ Covers(r.items, r.scope, Len(r.scope), lists[r.process])

\* What holds of lists that are done goes on holding.
LEMMA CoversStays ==
  ASSUME DoneStays, NEW p \in Processes, NEW scope \in Seq(Orgs), NEW d \in 0..Len(scope),
         NEW items, Covers(items, scope, d, lists[p])
  PROVE  Covers(items, scope, d, lists'[p])
  <1>1. \A i \in 1..d : scope[i] \in Orgs
    OBVIOUS
  <1>2. \A i \in 1..d : lists'[p][scope[i]] = lists[p][scope[i]]
    BY <1>1 DEF DoneStays, Covers
  <1> QED
    BY <1>2 DEF Covers

LEMMA GathersStays ==
  ASSUME Loaded', DoneStays, NEW r, r.process \in Processes, Gathers(r)
  PROVE  Gathers(r)'
  <1> DEFINE p == r.process
             o == Head(r.todo)
             d == Len(r.scope) - Len(r.todo)
  <1>1. /\ r.scope \in Seq(Orgs) /\ o \in Orgs /\ d \in 0..Len(r.scope)
        /\ Covers(r.items, r.scope, d, lists[p])
    <2>1. /\ r.scope \in Seq(Orgs) /\ r.todo \in Seq(Orgs) /\ Len(r.todo) \in 1..Len(r.scope)
          /\ Covers(r.items, r.scope, d, lists[p])
      BY DEF Gathers
    <2>2. o \in Orgs /\ d \in 0..Len(r.scope)
      <3>1. Len(r.scope) \in Nat
        BY <2>1
      <3>2. d \in 0..Len(r.scope) /\ Len(r.todo) \in Nat /\ Len(r.todo) >= 1
        BY <2>1, <3>1, LeftOf
      <3>3. o \in Orgs
        BY <2>1, <3>2
      <3> QED
        BY <3>2, <3>3
    <2> QED
      BY <2>1, <2>2
  <1>2. Covers(r.items, r.scope, d, lists'[p])
    BY <1>1, CoversStays
  <1>3. \/ lists'[p][o] = lists[p][o]
        \/ r.page = 1 /\ r.pc \in {"ask", "waiting"} /\ lists'[p][o].rows \in Seq(Rows(o))
    BY <1>1 DEF Gathers, DoneStays, Loaded, Rows
  <1>4. /\ r.page # 1 \/ r.pc \notin {"ask", "waiting"} => lists'[p][o].status = "done"
        /\ FirstPages(r.mine, lists'[p][o].rows, r.page)
    <2>1. CASE lists'[p][o] = lists[p][o]
      BY <2>1 DEF Gathers
    <2>2. CASE r.page = 1 /\ r.pc \in {"ask", "waiting"} /\ lists'[p][o].rows \in Seq(Rows(o))
      <3>1. r.mine \in Seq(Services) /\ Len(r.mine) = 0
        <4>1. r.mine \in Seq(Services) /\ Len(r.mine) = (1 - 1) * PageSize /\ PageSize \in Nat
          BY <2>2, ReadsAssumption DEF Gathers, FirstPages
        <4> QED
          BY <4>1
      <3>2. (r.page - 1) * PageSize = 0
        BY <2>2, ReadsAssumption
      <3> HIDE DEF p, o
      <3> QED
        BY <2>2, <3>1, <3>2 DEF FirstPages
    <2> QED
      BY <1>3, <2>1, <2>2
  <1> QED
    BY <1>2, <1>4 DEF Gathers

\* A stretch of a list.
LEMMA CutIs ==
  ASSUME NEW V, NEW s \in Seq(V), NEW n \in Nat, NEW e \in 0..Len(s), n <= e
  PROVE  /\ SubSeq(s, n + 1, e) \in Seq(V) /\ Len(SubSeq(s, n + 1, e)) = e - n
         /\ \A k \in 1..e - n : SubSeq(s, n + 1, e)[k] = s[n + k]
  <1> DEFINE w == e - n
  <1>1. w \in Nat /\ e = n + w
    OBVIOUS
  <1>2. \A k \in 1..w : n + k \in 1..Len(s) /\ (n + 1) + k - 1 = n + k
    OBVIOUS
  <1>3. (1 + e) - (n + 1) = w
    OBVIOUS
  <1> HIDE DEF w
  <1>4. Len(SubSeq(s, n + 1, e)) = w
    BY <1>1, <1>3
  <1>5. \A k \in 1..w : SubSeq(s, n + 1, e)[k] = s[n + k]
    BY <1>1, <1>2
  <1>6. SubSeq(s, n + 1, e) \in Seq(V)
    BY <1>1, <1>2
  <1> QED
    BY <1>4, <1>5, <1>6 DEF w

\* One more page.
LEMMA PageAdds ==
  ASSUME NEW rows \in Seq(Services), NEW mine, NEW page, FirstPages(mine, rows, page)
  PROVE  LET cut == PageOf(rows, page)
             more == mine \o cut
         IN  /\ more \in Seq(Services) /\ Len(more) \in Nat /\ Len(more) <= Len(rows)
             /\ \A k \in 1..Len(more) : more[k] = rows[k]
             /\ LastPage(rows, Len(more), Len(cut)) => Len(more) = Len(rows) \/ Len(more) >= MaxItems
             /\ ~LastPage(rows, Len(more), Len(cut)) => FirstPages(more, rows, page + 1)
  <1> DEFINE L == Len(rows)
             n == Len(mine)
             B == page * PageSize
             e == IF B < L THEN B ELSE L
             cut == SubSeq(rows, n + 1, e)
             more == mine \o cut
  <1>1. PageSize \in Nat \ {0} /\ page \in Nat \ {0}
    BY ReadsAssumption DEF FirstPages
  <1>2. B \in Nat /\ (page - 1) * PageSize = B - PageSize /\ ((page + 1) - 1) * PageSize = B
    BY <1>1
  <1>3. /\ mine \in Seq(Services) /\ n = B - PageSize /\ n <= L /\ n \in Nat /\ L \in Nat
        /\ \A k \in 1..n : mine[k] = rows[k]
    BY <1>2 DEF FirstPages
  <1>4. PageOf(rows, page) = cut
    <2>1. (page - 1) * PageSize + 1 = n + 1
      BY <1>2, <1>3
    <2> QED
      BY <2>1 DEF PageOf
  <1> HIDE DEF B
  <1>5. e \in Nat /\ n <= e /\ e <= L /\ (e = B \/ e = L) /\ e <= B
    BY <1>1, <1>2, <1>3
  <1> HIDE DEF e, n
  <1>6. /\ cut \in Seq(Services) /\ Len(cut) = e - n
        /\ \A k \in 1..e - n : cut[k] = rows[n + k]
    <2>1. n + 1 \in Nat /\ n + 1 >= 1 /\ e \in 0..Len(rows) /\ e - n \in Nat
      BY <1>3, <1>5 DEF L
    <2>2. /\ SubSeq(rows, n + 1, e) \in Seq(Services)
          /\ Len(SubSeq(rows, n + 1, e)) = e - n
          /\ \A k \in 1..e - n : SubSeq(rows, n + 1, e)[k] = rows[n + k]
      BY <1>3, <1>5, <2>1, CutIs
    <2> QED
      BY <2>2
  <1> HIDE DEF cut
  <1>7. /\ more \in Seq(Services) /\ Len(more) = e
        /\ \A k \in 1..n : more[k] = mine[k]
        /\ \A k \in 1..e - n : more[n + k] = cut[k]
    <2>1. mine \in Seq(Services) /\ cut \in Seq(Services)
      BY <1>3, <1>6
    <2>2. /\ more \in Seq(Services) /\ Len(more) = Len(mine) + Len(cut)
          /\ \A k \in 1..Len(mine) : more[k] = mine[k]
          /\ \A k \in 1..Len(cut) : more[Len(mine) + k] = cut[k]
      BY <2>1
    <2> QED
      BY <1>3, <1>5, <1>6, <2>2 DEF n
  <1>8. ASSUME NEW k \in 1..e PROVE more[k] = rows[k]
    <2>1. CASE k <= n
      BY <1>3, <1>7, <2>1
    <2>2. CASE k > n
      <3>1. k - n \in 1..e - n /\ n + (k - n) = k
        BY <1>3, <1>5, <2>2
      <3>2. more[n + (k - n)] = cut[k - n] /\ cut[k - n] = rows[n + (k - n)]
        BY <1>6, <1>7, <3>1
      <3> QED
        BY <3>1, <3>2
    <2> HIDE DEF more
    <2>3. k \in Nat
      BY <1>5
    <2> QED
      BY <1>3, <2>1, <2>2, <2>3
  <1> HIDE DEF more, n, L
  <1>9. LastPage(rows, e, e - n) => e = L \/ e >= MaxItems
    <2>1. e - n < PageSize => e = L
      BY <1>1, <1>2, <1>3, <1>5
    <2> QED
      BY <1>3, <1>5, <2>1 DEF LastPage, L
  <1>10. ~LastPage(rows, e, e - n) => e = B
    BY <1>1, <1>2, <1>3, <1>5 DEF LastPage, L
  <1>11. e = B => FirstPages(more, rows, page + 1)
    BY <1>1, <1>2, <1>5, <1>7, <1>8 DEF FirstPages, L
  <1> QED
    BY <1>4, <1>5, <1>6, <1>7, <1>8, <1>9, <1>10, <1>11 DEF more, L

\* One more organisation.
LEMMA CoversMore ==
  ASSUME Loaded, NEW p \in Processes, NEW scope \in Seq(Orgs), IsInjective(scope),
         NEW d \in Nat, d < Len(scope), NEW items, Covers(items, scope, d, lists[p]),
         lists[p][scope[d + 1]].status = "done",
         NEW part \in Seq(Services),
         Len(part) = MinOf(Len(lists[p][scope[d + 1]].rows), MaxItems),
         \A k \in 1..Len(part) : part[k] = lists[p][scope[d + 1]].rows[k]
  PROVE  Covers(items \o part, scope, d + 1, lists[p])
  <1> DEFINE o == scope[d + 1]
             rows == lists[p][o].rows
             all == items \o part
             m == Len(items)
             n == Len(part)
  <1>1. o \in Orgs /\ \A i \in 1..d : scope[i] \in Orgs /\ scope[i] # o
    <2>1. \A i \in 1..d + 1 : i \in DOMAIN scope /\ scope[i] \in Orgs
      OBVIOUS
    <2>2. d + 1 \in 1..d + 1 /\ \A i \in 1..d : i \in 1..d + 1 /\ i # d + 1
      OBVIOUS
    <2> QED
      BY <2>1, <2>2 DEF IsInjective
  <1>2. rows \in Seq(Rows(o)) /\ IsInjective(rows) /\ Len(rows) \in Nat
    BY <1>1 DEF Loaded
  <1>3. /\ m \in Nat /\ n \in Nat /\ n <= Len(rows) /\ items \in Seq(Services)
        /\ DOMAIN items = 1..m /\ DOMAIN part = 1..n
    BY <1>2, ReadsAssumption DEF Covers, MinOf
  <1>4. \A k \in 1..n : part[k] = rows[k] /\ Owner[part[k]] = o
    <2>1. \A k \in 1..n : k \in 1..Len(rows) /\ part[k] = rows[k]
      BY <1>2, <1>3
    <2>2. \A k \in 1..Len(rows) : rows[k] \in Rows(o)
      BY <1>2
    <2> QED
      BY <2>1, <2>2 DEF Rows
  <1>5. \A k \in 1..m : (\E i \in 1..d : Owner[items[k]] = scope[i]) /\ Owner[items[k]] # o
    <2>1. \A k \in 1..m : \E i \in 1..d : Owner[items[k]] = scope[i]
      BY <1>3 DEF Covers
    <2> QED
      BY <1>1, <2>1
  <1>6. IsInjective(part)
    <2>1. \A a, b \in 1..n : part[a] = part[b] => a = b
      <3>1. \A a \in 1..n : a \in DOMAIN rows /\ part[a] = rows[a]
        BY <1>2, <1>3, <1>4
      <3> QED
        BY <1>2, <3>1 DEF IsInjective
    <2> QED
      BY <1>3, <2>1 DEF IsInjective
  <1>7. /\ all \in Seq(Services) /\ IsInjective(all) /\ Len(all) = m + n
        /\ \A k \in 1..m : all[k] = items[k]
        /\ \A k \in 1..n : all[m + k] = part[k]
    <2>1. \A i \in 1..Len(items), j \in 1..Len(part) : items[i] # part[j]
      BY <1>4, <1>5
    <2>2. IsInjective(items)
      BY DEF Covers
    <2> HIDE DEF o, rows
    <2>3. items \in Seq(Services) /\ IsInjective(part)
      BY <1>3, <1>6
    <2>4. /\ items \o part \in Seq(Services) /\ IsInjective(items \o part)
          /\ Len(items \o part) = Len(items) + Len(part)
          /\ \A i \in 1..Len(items) : (items \o part)[i] = items[i]
          /\ \A j \in 1..Len(part) : (items \o part)[Len(items) + j] = part[j]
      BY <2>1, <2>2, <2>3, ServicesJoined
    <2> QED
      BY <2>4
  <1>8. DOMAIN all = 1..m + n
    BY <1>7
  <1>9. \A k \in 1..m + n : k \in 1..m \/ (k - m \in 1..n /\ m + (k - m) = k)
    BY <1>3
  <1> HIDE DEF all, m, n, rows, o
  <1>10. \A k \in 1..m + n : k \notin 1..m => all[k] = rows[k - m] /\ Owner[all[k]] = o
    <2>1. \A k \in 1..n : all[m + k] = rows[k] /\ Owner[all[m + k]] = o
      BY <1>4, <1>7
    <2> QED
      BY <1>9, <2>1
  <1>11. ASSUME NEW k \in DOMAIN all PROVE \E i \in 1..d + 1 : Owner[all[k]] = scope[i]
    <2>1. d + 1 \in 1..d + 1 /\ 1..d \subseteq 1..d + 1
      OBVIOUS
    <2>2. CASE k \in 1..m
      <3>1. all[k] = items[k] /\ \E i \in 1..d : Owner[items[k]] = scope[i]
        BY <1>5, <1>7, <2>2
      <3> QED
        BY <2>1, <3>1
    <2>3. CASE k \notin 1..m
      BY <1>8, <1>10, <2>1, <2>3 DEF o
    <2> QED
      BY <2>2, <2>3
  <1>12. ASSUME NEW i \in 1..d
         PROVE  /\ lists[p][scope[i]].status = "done"
                /\ Together(all, lists[p][scope[i]].rows, scope[i])
    <2> DEFINE other == lists[p][scope[i]].rows
               taken == MinOf(Len(other), MaxItems)
    <2>1. lists[p][scope[i]].status = "done" /\ Together(items, other, scope[i])
      BY DEF Covers
    <2>2. taken \in Nat
      <3>1. other \in Seq(Rows(scope[i]))
        BY <1>1 DEF Loaded
      <3>2. Len(other) \in Nat /\ MaxItems \in Nat
        BY <3>1, ReadsAssumption
      <3> QED
        BY <3>2 DEF MinOf
    <2>3. PICK before \in 0..m - taken :
            \A k \in 1..m : IF k \in before + 1..before + taken THEN items[k] = other[k - before]
                                                                ELSE Owner[items[k]] # scope[i]
      BY <1>3, <2>1 DEF Together, m
    <2> HIDE DEF taken, other
    <2>4. before \in 0..(m + n) - taken /\ \A k \in before + 1..before + taken : k \in 1..m
      BY <1>3, <2>2
    <2>5. \A k \in 1..m + n : IF k \in before + 1..before + taken THEN all[k] = other[k - before]
                                                                  ELSE Owner[all[k]] # scope[i]
      BY <1>1, <1>7, <1>10, <2>3, <2>4
    <2>6. Together(all, other, scope[i])
      BY <1>7, <1>8, <2>4, <2>5 DEF Together, taken
    <2> QED
      BY <2>1, <2>6 DEF other
  <1>13. Together(all, rows, o)
    <2>1. MinOf(Len(rows), MaxItems) = n
      BY DEF n, rows, o
    <2>2. m \in 0..(m + n) - n
      BY <1>3
    <2>3. \A k \in 1..m + n : IF k \in m + 1..m + n THEN all[k] = rows[k - m] ELSE Owner[all[k]] # o
      <3>1. \A k \in 1..m + n : k \in m + 1..m + n <=> k \notin 1..m
        BY <1>3
      <3> QED
        BY <1>5, <1>7, <1>10, <3>1
    <2> QED
      BY <1>7, <1>8, <2>1, <2>2, <2>3 DEF Together
  <1>14. \A i \in 1..d + 1 : i \in 1..d \/ i = d + 1
    OBVIOUS
  <1> QED
    BY <1>7, <1>11, <1>12, <1>13, <1>14 DEF Covers, o, rows, all

\* The parts of a report's record that its steps between two pages leave alone.
SameReport(q, r) ==
  /\ q.op = r.op /\ q.process = r.process /\ q.scope = r.scope /\ q.todo = r.todo
  /\ q.page = r.page /\ q.mine = r.mine /\ q.items = r.items

\* A step of a report at its place among the organisations' pages.
GoesOn(c, q) ==
  LET r == call[c] IN
  /\ SameReport(q, r) /\ r.pc \in Gathering /\ q.pc \in Gathering
  /\ q.pc \notin {"ask", "waiting"} =>
       r.pc \notin {"ask", "waiting"} \/ lists[r.process][Head(r.todo)].status = "done"

LEMMA ReportStep ==
  ASSUME Placed, NEW c \in Calls, ReadStep(c), call'[c].op = "content",
         call'[c].pc \in Gathering \cup {"done"}
  PROVE  /\ call[c].op = "content"
         /\ \/ GoesOn(c, call'[c])
            \/ At(c, "scope") /\ Reads(c, InScope({x.org : x \in call[c].found}))
            \/ Complete(c)
  <1> DEFINE r == call[c]
             q == call'[c]
  <1>1. PICK S : call \in [Calls -> Rec(S)]
    BY DEF Placed, Shaped
  <1>2. r \in Rec(S) /\ c \in DOMAIN call
    BY <1>1
  <1>3. \A s : Ended(c, s).op = "none"
    BY DEF Ended, Idle
  <1>4. r.pc = "get" => r.op = "service"
    BY DEF Placed
  <1>5. CASE CatalogueStep(c) /\ ~ChooseScope(c)
    <2>1. \/ \E s \in {"search", "list", "hydrate", "byId", "delete", "insert", "scope", "check"} : q.pc = s
          \/ \E s : q = Ended(c, s)
      <3>1. CASE CheckFresh(c) \/ (HydrateCatalogue(c) /\ ~DownloadFails(c)) \/ ReadRoot(c)
        BY <1>1, <1>2, <3>1 DEF CheckFresh, HydrateCatalogue, ReadRoot, Goto, Fail, Rec
      <3>2. CASE (ListCatalogue(c) /\ ~DownloadFails(c)) \/ (ReadByIds(c) /\ ~DownloadFails(c))
                 \/ DeleteRows(c) \/ SearchRows(c)
        BY <1>1, <1>2, <3>2 DEF ListCatalogue, ReadByIds, DeleteRows, SearchRows, Rec
      <3>3. ASSUME NEW s, CatalogueFails(c, s) PROVE q.pc = "scope" \/ q = Ended(c, s)
        BY <1>1, <1>2, <3>3 DEF CatalogueFails, Rec
      <3>4. CASE InsertRows(c)
        <4>1. \/ \E v : call' = [call EXCEPT ![c].pc = "search", ![c].seen = {}, ![c].fetched = {},
                                           ![c].checked = v]
              \/ CatalogueFails(c, "lost")
          BY <3>4, Zenon DEF InsertRows
        <4>2. CASE CatalogueFails(c, "lost")
          BY <3>3, <4>2
        <4>3. ASSUME NEW v, call' = [call EXCEPT ![c].pc = "search", ![c].seen = {},
                                                ![c].fetched = {}, ![c].checked = v]
              PROVE  q.pc = "search"
          <5>1. q = [r EXCEPT !.pc = "search", !.seen = {}, !.fetched = {}, !.checked = v]
            BY <1>2, <4>3
          <5> QED
            BY <1>2, <5>1 DEF Rec
        <4> QED
          BY <4>1, <4>2, <4>3
      <3>5. CASE DownloadFails(c)
        BY <3>3, <3>5 DEF DownloadFails
      <3> QED
        BY <1>5, <3>1, <3>2, <3>4, <3>5 DEF CatalogueStep
    <2> QED
      BY <1>3, <2>1 DEF Gathering
  <1>6. CASE ChooseScope(c)
    <2>1. \/ \E s : call' = [call EXCEPT ![c] = Ended(c, s)]
          \/ r.op = "content" /\ Reads(c, InScope({x.org : x \in r.found}))
          \/ r.op = "find" /\ \E o : Reads(c, <<o>>)
      BY <1>6 DEF ChooseScope
    <2>2. \A scope : Reads(c, scope) => q.op = r.op
      BY <1>2 DEF Reads, Idle
    <2> QED
      BY <1>2, <1>3, <1>6, <2>1, <2>2 DEF ChooseScope, At
  <1>7. CASE CodeStep(c)
    <2>1. r.pc \in Gathering \ {"ask", "waiting"}
      BY <1>7 DEF CodeStep, LoadRow, Prime, AskName, RememberName, BeginFlush, Save, At, Gathering
    <2> DEFINE Moved(s, v) == \/ call' = [call EXCEPT ![c].pc = s, ![c].answer = v]
                              \/ call' = [call EXCEPT ![c].answer = v, ![c].pc = s]
                              \/ call' = [call EXCEPT ![c].pc = s]
    <2>2. \E s \in Gathering : \E v : Moved(s, v)
      <3>1. /\ "primed" \in Gathering /\ "flush" \in Gathering /\ "fetch" \in Gathering
            /\ "answered" \in Gathering /\ "complete" \in Gathering /\ "save" \in Gathering
        BY DEF Gathering
      <3>2. CASE LoadRow(c)
        <4>1. \E v : Moved("primed", v)
          BY <3>2 DEF LoadRow
        <4> HIDE DEF Moved
        <4> QED
          BY <3>1, <4>1
      <3>3. CASE Prime(c)
        <4>1. \E s \in {"flush", "fetch"} : Moved(s, Null)
          BY <3>3 DEF Prime
        <4> HIDE DEF Moved
        <4> QED
          BY <3>1, <4>1
      <3>4. CASE AskName(c)
        <4>1. Moved("answered", known) \/ Moved("flush", Null)
          BY <3>4 DEF AskName, Goto
        <4> HIDE DEF Moved
        <4> QED
          BY <3>1, <4>1
      <3>5. CASE RememberName(c)
        <4>1. Moved("flush", Null)
          BY <3>5 DEF RememberName
        <4> HIDE DEF Moved
        <4> QED
          BY <3>1, <4>1
      <3>6. CASE BeginFlush(c)
        <4>1. Moved("complete", Null) \/ Moved("save", pending[r.process])
          BY <3>6 DEF BeginFlush, Goto
        <4> HIDE DEF Moved
        <4> QED
          BY <3>1, <4>1
      <3>7. CASE Save(c)
        <4>1. Moved("complete", Null)
          BY <3>7 DEF Save
        <4> HIDE DEF Moved
        <4> QED
          BY <3>1, <4>1
      <3> QED
        BY <1>7, <3>2, <3>3, <3>4, <3>5, <3>6, <3>7 DEF CodeStep
    <2>3. SameReport(q, r) /\ q.pc \in Gathering
      <3>1. PICK s \in Gathering : \E v : Moved(s, v)
        BY <2>2
      <3>2. PICK v : Moved(s, v)
        BY <3>1
      <3>3. q \in {[r EXCEPT !.pc = s, !.answer = v], [r EXCEPT !.answer = v, !.pc = s], [r EXCEPT !.pc = s]}
        BY <1>2, <3>2
      <3> QED
        BY <1>2, <3>3 DEF Rec, SameReport
    <2>4. GoesOn(c, q) /\ q.op = r.op
      BY <2>1, <2>3 DEF GoesOn, SameReport
    <2> QED
      BY <2>4
  <1>8. CASE StartRead(c)
    <2> DEFINE k == (events = MaxEvents)
               U(op) == IF op = "services" THEN <<Root>> ELSE <<>>
    <2>1. PICK op \in DOMAIN FirstStep, p \in Processes :
            call' = [call EXCEPT ![c] =
              [Idle EXCEPT !.op = op, !.pc = FirstStep[op], !.process = p, !.calm = k,
                           !.scope = U(op), !.todo = U(op)]]
      BY <1>8 DEF StartRead
    <2> HIDE DEF k, U
    <2>2. q.op = op /\ q.pc = FirstStep[op]
      BY <1>2, <2>1 DEF Idle
    <2> QED
      BY <2>2 DEF FirstStep, Gathering
  <1>9. CASE GetService(c)
    <2>1. r.op = "service"
      BY <1>4, <1>9 DEF GetService, At
    <2>2. q.op = r.op \/ \E s : q = Ended(c, s)
      BY <1>1, <1>2, <1>9 DEF GetService, Goto, Fail, Rec
    <2> QED
      BY <1>3, <2>1, <2>2
  <1>10. CASE AskList(c)
    <2>1. call' = [call EXCEPT ![c].pc = "waiting"] /\ r.pc = "ask"
      BY <1>10 DEF AskList, Goto, At
    <2> QED
      BY <1>1, <1>2, <2>1 DEF GoesOn, SameReport, Gathering, Rec
  <1>11. CASE TakePage(c)
    <2>1. /\ r.pc = "waiting" /\ lists[r.process][Head(r.todo)].status = "done"
          /\ \/ \E s \in {"load", "flush", "complete"} : call' = [call EXCEPT ![c].pc = s]
             \/ call' = [call EXCEPT ![c] = Ended(c, "failed")]
      BY <1>11 DEF TakePage, LookUp, Goto, Fail, At, Of
    <2>2. CASE call' = [call EXCEPT ![c] = Ended(c, "failed")]
      BY <1>2, <1>3, <2>2
    <2>3. CASE \E s \in {"load", "flush", "complete"} : call' = [call EXCEPT ![c].pc = s]
      BY <1>1, <1>2, <2>1, <2>3 DEF GoesOn, SameReport, Gathering, Rec
    <2> QED
      BY <2>1, <2>2, <2>3
  <1>12. CASE Complete(c)
    <2>1. r.op # "content" => call' = [call EXCEPT ![c] = Ended(c, "done")]
      <3> DEFINE page == PageOf(Of(c).rows, r.page)
                 mine == r.mine \o page
                 last == LastPage(Of(c).rows, Len(mine), Len(page))
                 items == r.items \o SubSeq(mine, 1, MinOf(Len(mine), MaxItems))
                 q1 == [r EXCEPT !.pc = "ask", !.page = r.page + 1, !.mine = mine]
                 q2 == [r EXCEPT !.pc = "ask", !.todo = Tail(r.todo), !.page = 1, !.mine = <<>>,
                                 !.items = items]
                 q3 == [Ended(c, "done") EXCEPT !.op = r.op, !.process = r.process, !.items = items,
                                                !.scope = r.scope]
      <3>1. call' = [call EXCEPT ![c] =
              CASE r.op # "content" -> Ended(c, "done")
                [] r.op = "content" /\ ~last -> q1
                [] r.op = "content" /\ last /\ Len(r.todo) > 1 -> q2
                [] OTHER -> q3]
        BY <1>1, <1>12 DEF Complete
      <3> HIDE DEF q1, q2, q3, last
      <3> QED
        BY <3>1
    <2> QED
      BY <1>2, <1>3, <1>12, <2>1
  <1> QED
    BY <1>5, <1>6, <1>7, <1>8, <1>9, <1>10, <1>11, <1>12 DEF ReadStep

\* A report that starts with its organisations' services.
LEMMA ReportBegins ==
  ASSUME Placed, Downloads, Loaded', NEW c \in Calls, At(c, "scope"), call[c].op = "content",
         Reads(c, InScope({x.org : x \in call[c].found})), NEW q, q = call'[c]
  PROVE  Gathers(q)'
  <1> DEFINE r == call[c]
             scope == InScope({x.org : x \in r.found})
             o == Head(scope)
  <1>1. scope \in Seq(Orgs) /\ IsInjective(scope) /\ scope # <<>>
    <2>1. {x.org : x \in r.found} \in SUBSET Orgs
      BY DEF At, Downloads, Reading
    <2> QED
      BY <2>1, InScopeOnce
  <1>2. r.process \in Processes
    BY DEF Placed, At, Stopped
  <1>3. /\ q.process = r.process /\ q.pc = "ask" /\ q.scope = scope /\ q.todo = scope /\ q.page = 1
        /\ q.mine = <<>> /\ q.items = <<>>
    <2>1. c \in DOMAIN call
      BY DEF Placed, Shaped
    <2> HIDE DEF scope
    <2> QED
      BY <2>1 DEF Reads, Idle, scope
  <1> HIDE DEF scope
  <1>4. Len(scope) \in Nat /\ Len(scope) \in 1..Len(scope) /\ Len(scope) - Len(scope) = 0 /\ o \in Orgs
    BY <1>1
  <1>5. Covers(<<>>, scope, 0, lists'[r.process])
    BY EmptyOnce DEF Covers
  <1>6. FirstPages(<<>>, lists'[r.process][o].rows, 1)
    <2>1. lists'[r.process][o].rows \in Seq(Rows(o))
      BY <1>2, <1>4 DEF Loaded, Rows
    <2>2. (1 - 1) * PageSize = 0
      BY ReadsAssumption
    <2> QED
      BY <2>1, <2>2 DEF FirstPages
  <1>7. \A j \in 1..Len(scope) : scope[j] = scope[0 + j]
    BY <1>4
  <1>8. LET list == lists'[q.process][Head(q.todo)] IN
          /\ q.page # 1 \/ q.pc \notin {"ask", "waiting"} => list.status = "done"
          /\ FirstPages(q.mine, list.rows, q.page)
    BY <1>3, <1>6
  <1>9. Covers(q.items, q.scope, Len(q.scope) - Len(q.todo), lists'[q.process])
    BY <1>3, <1>4, <1>5
  <1>10. /\ q.scope \in Seq(Orgs) /\ IsInjective(q.scope)
         /\ q.todo \in Seq(Orgs) /\ Len(q.todo) \in 1..Len(q.scope)
    BY <1>1, <1>3, <1>4
  <1>11. \A j \in 1..Len(q.todo) : q.todo[j] = q.scope[Len(q.scope) - Len(q.todo) + j]
    BY <1>3, <1>4, <1>7
  <1> QED
    BY <1>8, <1>9, <1>10, <1>11 DEF Gathers

\* A page is added, and with an organisation's last one its services.
LEMMA ReportAdds ==
  ASSUME Placed, Loaded, NEW c \in Calls, Complete(c), call[c].op = "content", Gathers(call[c])
  PROVE  LET q == call'[c] IN
         /\ q.pc = "ask" \/ q.pc = "done"
         /\ q.process = call[c].process
         /\ q.pc = "ask" => Gathers(q)
         /\ q.pc = "done" => /\ q.scope \in Seq(Orgs)
                             /\ Covers(q.items, q.scope, Len(q.scope), lists[q.process])
  <1> DEFINE r == call[c]
             p == r.process
             o == Head(r.todo)
             rows == lists[p][o].rows
             page == PageOf(rows, r.page)
             mine == r.mine \o page
             last == LastPage(rows, Len(mine), Len(page))
             part == SubSeq(mine, 1, MinOf(Len(mine), MaxItems))
             items == r.items \o part
             q1 == [r EXCEPT !.pc = "ask", !.page = r.page + 1, !.mine = mine]
             q2 == [r EXCEPT !.pc = "ask", !.todo = Tail(r.todo), !.page = 1, !.mine = <<>>,
                             !.items = items]
             q3 == [Ended(c, "done") EXCEPT !.op = r.op, !.process = p, !.items = items,
                                            !.scope = r.scope]
             d == Len(r.scope) - Len(r.todo)
  <1>1. PICK S : call \in [Calls -> Rec(S)]
    BY DEF Placed, Shaped
  <1>2. r \in Rec(S) /\ c \in DOMAIN call /\ r.pc = "complete"
    BY <1>1 DEF Complete, At
  <1>3. p \in Processes
    BY <1>2 DEF Placed, Stopped
  <1>4. /\ r.scope \in Seq(Orgs) /\ IsInjective(r.scope)
        /\ r.todo \in Seq(Orgs) /\ Len(r.todo) \in 1..Len(r.scope)
        /\ \A j \in 1..Len(r.todo) : r.todo[j] = r.scope[d + j]
        /\ Covers(r.items, r.scope, d, lists[p])
        /\ lists[p][o].status = "done"
        /\ FirstPages(r.mine, rows, r.page)
    BY <1>2 DEF Gathers
  <1>5. call'[c] = IF ~last THEN q1 ELSE IF Len(r.todo) > 1 THEN q2 ELSE q3
    <2>1. call' = [call EXCEPT ![c] =
            CASE r.op # "content" -> Ended(c, "done")
              [] r.op = "content" /\ ~last -> q1
              [] r.op = "content" /\ last /\ Len(r.todo) > 1 -> q2
              [] OTHER -> q3]
      BY <1>1 DEF Complete, Of
    <2> HIDE DEF q1, q2, q3, last
    <2> QED
      BY <1>2, <2>1
  <1>6. /\ q1.pc = "ask" /\ q1.process = p /\ q1.scope = r.scope /\ q1.todo = r.todo
        /\ q1.page = r.page + 1 /\ q1.mine = mine /\ q1.items = r.items
    <2> HIDE DEF mine
    <2> QED
      BY <1>2 DEF Rec
  <1>7. /\ q2.pc = "ask" /\ q2.process = p /\ q2.scope = r.scope /\ q2.todo = Tail(r.todo)
        /\ q2.page = 1 /\ q2.mine = <<>> /\ q2.items = items
    <2> HIDE DEF items
    <2> QED
      BY <1>2 DEF Rec
  <1>8. q3.pc = "done" /\ q3.process = p /\ q3.scope = r.scope /\ q3.items = items
    <2> HIDE DEF items
    <2> QED
      BY DEF Ended, Idle
  <1> HIDE DEF q1, q2, q3
  <1>9. o \in Orgs /\ o = r.scope[d + 1] /\ d \in Nat /\ d < Len(r.scope)
    <2>0. Len(r.scope) \in Nat
      BY <1>4
    <2>1. d \in Nat /\ d < Len(r.scope) /\ Len(r.todo) \in Nat /\ Len(r.todo) >= 1
      BY <1>4, <2>0, LeftOf
    <2>2. o = r.todo[1] /\ 1 \in 1..Len(r.todo)
      BY <1>4, <2>1
    <2>3. r.todo[1] = r.scope[d + 1]
      BY <1>4, <2>2
    <2>4. o \in Orgs
      BY <1>4, <2>1
    <2> QED
      BY <2>1, <2>2, <2>3, <2>4
  <1>10. rows \in Seq(Services) /\ Len(rows) \in Nat
    <2>1. rows \in Seq(Rows(o))
      BY <1>3, <1>9 DEF Loaded
    <2>2. Rows(o) \subseteq Services
      BY DEF Rows
    <2> HIDE DEF rows, o
    <2> QED
      BY <2>1, <2>2
  <1> HIDE DEF r, p, o, rows, d
  <1>11. /\ mine \in Seq(Services) /\ Len(mine) \in Nat /\ Len(mine) <= Len(rows)
         /\ \A k \in 1..Len(mine) : mine[k] = rows[k]
         /\ last => Len(mine) = Len(rows) \/ Len(mine) >= MaxItems
         /\ ~last => FirstPages(mine, rows, r.page + 1)
    BY <1>4, <1>10, PageAdds
  <1> HIDE DEF mine, last, page
  <1>12. last => Covers(items, r.scope, d + 1, lists[p])
    <2> SUFFICES ASSUME last PROVE Covers(items, r.scope, d + 1, lists[p])
      OBVIOUS
    <2> DEFINE n == MinOf(Len(mine), MaxItems)
    <2>1. n = MinOf(Len(rows), MaxItems) /\ n \in Nat /\ n <= Len(mine)
      BY <1>10, <1>11, ReadsAssumption DEF MinOf
    <2> HIDE DEF n
    <2>2. /\ SubSeq(mine, 1, n) \in Seq(Services) /\ Len(SubSeq(mine, 1, n)) = n
          /\ \A k \in 1..n : SubSeq(mine, 1, n)[k] = rows[k]
      <3>1. 0 \in Nat /\ n \in 0..Len(mine) /\ 0 <= n /\ 0 + 1 = 1 /\ n - 0 = n
        BY <1>11, <2>1
      <3>2. /\ SubSeq(mine, 0 + 1, n) \in Seq(Services) /\ Len(SubSeq(mine, 0 + 1, n)) = n - 0
            /\ \A k \in 1..n - 0 : SubSeq(mine, 0 + 1, n)[k] = mine[0 + k]
        BY <1>11, <3>1, CutIs
      <3>3. \A k \in 1..n : 0 + k = k /\ k \in 1..Len(mine)
        BY <1>11, <2>1
      <3> QED
        BY <1>11, <3>1, <3>2, <3>3
    <2>3. part = SubSeq(mine, 1, n)
      BY DEF n
    <2> HIDE DEF part
    <2>4. Covers(r.items \o part, r.scope, d + 1, lists[p])
      BY <1>3, <1>4, <1>9, <2>1, <2>2, <2>3, CoversMore DEF rows
    <2> QED
      BY <2>4
  <1> HIDE DEF items
  <1>13. ~last => Gathers(q1)
    <2>1. /\ r.page + 1 # 1 \/ "ask" \notin {"ask", "waiting"} => lists[p][o].status = "done"
          /\ FirstPages(mine, lists[p][o].rows, r.page + 1) \/ last
      BY <1>4, <1>11 DEF rows
    <2> QED
      BY <1>4, <1>6, <2>1 DEF Gathers, d, p, o, r
  <1>14. last /\ Len(r.todo) > 1 => Gathers(q2)
    <2> SUFFICES ASSUME last, Len(r.todo) > 1 PROVE Gathers(q2)
      OBVIOUS
    <2> DEFINE rest == Tail(r.todo)
               u == Head(rest)
    <2>1. /\ rest \in Seq(Orgs) /\ Len(rest) = Len(r.todo) - 1 /\ Len(r.todo) \in Nat
          /\ \A j \in 1..Len(rest) : rest[j] = r.todo[j + 1]
      BY <1>4
    <2> HIDE DEF rest
    <2>2. Len(rest) \in 1..Len(r.scope) /\ Len(r.scope) - Len(rest) = d + 1
      <3>1. Len(r.scope) \in Nat /\ Len(r.todo) <= Len(r.scope) /\ Len(r.todo) > 1
        BY <1>4
      <3>2. Len(rest) = Len(r.todo) - 1 /\ Len(r.todo) \in Nat
        BY <2>1
      <3> QED
        BY <3>1, <3>2 DEF d
    <2>3. \A j \in 1..Len(rest) : rest[j] = r.scope[(d + 1) + j]
      <3>1. \A j \in 1..Len(rest) : j + 1 \in 1..Len(r.todo) /\ d + (j + 1) = (d + 1) + j
        BY <1>9, <2>1
      <3> QED
        BY <1>4, <2>1, <3>1
    <2>4. u \in Orgs
      BY <2>1, <2>2
    <2>5. FirstPages(<<>>, lists[p][u].rows, 1)
      <3>1. lists[p][u].rows \in Seq(Rows(u))
        BY <1>3, <2>4 DEF Loaded
      <3>2. (1 - 1) * PageSize = 0
        BY ReadsAssumption
      <3> QED
        BY <3>1, <3>2 DEF FirstPages
    <2> HIDE DEF rest
    <2> QED
      BY <1>4, <1>7, <1>12, <2>1, <2>2, <2>3, <2>5 DEF Gathers, rest
  <1>15. last /\ ~(Len(r.todo) > 1) =>
           q3.scope \in Seq(Orgs) /\ Covers(q3.items, q3.scope, Len(q3.scope), lists[q3.process])
    <2>1. ~(Len(r.todo) > 1) => d + 1 = Len(r.scope)
      <3>1. Len(r.scope) \in Nat
        BY <1>4
      <3> QED
        BY <1>4, <3>1, LeftOf DEF d
    <2> QED
      BY <1>4, <1>8, <1>12, <2>1
  <1> QED
    BY <1>5, <1>6, <1>7, <1>8, <1>13, <1>14, <1>15 DEF r, p

LEMMA StepReports ==
  ASSUME Placed, Downloads, Loaded, Reports, Next
  PROVE  Reports'
  <1>1. Loaded' /\ DoneStays /\ Placed'
    BY StepLoaded, StepPlaced
  <1> SUFFICES ASSUME NEW c \in Calls, NEW q, q = call'[c], q.op = "content"
               PROVE  /\ q.pc \in Gathering => Gathers(q)'
                      /\ q.pc = "done" =>
                           /\ q.process \in Processes /\ q.scope \in Seq(Orgs)
                           /\ Covers(q.items, q.scope, Len(q.scope), lists'[q.process])
    BY DEF Reports
  <1> DEFINE r == call[c]
  <1>2. r.pc \in Gathering => r.process \in Processes
    BY DEF Placed, Gathering, Stopped
  <1>3. CASE q = r
    <2>1. q.pc \in Gathering => Gathers(q) /\ q.process \in Processes
      BY <1>2, <1>3 DEF Reports
    <2>2. q.pc \in Gathering => Gathers(q)'
      BY <1>1, <2>1, GathersStays
    <2>3. q.pc = "done" =>
            /\ q.process \in Processes /\ q.scope \in Seq(Orgs)
            /\ Covers(q.items, q.scope, Len(q.scope), lists[q.process])
      BY <1>3 DEF Reports
    <2>4. q.scope \in Seq(Orgs) => Len(q.scope) \in 0..Len(q.scope)
      OBVIOUS
    <2>5. q.pc = "done" => Covers(q.items, q.scope, Len(q.scope), lists'[q.process])
      BY <1>1, <2>3, <2>4, CoversStays
    <2> QED
      BY <2>2, <2>3, <2>5
  <1>4. CASE ReadStep(c)
    <2> SUFFICES ASSUME q.pc \in Gathering \cup {"done"}
                 PROVE  /\ q.pc \in Gathering => Gathers(q)'
                        /\ q.pc = "done" =>
                             /\ q.process \in Processes /\ q.scope \in Seq(Orgs)
                             /\ Covers(q.items, q.scope, Len(q.scope), lists'[q.process])
      OBVIOUS
    <2>1. /\ r.op = "content"
          /\ \/ GoesOn(c, q)
             \/ At(c, "scope") /\ Reads(c, InScope({x.org : x \in r.found}))
             \/ Complete(c)
      BY <1>4, ReportStep
    <2>2. CASE GoesOn(c, q)
      <3>1. Gathers(r) /\ q.process \in Processes
        BY <1>2, <2>1, <2>2 DEF Reports, GoesOn, SameReport
      <3>2. Gathers(q)
        BY <2>2, <3>1 DEF Gathers, GoesOn, SameReport
      <3>3. Gathers(q)'
        BY <1>1, <3>1, <3>2, GathersStays
      <3> QED
        BY <2>2, <3>3 DEF GoesOn, Gathering
    <2>3. CASE At(c, "scope") /\ Reads(c, InScope({x.org : x \in r.found}))
      <3>1. Gathers(q)' /\ q.pc = "ask"
        <4>1. c \in DOMAIN call
          BY DEF Placed, Shaped
        <4> QED
          BY <1>1, <2>1, <2>3, <4>1, ReportBegins DEF Reads, Idle
      <3> QED
        BY <3>1
    <2>4. CASE Complete(c)
      <3>1. Gathers(r) /\ r.process \in Processes
        BY <1>2, <2>1, <2>4 DEF Reports, Complete, At, Gathering
      <3>2. /\ q.pc = "ask" \/ q.pc = "done"
            /\ q.process \in Processes
            /\ q.pc = "ask" => Gathers(q)
            /\ q.pc = "done" => /\ q.scope \in Seq(Orgs)
                                /\ Covers(q.items, q.scope, Len(q.scope), lists[q.process])
        BY <2>1, <2>4, <3>1, ReportAdds
      <3>3. q.pc = "ask" => Gathers(q)'
        BY <1>1, <3>2, GathersStays
      <3>4. q.pc = "done" => Covers(q.items, q.scope, Len(q.scope), lists'[q.process])
        <4>1. q.scope \in Seq(Orgs) => Len(q.scope) \in 0..Len(q.scope)
          OBVIOUS
        <4> QED
          BY <1>1, <3>2, <4>1, CoversStays
      <3> QED
        BY <3>2, <3>3, <3>4 DEF Gathering
    <2> QED
      BY <2>1, <2>2, <2>3, <2>4
  <1>5. CASE Outside \/ \E d \in Calls : d # c /\ ReadStep(d)
    <2>1. q = r \/ q = Ended(c, "failed")
      BY <1>5, StepChanges DEF Outside, Changes
    <2>2. Ended(c, "failed").op = "none"
      BY DEF Ended, Idle
    <2> QED
      BY <1>3, <2>1, <2>2
  <1> QED
    BY <1>4, <1>5, NextIs

\* A report has what its adapter downloaded of each organisation, once and
\* together (organisationsInScope, fetchAll, organizationList), for any tree
\* of organisations, any size of a page and any limit, whatever PTV's content
\* does meanwhile and whoever else asks for the same lists.
THEOREM ContentStaysOnce == Spec => []ContentOnce
  <1>1. Init => Downloads /\ Loaded /\ Reports
    <2> SUFFICES ASSUME Init PROVE Loaded /\ Reports
      BY InitDownloads
    <2>1. Loaded
      BY DEF Init, Loaded, NoList, IsInjective
    <2>2. Reports
      BY InitShaped DEF Reports, Gathering
    <2> QED
      BY <2>1, <2>2
  <1>2. Placed /\ (Downloads /\ Loaded /\ Reports) /\ [Next]_vars => (Downloads /\ Loaded /\ Reports)'
    <2>1. ASSUME Downloads, Loaded, Reports, UNCHANGED vars PROVE (Downloads /\ Loaded /\ Reports)'
      <3>1. /\ call' = call /\ lists' = lists /\ listed' = listed /\ ptvOrgs' = ptvOrgs
            /\ table' = table /\ events' = events /\ api' = api
        BY <2>1 DEF vars, catalogueVars
      <3>2. Downloads'
        BY <2>1 DEF vars, catalogueVars, Downloads, Reading
      <3>3. Loaded'
        BY <2>1, <3>1 DEF Loaded
      <3>4. Reports'
        BY <2>1, <3>1 DEF Reports, Gathers
      <3> QED
        BY <3>2, <3>3, <3>4
    <2> QED
      BY <2>1, StepDownloads, StepLoaded, StepReports
  <1>3. Reports => ContentOnce
    <2> SUFFICES ASSUME Reports, NEW c \in Calls, NEW r, r = call[c],
                        r.op = "content", r.pc = "done"
                 PROVE  /\ IsInjective(r.items)
                        /\ \A k \in DOMAIN r.items : \E i \in DOMAIN r.scope : Owner[r.items[k]] = r.scope[i]
                        /\ \A i \in DOMAIN r.scope :
                             LET list == lists[r.process][r.scope[i]] IN
                             list.status = "done" /\ Together(r.items, list.rows, r.scope[i])
      BY DEF ContentOnce
    <2>1. r.scope \in Seq(Orgs) /\ Covers(r.items, r.scope, Len(r.scope), lists[r.process])
      BY DEF Reports
    <2>2. DOMAIN r.scope = 1..Len(r.scope)
      BY <2>1
    <2> QED
      BY <2>1, <2>2 DEF Covers
  <1> QED
    BY <1>1, <1>2, <1>3, StaysPlaced, PTL DEF Spec

=============================================================================
