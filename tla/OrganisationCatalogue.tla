------------------------- MODULE OrganisationCatalogue -------------------------
(***************************************************************************)
(* A tenant's copy of PTV's organisation catalogue                         *)
(* (db/ptvOrganizationCacheService.ts) and the searches that fill and read *)
(* it: v11's and v12's searchOrganisations of a tenant's adapter, and the  *)
(* organisations a report or a campaign takes in (organisationsInScope).   *)
(* One hour of the cache's clock is one unit of `now`.                     *)
(*                                                                         *)
(* PTV's catalogue changes meanwhile and any of its answers may be an      *)
(* error, at most MaxEvents times.  A transaction that inserts an        *)
(* organisation another one inserted fails (the table's unique key); the   *)
(* order in which PostgreSQL's row locks let two of them commit is left    *)
(* open.                                                                   *)
(***************************************************************************)
EXTENDS Integers, Sequences, SequencesExt, FiniteSets

CONSTANTS
    Calls,          \* the reads under way
    Processes,      \* server processes; one adapter's reads share one
    Orgs, Root,     \* PTV's organisations, and the one asked about
    Parent,         \* each organisation's parentOrganizationId, or Null
    Apis,           \* the API versions read through
    CatalogueTtl,
    MaxEvents,
    Null

ASSUME CatalogueAssumption ==
    /\ IsFiniteSet(Orgs) /\ Root \in Orgs /\ Null \notin Orgs
    /\ Parent \in [Orgs -> Orgs \cup {Null}]
    /\ Apis \subseteq {"v11", "v12"}
    /\ CatalogueTtl \in Nat \ {0} /\ MaxEvents \in Nat

VARIABLES
    now,        \* the clock of the database and of the processes
    ptvOrgs,    \* external: the organisations of PTV's catalogue
    table,      \* ptv_organization_cache: the rows of each API version
    api,        \* the API version each process's adapter reads through
    call,       \* the reads
    events      \* bound: the hours that passed, PTV's changes and its errors

catalogueVars == <<now, ptvOrgs, api, table, events>>

-----------------------------------------------------------------------------
\* A row.  "whole" is history: the list it was stored with.
Row(org, list, stale, domain) ==
  [org |-> org, whole |-> list, staleAt |-> stale, domain |-> domain]

Idle == [op |-> "none", pc |-> "idle", process |-> Null, calm |-> FALSE,
         fetched |-> {}, seen |-> {}, staleAt |-> 0, found |-> {}, waited |-> FALSE, checked |-> 0,
         scope |-> <<>>, todo |-> <<>>, page |-> 1, mine |-> <<>>, items |-> <<>>, answer |-> Null]

At(c, pc) == call[c].pc = pc

Api(c) == api[call[c].process]

Goto(c, pc) == call' = [call EXCEPT ![c].pc = pc]

\* The end of a read: how it went, and whether it had PTV at its best.
Ended(c, pc) == [Idle EXCEPT !.pc = pc, !.calm = call[c].calm]

Fail(c) == call' = [call EXCEPT ![c] = Ended(c, "failed")]

\* An answer of PTV that is an error, after the client's retries.
Event == events < MaxEvents /\ events' = events + 1

CatalogueInit ==
  /\ now = 0 /\ events = 0
  /\ ptvOrgs = Orgs
  \* An earlier search stored a catalogue, perhaps before the rows were
  \* domain objects, which is as good as none.
  /\ \E rows \in {{Row(Root, {Root}, CatalogueTtl, TRUE)}, {Row(Root, {Root}, CatalogueTtl, FALSE)}} :
       table = [a \in Apis |-> rows]
  /\ api \in {reads \in [Processes -> Apis] : "v12" \in Range(reads)}
  /\ call = [c \in Calls |-> Idle]

-----------------------------------------------------------------------------
\* Rows that are not stale, of the present shape.
Live(rows) == {r \in rows : r.staleAt > now /\ r.domain}

HasFreshCatalogue(a) == table[a] # {} /\ Live(table[a]) = table[a]

\* What a read does when the organisation catalogue cannot be had: a report
\* goes on with the organisation alone, any other read fails.
CatalogueFails(c, how) ==
  call' = [call EXCEPT ![c] =
    IF call[c].op = "content" THEN [@ EXCEPT !.pc = "scope", !.seen = {}, !.fetched = {}, !.found = {},
                                                 !.checked = -1]
                              ELSE Ended(c, how)]

CheckFresh(c) ==
  /\ At(c, "check")
  /\ call' = [call EXCEPT ![c].pc = IF HasFreshCatalogue(Api(c)) THEN "search" ELSE "list",
                          ![c].checked = now]
  /\ UNCHANGED catalogueVars

\* What a step of a download does when PTV answers with an error.
DownloadFails(c) == Event /\ CatalogueFails(c, "failed") /\ UNCHANGED <<now, ptvOrgs, api, table>>

\* The pages of the catalogue: v12's rows, v11's ids and names.
ListCatalogue(c) ==
  /\ At(c, "list")
  /\ \/ /\ call' = [call EXCEPT ![c].pc = IF Api(c) = "v12" THEN "hydrate" ELSE "byId",
                               ![c].fetched = ptvOrgs]
        /\ UNCHANGED catalogueVars
     \/ DownloadFails(c)

\* A v12 row without names is read again; one that is gone by then is kept.
HydrateCatalogue(c) ==
  /\ At(c, "hydrate")
  /\ \/ Goto(c, "delete") /\ UNCHANGED catalogueVars
     \/ DownloadFails(c)

\* v11 reads the organisations by id, which leaves out those that are gone.
ReadByIds(c) ==
  /\ At(c, "byId")
  /\ \/ /\ call' = [call EXCEPT ![c].pc = "delete", ![c].fetched = @ \cap ptvOrgs]
        /\ UNCHANGED catalogueVars
     \/ DownloadFails(c)

\* replaceCatalogue's transaction deletes the rows its first statement sees.
DeleteRows(c) ==
  /\ At(c, "delete")
  /\ call' = [call EXCEPT ![c].pc = "insert", ![c].staleAt = now + CatalogueTtl,
                          ![c].seen = table[Api(c)]]
  /\ UNCHANGED catalogueVars

\* Mutant: a row that is there already is left (ON CONFLICT DO NOTHING).
InsertMissingRows(c) ==
  LET r == call[c]
      others == table[Api(c)] \ r.seen
      new == {Row(o, r.fetched, r.staleAt, TRUE) : o \in r.fetched}
  IN
  /\ At(c, "insert")
  /\ table' = [table EXCEPT ![Api(c)] = others \cup {x \in new : \A y \in others : x.org # y.org}]
  /\ call' = [call EXCEPT ![c].pc = "search", ![c].seen = {}, ![c].fetched = {}, ![c].checked = now]
  /\ UNCHANGED <<now, ptvOrgs, api, events>>

\* It inserts the list in batches and commits, or fails on a row that
\* another transaction inserted meanwhile.
InsertRows(c) ==
  LET r == call[c]
      others == table[Api(c)] \ r.seen
      new == {Row(o, r.fetched, r.staleAt, TRUE) : o \in r.fetched}
  IN
  /\ At(c, "insert")
  /\ IF \E x \in others, y \in new : x.org = y.org
     THEN CatalogueFails(c, "lost") /\ UNCHANGED table
     ELSE /\ table' = [table EXCEPT ![Api(c)] = others \cup new]
          /\ call' = [call EXCEPT ![c].pc = "search", ![c].seen = {}, ![c].fetched = {},
                                  ![c].checked = r.staleAt - CatalogueTtl]
  /\ UNCHANGED <<now, ptvOrgs, api, events>>

\* The rows are read by another statement than the check, at its own time.
SearchRows(c) ==
  /\ At(c, "search")
  /\ call' = [call EXCEPT ![c].pc = "scope", ![c].found = Live(table[Api(c)]),
                          ![c].waited = now > call[c].checked]
  /\ UNCHANGED catalogueVars

-----------------------------------------------------------------------------
\* Those of a catalogue that are directly below the i-th of a list, and not in it.
Below(catalogue, list, i) ==
  SetToSeq({o \in catalogue : Parent[o] = list[i]} \ ToSet(list))

\* organisationsInScope: those below it, level by level, each once.  Each round
\* of its loop looks at the next organisation of the result, which has no more
\* than the catalogue's and the root: by the last round here it has ended.
InScope(catalogue) ==
  LET rounds == Cardinality(catalogue) + 1
      result[n \in 0..rounds] ==
        IF n = 0 THEN <<Root>>
        ELSE LET soFar == result[n - 1] IN
             IF n > Len(soFar) THEN soFar ELSE soFar \o Below(catalogue, soFar, n)
  IN  result[rounds]

\* The services of these organisations are read next.
Reads(c, scope) ==
  call' = [call EXCEPT ![c] = [Idle EXCEPT !.op = call[c].op, !.process = call[c].process,
                                 !.calm = call[c].calm, !.pc = "ask", !.scope = scope, !.todo = scope]]

\* organisationsInScope reads the organisation itself first.
ReadRoot(c) ==
  /\ At(c, "root")
  /\ \/ Goto(c, "check") /\ UNCHANGED catalogueVars
     \/ Event /\ Fail(c) /\ UNCHANGED <<now, ptvOrgs, api, table>>

\* findOrganisationAndChildren takes the first organisation its query
\* matches, and fails when there is none.
ChooseScope(c) ==
  LET matches == {r.org : r \in call[c].found} IN
  /\ At(c, "scope")
  /\ \/ call[c].op = "organisations" /\ call' = [call EXCEPT ![c] = Ended(c, "done")]
     \/ call[c].op = "content" /\ Reads(c, InScope(matches))
     \/ call[c].op = "find" /\ matches = {}
        /\ call' = [call EXCEPT ![c] = Ended(c, "nothing")]
     \/ call[c].op = "find" /\ \E o \in matches : Reads(c, <<o>>)
  /\ UNCHANGED catalogueVars

-----------------------------------------------------------------------------
Tick ==
  /\ Event /\ now' = now + 1
  /\ UNCHANGED <<ptvOrgs, api, table, call>>

\* External: an organisation joins PTV's catalogue or leaves it.
CatalogueChanges ==
  /\ Event
  /\ \E o \in Orgs \ {Root} :
       ptvOrgs' = IF o \in ptvOrgs THEN ptvOrgs \ {o} ELSE ptvOrgs \cup {o}
  /\ UNCHANGED <<now, api, table, call>>

CatalogueStep(c) ==
  \/ CheckFresh(c) \/ ListCatalogue(c) \/ HydrateCatalogue(c) \/ ReadByIds(c)
  \/ DeleteRows(c) \/ InsertRows(c) \/ SearchRows(c) \/ ReadRoot(c) \/ ChooseScope(c)

-----------------------------------------------------------------------------
CatalogueTypeOK ==
  /\ now \in 0..MaxEvents /\ events \in 0..MaxEvents
  /\ ptvOrgs \subseteq Orgs
  /\ \A a \in Apis : \A r \in table[a] : r.org \in r.whole /\ r.whole \subseteq Orgs

\* The cached rows of an API version are one download: however two searches
\* that found the catalogue stale replace it, no organisation of one list
\* stands beside those of another, and none is missing from its list.
OneCatalogue ==
  \A a \in Apis : \A r \in table[a] :
    /\ {x.org : x \in table[a]} = r.whole
    /\ \A x \in table[a] : x.staleAt = r.staleAt

\* A search is not answered "no organisations" because the copy is old: only
\* when the hour ends between its check and its read does it find nothing.
EmptyOnlyAtExpiry ==
  \A c \in Calls :
    At(c, "scope") /\ call[c].found = {} /\ call[c].checked >= 0 => call[c].waited

\* The cached catalogue is one whole download, and is searched as such.
CatalogueIsWhole ==
  /\ OneCatalogue
  /\ EmptyOnlyAtExpiry
=============================================================================
