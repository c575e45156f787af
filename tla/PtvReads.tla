------------------------------- MODULE PtvReads -------------------------------
(***************************************************************************)
(* The reads of a tenant's PTV adapters that gather what an organisation   *)
(* has: the search tools (mcp/searchTools.ts), getService, and the content *)
(* report and review campaigns (ptv/organisationContent.ts).  An adapter   *)
(* downloads an organisation's list once and cuts every page from it       *)
(* (organizationLists); the reads of a process here share one adapter, as  *)
(* the reads of one request do.  A v12 list's rows that lack fields are    *)
(* read again one by one, and each page's services get their codes' names. *)
(*                                                                         *)
(* Services stand for channels and collections too, which the same code    *)
(* reads: they have no codes.  A page of v11 services comes complete.      *)
(***************************************************************************)
EXTENDS CodeNames, Filters

CONSTANTS
    Services, Owner,    \* PTV's services and whose they are
    Bare,               \* those whose search rows do not say whose they are
    PageSize,           \* PAGE_SIZE of fetchAll
    MaxItems            \* MAX_ORGANISATION_ITEMS

ASSUME ReadsAssumption ==
    /\ IsFiniteSet(Services) /\ Owner \in [Services -> Orgs] /\ Bare \subseteq Services
    /\ PageSize \in Nat \ {0} /\ MaxItems \in Nat \ {0}

VARIABLES
    listed,     \* external: the services PTV has
    lists       \* organizationLists of each process's adapter

vars == <<catalogueVars, codeVars, call, listed, lists>>

-----------------------------------------------------------------------------
NoList == [status |-> "none", rows |-> <<>>]

Init ==
  /\ CatalogueInit /\ CodeInit
  /\ listed = Services
  /\ lists = [p \in Processes |-> [o \in Orgs |-> NoList]]

\* The read tools and the reports, by what they read first.
FirstStep ==
  [organisations |-> "check", find |-> "check", services |-> "ask", service |-> "get", content |-> "root"]

\* An adapter is resolved and handed the read.  Bound: one report.
StartRead(c) ==
  /\ At(c, "idle")
  /\ \E op \in DOMAIN FirstStep, p \in Processes :
       /\ op = "content" => \A d \in Calls : call[d].op # "content"
       /\ LET scope == IF op = "services" THEN <<Root>> ELSE <<>> IN
          call' = [call EXCEPT ![c] =
            [Idle EXCEPT !.op = op, !.pc = FirstStep[op], !.process = p,
                         !.calm = (events = MaxEvents), !.scope = scope, !.todo = scope]]
  /\ UNCHANGED <<catalogueVars, codeVars, listed, lists>>

\* getService: 404 is null, anything found gets its names.
GetService(c) ==
  /\ At(c, "get")
  /\ \/ /\ \E s \in Services :
             IF s \notin listed THEN call' = [call EXCEPT ![c] = Ended(c, "done")]
             ELSE Goto(c, IF Api(c) = "v12" THEN LookUp(c) ELSE "complete")
        /\ UNCHANGED events
     \/ Event /\ Fail(c)
  /\ UNCHANGED <<now, ptvOrgs, api, table, codeVars, listed, lists>>

-----------------------------------------------------------------------------
Of(c) == lists[call[c].process][Head(call[c].todo)]

SetList(p, o, list) == lists' = [lists EXCEPT ![p][o] = list]

\* organizationList: the first to ask starts the download, the others share it.
AskList(c) ==
  /\ At(c, "ask")
  /\ Goto(c, "waiting")
  /\ IF Of(c).status = "none"
     THEN SetList(call[c].process, Head(call[c].todo),
                  [NoList EXCEPT !.status = "loading"])
     ELSE UNCHANGED lists
  /\ UNCHANGED <<catalogueVars, codeVars, listed>>

\* The filter on the organisation, which PTV's answer may exceed.
OwnedBy(o) == SetToSeq({s \in listed : Owner[s] = o})

\* v11's organisation lists: the wires of the organisation's own services.
LoadV11List(p, o) ==
  /\ lists[p][o].status = "loading" /\ api[p] = "v11"
  /\ SetList(p, o, [status |-> "done", rows |-> OwnedBy(o)])
  /\ UNCHANGED <<catalogueVars, codeVars, call, listed>>

\* The rows of every page of a v12 search.
LoadV12List(p, o) ==
  /\ lists[p][o].status = "loading" /\ api[p] = "v12"
  /\ SetList(p, o, [status |-> "hydrating", rows |-> OwnedBy(o)])
  /\ UNCHANGED <<catalogueVars, codeVars, call, listed>>

\* Each row that lacks its organisation is read again.  One that is gone by
\* then is kept as it was, and the search, which keeps the organisation's
\* own services only, leaves it out.
HydrateList(p, o) ==
  /\ lists[p][o].status = "hydrating"
  /\ SetList(p, o, [lists[p][o] EXCEPT !.status = "done",
                      !.rows = Filter(@, (Services \ Bare) \cup listed)])
  /\ UNCHANGED <<catalogueVars, codeVars, call, listed>>

\* Those waiting for a list.
Waiting(p, o) == {c \in Calls : At(c, "waiting") /\ call[c].process = p /\ Head(call[c].todo) = o}

\* Mutant: a download that failed stays, and fails whoever asks for the list.
ListFailsForGood(p, o) ==
  /\ \/ lists[p][o].status \in {"loading", "hydrating"} /\ Event
     \/ lists[p][o].status = "failed" /\ UNCHANGED events
  /\ SetList(p, o, [NoList EXCEPT !.status = "failed"])
  /\ call' = [c \in Calls |-> IF c \in Waiting(p, o) THEN Ended(c, "failed") ELSE call[c]]
  /\ UNCHANGED <<now, ptvOrgs, api, table, codeVars, listed>>

\* A failed download fails those that wait for it, and is forgotten.
ListFails(p, o) ==
  /\ lists[p][o].status \in {"loading", "hydrating"}
  /\ Event
  /\ SetList(p, o, NoList)
  /\ call' = [c \in Calls |-> IF c \in Waiting(p, o) THEN Ended(c, "failed") ELSE call[c]]
  /\ UNCHANGED <<now, ptvOrgs, api, table, codeVars, listed>>

MinOf(a, b) == IF a < b THEN a ELSE b

\* paginate: the page asked for.
PageOf(rows, page) ==
  SubSeq(rows, (page - 1) * PageSize + 1,
         IF page * PageSize < Len(rows) THEN page * PageSize ELSE Len(rows))

\* v12 reads the page's connections before its codes' names.
TakePage(c) ==
  LET items == PageOf(Of(c).rows, call[c].page) IN
  /\ At(c, "waiting") /\ Of(c).status = "done"
  /\ \/ /\ Goto(c, IF Api(c) = "v12" /\ items # <<>> THEN LookUp(c) ELSE "complete")
        /\ UNCHANGED events
     \/ Api(c) = "v12" /\ items # <<>> /\ Event /\ Fail(c)
  /\ UNCHANGED <<now, ptvOrgs, api, table, codeVars, listed, lists>>

\* Mutant: a page as long as the total may be the last one.
StopsEarly(rows, got, size) == size < PageSize \/ got >= Len(rows) - 1 \/ got >= MaxItems

\* fetchAll stops at a short page, the total or the limit.
LastPage(rows, got, size) == size < PageSize \/ got >= Len(rows) \/ got >= MaxItems

\* The page is answered with the names memory has by now.  fetchAll reads the
\* next one, and a report goes on to the next organisation's services.
Complete(c) ==
  LET r == call[c]
      page == PageOf(Of(c).rows, r.page)
      mine == r.mine \o page
      last == LastPage(Of(c).rows, Len(mine), Len(page))
      items == r.items \o SubSeq(mine, 1, MinOf(Len(mine), MaxItems))
  IN
  /\ At(c, "complete")
  /\ call' = [call EXCEPT ![c] =
       CASE r.op # "content" -> Ended(c, "done")
         [] r.op = "content" /\ ~last -> [@ EXCEPT !.pc = "ask", !.page = @ + 1, !.mine = mine]
         [] r.op = "content" /\ last /\ Len(r.todo) > 1 ->
              [@ EXCEPT !.pc = "ask", !.todo = Tail(@), !.page = 1, !.mine = <<>>, !.items = items]
         [] OTHER -> [Ended(c, "done") EXCEPT !.op = r.op, !.process = r.process,
                                              !.items = items, !.scope = r.scope]]
  /\ UNCHANGED <<catalogueVars, codeVars, listed, lists>>

-----------------------------------------------------------------------------
\* External: a service is published in PTV or taken out of it.
ContentChanges ==
  /\ Event
  /\ \E s \in Services : listed' = IF s \in listed THEN listed \ {s} ELSE listed \cup {s}
  /\ UNCHANGED <<now, ptvOrgs, api, table, codeVars, call, lists>>

Next ==
  \/ \E c \in Calls :
       \/ CatalogueStep(c) /\ UNCHANGED <<codeVars, listed, lists>>
       \/ CodeStep(c) /\ UNCHANGED <<listed, lists>>
       \/ StartRead(c) \/ GetService(c) \/ AskList(c) \/ TakePage(c) \/ Complete(c)
  \/ \E p \in Processes, o \in Orgs : 
       LoadV11List(p, o) \/ LoadV12List(p, o) \/ HydrateList(p, o) \/ ListFails(p, o)
  \/ (Tick \/ CatalogueChanges) /\ UNCHANGED <<codeVars, listed, lists>>
  \/ VocabularyChanges /\ UNCHANGED <<listed, lists>>
  \/ ContentChanges

Spec == Init /\ [][Next]_vars

-----------------------------------------------------------------------------
TypeOK ==
  /\ CatalogueTypeOK /\ CodeTypeOK
  /\ listed \subseteq Services
  /\ \A p \in Processes, o \in Orgs :
       /\ lists[p][o].status \in {"none", "loading", "hydrating", "done"}
       /\ ToSet(lists[p][o].rows) \subseteq {s \in Services : Owner[s] = o}

\* The rows of one organisation are in a report as far as they are read, one
\* after the other, and nowhere else.
Together(items, rows, o) ==
  LET taken == MinOf(Len(rows), MaxItems) IN
  \E before \in 0..Len(items) - taken :
    \A k \in DOMAIN items :
      IF k \in before + 1..before + taken THEN items[k] = rows[k - before]
                                          ELSE Owner[items[k]] # o

\* A report has the services of the organisations it covers and no others, each
\* exactly once and as its adapter downloaded them, though it reads them page by
\* page while PTV's content changes and other reads of the adapter ask for the
\* same lists.
ContentOnce ==
  \A c \in Calls : LET r == call[c] IN
    r.op = "content" /\ r.pc = "done" =>
      /\ IsInjective(r.items)
      /\ \A k \in DOMAIN r.items : \E i \in DOMAIN r.scope : Owner[r.items[k]] = r.scope[i]
      /\ \A i \in DOMAIN r.scope :
           LET list == lists[r.process][r.scope[i]] IN
           list.status = "done" /\ Together(r.items, list.rows, r.scope[i])

\* A download that failed is not what a later read is answered with: once PTV
\* answers again, whatever failed before, reads succeed.
FailuresAreForgotten == \A c \in Calls : call[c].calm => call[c].pc # "failed"

=============================================================================
