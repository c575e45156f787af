------------------------- MODULE OrganisationSearch -------------------------
(***************************************************************************)
(* A search of PTV v11's organisations without a tenant's cache            *)
(* (PtvV11Adapter.searchOrganisations), as a whole.  Without a query the   *)
(* ids of the page asked for are read with fetchIdWindow.  With one, every *)
(* page of the catalogue is read (fetchAllPages: page 1, then the others   *)
(* through mapWithConcurrency) and its names are matched here.  Either     *)
(* way the organisations are then read by id, in batches (fetchListByIds), *)
(* and with a query the page asked for is cut out of them (paginate).      *)
(*                                                                         *)
(* PTV may know no organisation for an id of its catalogue: it leaves it   *)
(* out of the batch, or answers 404 when the batch has no other, which is  *)
(* an error here.  Any request may fail.                                   *)
(***************************************************************************)
EXTENDS IdWindow, WorkerPool, Filters

CONSTANTS
    Pages,          \* SearchParams.page
    Sizes,          \* SearchParams.pageSize
    BatchSize       \* how many ids a list request takes (100 in the code)

ASSUME SearchAssumption ==
    /\ Pages \subseteq Nat \ {0}
    /\ Sizes \subseteq Nat
    /\ BatchSize \in Nat \ {0}

VARIABLES
    query,      \* a query was given
    phase,      \* where the search is
    matching,   \* the ids of the catalogue whose names match
    wanted,     \* the ids to read the organisations of
    fetched,    \* how many of them were asked for
    wires,      \* the organisations PTV returned
    missing,    \* history: the ids asked for that it did not return
    items       \* the result

search == <<query, phase, matching, wanted, fetched, wires, missing, items>>
vars == <<windowVars, poolVars, search>>

-----------------------------------------------------------------------------
TypeOK ==
    /\ WindowTypeOK
    /\ PoolTypeOK
    /\ query \in BOOLEAN
    /\ phase \in {"window", "first", "rest", "list", "done", "failed"}
    /\ matching \subseteq 1..total
    /\ wanted \in Seq(1..total)
    /\ fetched \in 0..Len(wanted)
    /\ wires \subseteq 1..total
    /\ missing \subseteq 1..total
    /\ items \in Seq(1..total)

\* fetchAllPages will hand the pages after the first to the pool.
LaterPages == IF pageCount > 1 THEN pageCount - 1 ELSE 0

Init ==
    /\ ListInit
    /\ \E page \in Pages, size \in Sizes : start = (page - 1) * size /\ count = size
    /\ WindowBegins
    /\ query \in BOOLEAN
    /\ itemCount = IF query THEN LaterPages ELSE 0
    /\ PoolBegins
    /\ phase = IF query THEN "first" ELSE "window"
    /\ matching = {}
    /\ wanted = <<>>
    /\ fetched = 0
    /\ wires = {}
    /\ missing = {}
    /\ items = <<>>

-----------------------------------------------------------------------------
(* Without a query: the window's ids.                                       *)

ReadWindow ==
    /\ phase = "window"
    /\ WindowNext
    /\ UNCHANGED <<poolVars, search>>

WindowRead ==
    /\ phase = "window"
    /\ pc = "done"
    /\ wanted' = ids
    /\ phase' = "list"
    /\ UNCHANGED <<windowVars, poolVars, query, matching, fetched, wires, missing, items>>

-----------------------------------------------------------------------------
(* With a query: the catalogue.                                             *)

FirstPageRead ==
    /\ phase = "first"
    /\ phase' = "rest"
    /\ UNCHANGED <<windowVars, poolVars, query, matching, wanted, fetched, wires, missing, items>>

\* The pool's workers; after a failure they carry on, though nobody waits.
ReadLaterPage ==
    /\ query
    /\ phase # "first"
    /\ PoolNext
    /\ UNCHANGED <<windowVars, search>>

\* Page 1, and what the pool has read, in the order it keeps: its item i is
\* page i + 2.
Catalogue ==
    LET through[n \in 0..itemCount] ==
            IF n = 0 THEN PageIds(1)
                     ELSE through[n - 1] \o PageIds(results[n - 1] + 2)
    IN  through[itemCount]

\* The names are matched.
CatalogueRead ==
    /\ phase = "rest"
    /\ Resolved
    /\ matching' \in SUBSET (1..total)
    /\ wanted' = Filter(Catalogue, matching')
    /\ phase' = "list"
    /\ UNCHANGED <<windowVars, poolVars, query, fetched, wires, missing, items>>

-----------------------------------------------------------------------------
(* fetchListByIds.                                                          *)

Batch == {wanted[k] : k \in fetched + 1..Smaller(fetched + BatchSize, Len(wanted))}

\* One request: ids PTV does not return are dropped, the whole batch as well.
\* (PTV's 404 for a batch it finds none of is an error: SearchFails.)
ReadBatch ==
    /\ phase = "list"
    /\ fetched < Len(wanted)
    /\ \E returned \in SUBSET Batch :
          /\ wires' = wires \cup returned
          /\ missing' = missing \cup (Batch \ returned)
    /\ fetched' = Smaller(fetched + BatchSize, Len(wanted))
    /\ UNCHANGED <<windowVars, poolVars, query, phase, matching, wanted, items>>

\* paginate's slice.
PageOf(s) == SubSeq(s, start + 1, Smaller(start + count, Len(s)))

\* The organisations, in the order of the ids.
Answer ==
    /\ phase = "list"
    /\ fetched = Len(wanted)
    /\ LET found == Filter(wanted, wires)
       IN  items' = IF query THEN PageOf(found) ELSE found
    /\ phase' = "done"
    /\ UNCHANGED <<windowVars, poolVars, query, matching, wanted, fetched, wires, missing>>

\* A request failed, and the search with it.
SearchFails ==
    /\ \/ phase = "window" /\ pc = "failed"
       \/ phase = "first"
       \/ phase = "rest" /\ Rejected
       \/ phase = "list" /\ fetched < Len(wanted)
    /\ phase' = "failed"
    /\ UNCHANGED <<windowVars, poolVars, query, matching, wanted, fetched, wires, missing, items>>

Next ==
    \/ ReadWindow
    \/ WindowRead
    \/ FirstPageRead
    \/ ReadLaterPage
    \/ CatalogueRead
    \/ ReadBatch
    \/ Answer
    \/ SearchFails

Spec == Init /\ [][Next]_vars

\* Every request is answered, or fails, in the end.
FairSpec == Spec /\ WF_vars(Next)

-----------------------------------------------------------------------------
(* Properties.                                                              *)

\* The search answers with what PTV has for the page asked for: of its whole
\* list, the ids that match and that it returned, cut to the page; without a
\* query, those of the page that it returned.
SearchExact ==
    phase = "done" =>
        LET asked == IF query THEN matching
                     ELSE {k \in 1..total : start < k /\ k <= start + count}
            found == Filter([k \in 1..total |-> k], asked \ missing)
            from == IF query THEN start ELSE 0
            most == IF query THEN count ELSE total
            length == IF from < Len(found) THEN Smaller(most, Len(found) - from) ELSE 0
        IN  items = [k \in 1..length |-> found[from + k]]

\* The search and the id window it may be built on give exactly the page asked
\* for, and ask PTV for no page twice.
SearchIsExact ==
    /\ WindowExact
    /\ NoPageTwice
    /\ SearchExact

\* A search ends, whatever the list, the page and the failures.
SearchEnds == <>(phase \in {"done", "failed"})

=============================================================================
