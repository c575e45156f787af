------------------------------ MODULE IdWindow ------------------------------
(***************************************************************************)
(* fetchIdWindow (ptv/v11/pagination.ts): the ids of a window of a PTV v11 *)
(* list, read from pages whose size PTV fixes and which the window does    *)
(* not line up with.  Any request for a page may fail.                     *)
(***************************************************************************)
EXTENDS PtvList

VARIABLES
    start, count,                   \* the window asked for
    pc,
    v11Page, offsetInPage,
    hasPage,                        \* pageResult is defined
    ids,
    requested                       \* history: the pages requested, in order

input == <<list, start, count>>
windowVars == <<input, pc, v11Page, offsetInPage, hasPage, ids, requested>>

-----------------------------------------------------------------------------
WindowTypeOK ==
    /\ total \in Totals /\ pageSize \in PageSizes /\ pageCount \in Nat
    /\ start \in Nat /\ count \in Int
    /\ pc \in {"begin", "loop", "done", "failed"}
    /\ v11Page \in Nat \ {0}
    /\ offsetInPage \in 0..pageSize - 1
    /\ hasPage \in BOOLEAN
    /\ ids \in Seq(Nat)
    /\ requested \in Seq(Nat \ {0})

\* The call's local state.
WindowBegins ==
    /\ pc = "begin"
    /\ v11Page = 1
    /\ offsetInPage = 0
    /\ hasPage = FALSE
    /\ ids = <<>>
    /\ requested = <<>>

WindowInit == ListInit /\ start \in Nat /\ count \in Int /\ WindowBegins

\* How many ids of page p there are from offset on, at most limit.
SliceLength(p, offset, limit) ==
    IF offset < PageLength(p) THEN Smaller(limit, PageLength(p) - offset) ELSE 0

MutSlice(p, offset, limit) ==
    [k \in 1..SliceLength(p, 0, limit) |-> (p - 1) * pageSize + k]

Slice(p, offset, limit) ==
    [k \in 1..SliceLength(p, offset, limit) |-> (p - 1) * pageSize + offset + k]

\* Nothing is asked for.
NothingAsked ==
    /\ pc = "begin"
    /\ count <= 0
    /\ pc' = "done"
    /\ UNCHANGED <<input, v11Page, offsetInPage, hasPage, ids, requested>>

\* Page 1 tells the page size, and is used if the window starts in it.
FetchFirst ==
    /\ pc = "begin"
    /\ count > 0
    /\ requested' = <<1>>
    /\ v11Page' = start \div pageSize + 1
    /\ offsetInPage' = start - (v11Page' - 1) * pageSize
    /\ hasPage' = (v11Page' = 1)
    /\ pc' = "loop"
    /\ UNCHANGED <<input, ids>>

FetchPage ==
    /\ pc = "loop"
    /\ ~hasPage
    /\ requested' = Append(requested, v11Page)
    /\ hasPage' = TRUE
    /\ UNCHANGED <<input, pc, v11Page, offsetInPage, ids>>

\* As when the last page ended the loop only if it had ids to give.
MutTakeSlice ==
    /\ pc = "loop"
    /\ hasPage
    /\ ids' = ids \o Slice(v11Page, offsetInPage, count - Len(ids))
    /\ IF Len(ids') >= count \/ (v11Page >= pageCount /\ ids' # ids)
       THEN pc' = "done" /\ UNCHANGED <<v11Page, offsetInPage, hasPage>>
       ELSE IF v11Page >= pageCount
       THEN UNCHANGED <<pc, v11Page, offsetInPage, hasPage>>
       ELSE /\ v11Page' = v11Page + 1
            /\ offsetInPage' = 0
            /\ hasPage' = FALSE
            /\ UNCHANGED pc
    /\ UNCHANGED <<input, requested>>

\* Takes what the page has of the window, and goes on to the next page
\* unless the window is full or the pages are at their end.
TakeSlice ==
    /\ pc = "loop"
    /\ hasPage
    /\ ids' = ids \o Slice(v11Page, offsetInPage, count - Len(ids))
    /\ IF v11Page >= pageCount \/ Len(ids') >= count
       THEN pc' = "done" /\ UNCHANGED <<v11Page, offsetInPage, hasPage>>
       ELSE /\ v11Page' = v11Page + 1
            /\ offsetInPage' = 0
            /\ hasPage' = FALSE
            /\ UNCHANGED pc
    /\ UNCHANGED <<input, requested>>

\* A request fails, and the whole with it.
WindowFails ==
    /\ \/ pc = "begin" /\ count > 0
       \/ pc = "loop" /\ ~hasPage
    /\ pc' = "failed"
    /\ UNCHANGED <<input, v11Page, offsetInPage, hasPage, ids, requested>>

WindowNext == NothingAsked \/ FetchFirst \/ FetchPage \/ TakeSlice \/ WindowFails

WindowSpec == WindowInit /\ [][WindowNext]_windowVars

-----------------------------------------------------------------------------
(* Properties.                                                              *)

\* How many ids the window has.
WindowLength ==
    IF count <= 0 \/ start >= total THEN 0 ELSE Smaller(count, total - start)

\* "exactly the requested ids": those at start + 1, start + 2, ..., however
\* the window lies across PTV's pages, and also past the end of the list.
WindowExact ==
    pc = "done" => ids = [k \in 1..WindowLength |-> start + k]

\* No page is requested twice ("Reuse the already-fetched first page").
NoPageTwice ==
    \A m, n \in 1..Len(requested) : m # n => requested[m] # requested[n]

=============================================================================
