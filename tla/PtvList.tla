------------------------------- MODULE PtvList -------------------------------
(***************************************************************************)
(* A list of PTV v11, as the code in ptv/v11/pagination.ts reads it: ids   *)
(* in pages whose size PTV fixes.  The id at position k is k.  External:   *)
(* the list does not change while it is read, a page past the last one has *)
(* no items, and an empty list has one page or none.                       *)
(***************************************************************************)
EXTENDS Integers, Sequences

CONSTANTS
    Totals,         \* how many ids the list may have
    PageSizes       \* the page sizes PTV may use

ASSUME ListAssumption == Totals \subseteq Nat /\ PageSizes \subseteq Nat \ {0}

VARIABLES total, pageSize, pageCount

list == <<total, pageSize, pageCount>>

\* How many pages PTV says the list has.
IsPageCount(n) ==
    IF total = 0 THEN n \in {0, 1}
                 ELSE (n - 1) * pageSize < total /\ total <= n * pageSize

ListInit ==
    /\ total \in Totals
    /\ pageSize \in PageSizes
    /\ pageCount \in {n \in 0..total + 1 : IsPageCount(n)}

Smaller(a, b) == IF a < b THEN a ELSE b

\* How many ids page p has.
PageLength(p) ==
    IF p * pageSize <= total THEN pageSize
    ELSE IF (p - 1) * pageSize < total THEN total - (p - 1) * pageSize
    ELSE 0

\* The ids of page p.
PageIds(p) == [k \in 1..PageLength(p) |-> (p - 1) * pageSize + k]

=============================================================================
