----------------------------- MODULE WorkerPool -----------------------------
(***************************************************************************)
(* mapWithConcurrency (ptv/http.ts): `Promise.all(items.map(fn))' with a   *)
(* bounded number of calls in flight.  Workers take the next index each,   *)
(* call fn, store the result at that index, and go on.  Once a call fails  *)
(* the whole fails, but the other workers carry on with what is left.      *)
(* (Between storing a result and taking the next index a worker awaits     *)
(* nothing; that others may step in between here only adds behaviours.)    *)
(*                                                                         *)
(* Promise.all settles at the first failure, or when every worker is done. *)
(***************************************************************************)
EXTENDS Naturals, FiniteSets

CONSTANTS
    Concurrency,    \* the most calls in flight
    Failing,        \* the indices whose call may fail
    NoResult        \* what an array element holds before it is set

ASSUME PoolAssumption ==
    /\ Concurrency \in Nat \ {0}
    /\ Failing \subseteq Nat
    /\ NoResult \notin Nat

VARIABLES
    itemCount,  \* items.length
    next,       \* the next index to take
    worker,     \* worker[w]: the index it is at, or how it ended
    results,    \* results[i]: the item that results[i] was made from
    called      \* history: called[i], how often fn was called for item i

poolVars == <<itemCount, next, worker, results, called>>

-----------------------------------------------------------------------------
Items == 0..itemCount - 1

\* As many workers as calls may be in flight, and no more than there are items.
Workers == 1..(IF Concurrency < itemCount THEN Concurrency ELSE itemCount)

Running(w) == worker[w].pc = "running"

PoolTypeOK ==
    /\ itemCount \in Nat
    /\ next \in Nat
    /\ worker \in [Workers -> [pc : {"idle", "running", "done", "failed"},
                               at : Items]]
    /\ results \in [Items -> Items \cup {NoResult}]
    /\ called \in [Items -> Nat]

\* Nothing has run yet: the workers start one by one, in the same turn.
PoolBegins ==
    /\ next = 0
    /\ worker = [w \in Workers |-> [pc |-> "idle", at |-> 0]]
    /\ results = [i \in Items |-> NoResult]
    /\ called = [i \in Items |-> 0]

PoolInit == itemCount \in Nat /\ PoolBegins

\* const index = next++; fn(items[index])
Take(w) ==
    /\ worker[w].pc = "idle"
    /\ next < itemCount
    /\ next' = next + 1
    /\ worker' = [worker EXCEPT ![w] = [pc |-> "running", at |-> next]]
    /\ called' = [called EXCEPT ![next] = @ + 1]
    /\ UNCHANGED <<itemCount, results>>

\* As when the index were read after the await.
MutStore(w) ==
    /\ Running(w)
    /\ results' = [results EXCEPT ![next - 1] = worker[w].at]
    /\ worker' = [worker EXCEPT ![w].pc = "idle"]
    /\ UNCHANGED <<itemCount, next, called>>

\* results[index] = await fn(items[index])
Store(w) ==
    /\ Running(w)
    /\ results' = [results EXCEPT ![worker[w].at] = worker[w].at]
    /\ worker' = [worker EXCEPT ![w].pc = "idle"]
    /\ UNCHANGED <<itemCount, next, called>>

\* The call fails: this worker ends, the others do not hear of it.
CallFails(w) ==
    /\ Running(w)
    /\ worker[w].at \in Failing
    /\ worker' = [worker EXCEPT ![w].pc = "failed"]
    /\ UNCHANGED <<itemCount, next, results, called>>

\* while (next < items.length) ends.
Finish(w) ==
    /\ worker[w].pc = "idle"
    /\ itemCount <= next
    /\ worker' = [worker EXCEPT ![w].pc = "done"]
    /\ UNCHANGED <<itemCount, next, results, called>>

Work(w) == Take(w) \/ Store(w) \/ CallFails(w) \/ Finish(w)

PoolNext == \E w \in Workers : Work(w)

PoolSpec == PoolInit /\ [][PoolNext]_poolVars

-----------------------------------------------------------------------------
(* Properties.                                                              *)

Resolved == \A w \in Workers : worker[w].pc = "done"
Rejected == \E w \in Workers : worker[w].pc = "failed"

\* No item is handed to two workers, although they share the counter.
CalledAtMostOnce == \A i \in Items : called[i] <= 1

\* Results keep the order of the items, in whatever order the calls return,
\* and the promise resolves only when there is one for every item.
ResultsInOrder ==
    /\ \A i \in Items : results[i] \in {NoResult, i}
    /\ Resolved => \A i \in Items : results[i] = i

\* mapWithConcurrency maps: one call and one result per item, in order.
MapsInOrder ==
    /\ CalledAtMostOnce
    /\ ResultsInOrder

=============================================================================
