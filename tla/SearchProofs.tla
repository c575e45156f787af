---------------------------- MODULE SearchProofs ----------------------------
(***************************************************************************)
(* A search answers with exactly the page asked for, for every list, every *)
(* size of PTV's pages and every page of the search; the window of ids and *)
(* the pool it is built on keep what they promise.  The first sections are *)
(* about what they compute: how Filter, the catalogue and PTV's pages take *)
(* a list apart and put it together.                                       *)
(***************************************************************************)
EXTENDS OrganisationSearch, WellFoundedInduction, TLAPS

-----------------------------------------------------------------------------
(* Induction, as the library's least-element principle for sets gives it.   *)

Less == {p \in Nat \X Nat : p[1] < p[2]}

LEMMA LessWellFounded == IsWellFoundedOn(Less, Nat)
<1>1. OpToRel(<, Nat) = Less
  BY DEF OpToRel, Less
<1> QED
  BY <1>1, NatLessThanWellFounded

\* A set of numbers that has 0, and with each number up to m the next, has all
\* of them up to m.
LEMMA Induction ==
  ASSUME NEW m \in Nat, NEW S, 0 \in S,
         \A n \in Nat : n < m /\ n \in S => n + 1 \in S
  PROVE  0..m \subseteq S
<1> SUFFICES ASSUME 0..m \ S # {} PROVE FALSE
  OBVIOUS
<1> DEFINE T == 0..m \ S
<1>1. PICK n \in T : \A k \in T : <<k, n>> \notin Less
  <2>1. T \subseteq Nat /\ T # {}
    OBVIOUS
  <2> HIDE DEF T
  <2> QED
    BY WFMin, LessWellFounded, <2>1
<1>2. n \in Nat /\ n # 0 /\ n <= m
  BY <1>1
<1>3. n - 1 \in S
  <2>1. n - 1 \in 0..m /\ <<n - 1, n>> \in Less
    BY <1>2 DEF Less
  <2> QED
    BY <1>1, <2>1
<1>4. (n - 1) + 1 \in S
  BY <1>2, <1>3
<1> QED
  BY <1>1, <1>2, <1>4

\* A function that is given at 0 and, at i, by what it is at i - 1, exists.
Steps(V, m) == [1..m -> [V -> V]]
Follows(g, v, m, D) == g[0] = v /\ \A i \in 1..m : g[i] = D[i][g[i - 1]]

LEMMA RecursionExists ==
  ASSUME NEW V, NEW v \in V, NEW m \in Nat, NEW D \in Steps(V, m)
  PROVE  \E g \in [0..m -> V] : Follows(g, v, m, D)
<1> USE DEF Steps
<1> DEFINE Good(n, g) == g = [i \in 0..n |-> IF i = 0 THEN v ELSE D[i][g[i - 1]]]
           S == {n \in 0..m : \E g \in [0..n -> V] : Good(n, g)}
<1>1. 0 \in S
  <2>1. [i \in 0..0 |-> v] \in [0..0 -> V] /\ Good(0, [i \in 0..0 |-> v])
    OBVIOUS
  <2> HIDE DEF Good
  <2> QED
    BY <2>1
<1>2. ASSUME NEW n \in Nat, n < m, n \in S PROVE n + 1 \in S
  <2>1. PICK g \in [0..n -> V] : Good(n, g)
    BY <1>2
  <2> DEFINE h == [i \in 0..n + 1 |-> IF i = n + 1 THEN D[n + 1][g[n]] ELSE g[i]]
  <2>2. D[n + 1] \in [V -> V] /\ g[n] \in V
    BY <1>2
  <2>3. h \in [0..n + 1 -> V]
    BY <2>2
  <2>4. Good(n + 1, h)
    <3>1. ASSUME NEW i \in 0..n + 1 PROVE h[i] = IF i = 0 THEN v ELSE D[i][h[i - 1]]
      <4>1. CASE i = n + 1
        BY <4>1
      <4>2. CASE i # n + 1
        <5>1. i \in 0..n /\ h[i] = g[i]
          BY <4>2
        <5>2. i # 0 => h[i - 1] = g[i - 1]
          BY <5>1
        <5>3. g[i] = IF i = 0 THEN v ELSE D[i][g[i - 1]]
          BY <2>1, <5>1
        <5> QED
          BY <5>1, <5>2, <5>3
      <4> QED
        BY <4>1, <4>2
    <3> QED
      BY <3>1
  <2> HIDE DEF Good, h
  <2> QED
    BY <2>3, <2>4, <1>2
<1>3. m \in S
  <2> HIDE DEF S
  <2>1. \A n \in Nat : n < m /\ n \in S => n + 1 \in S
    BY <1>2
  <2>2. 0..m \subseteq S
    BY <1>1, <2>1, Induction
  <2> QED
    BY <2>2
<1> QED
  BY <1>3 DEF Follows

-----------------------------------------------------------------------------
(* Filter.                                                                  *)

\* What Filter has after each entry.
Keeps(g, s, T) ==
  /\ Filter(s, T) = g[Len(s)]
  /\ g[0] = <<>>
  /\ \A n \in 1..Len(s) : g[n] = IF s[n] \in T THEN Append(g[n - 1], s[n]) ELSE g[n - 1]

LEMMA FilterGoesThrough ==
  ASSUME NEW V, NEW s \in Seq(V), NEW T
  PROVE  \E g \in [0..Len(s) -> Seq(V)] : Keeps(g, s, T)
<1> DEFINE D == [n \in 1..Len(s) |->
                   [q \in Seq(V) |-> IF s[n] \in T THEN Append(q, s[n]) ELSE q]]
           Body(g) == [n \in 0..Len(s) |->
                         IF n = 0 THEN <<>>
                         ELSE IF s[n] \in T THEN Append(g[n - 1], s[n]) ELSE g[n - 1]]
           upTo == CHOOSE g : g = Body(g)
<1>1. D \in [1..Len(s) -> [Seq(V) -> Seq(V)]]
  OBVIOUS
<1>2. PICK g \in [0..Len(s) -> Seq(V)] :
        g[0] = <<>> /\ \A n \in 1..Len(s) : g[n] = D[n][g[n - 1]]
  <2> DEFINE W == Seq(V)  m == Len(s)  E == <<>>
  <2>1. m \in Nat /\ E \in W /\ D \in Steps(W, m)
    BY <1>1 DEF Steps
  <2>2. \E g \in [0..m -> W] : Follows(g, E, m, D)
    <3> HIDE DEF W, m, E, D, Body, upTo
    <3> QED
      BY <2>1, RecursionExists
  <2> QED
    BY <2>2 DEF Follows
<1>3. ASSUME NEW n \in 0..Len(s)
      PROVE  g[n] = IF n = 0 THEN <<>>
                    ELSE IF s[n] \in T THEN Append(g[n - 1], s[n]) ELSE g[n - 1]
  <2>1. CASE n = 0
    BY <1>2, <2>1
  <2>2. CASE n # 0
    <3>1. n \in 1..Len(s) /\ n - 1 \in 0..Len(s)
      BY <2>2
    <3>2. g[n] = D[n][g[n - 1]] /\ g[n - 1] \in Seq(V)
      <4> HIDE DEF D
      <4> QED
        BY <1>2, <2>2, <3>1
    <3>3. D[n] = [q \in Seq(V) |-> IF s[n] \in T THEN Append(q, s[n]) ELSE q]
      BY <3>1
    <3> HIDE DEF D
    <3> QED
      BY <2>2, <3>2, <3>3
  <2> QED
    BY <2>1, <2>2
<1>4. g = Body(g)
  BY <1>2, <1>3
<1>5. upTo = Body(upTo)
  <2> HIDE DEF Body
  <2> QED
    BY <1>4
<1>6. Filter(s, T) = upTo[Len(s)]
  BY DEF Filter
<1>7. \A n \in 0..Len(s) : upTo[n] = g[n]
  <2> DEFINE S == {n \in 0..Len(s) : upTo[n] = g[n]}
  <2> HIDE DEF upTo
  <2>1. 0 \in S
    BY <1>2, <1>5
  <2>2. ASSUME NEW n \in Nat, n < Len(s), n \in S PROVE n + 1 \in S
    <3>1. n + 1 \in 0..Len(s) /\ (n + 1) - 1 = n /\ n + 1 # 0 /\ upTo[n] = g[n]
      BY <2>2
    <3>2. upTo[n + 1] = IF s[n + 1] \in T THEN Append(upTo[n], s[n + 1]) ELSE upTo[n]
      BY <1>5, <3>1
    <3>3. g[n + 1] = IF s[n + 1] \in T THEN Append(g[n], s[n + 1]) ELSE g[n]
      BY <1>3, <3>1
    <3> QED
      BY <3>1, <3>2, <3>3
  <2>3. 0..Len(s) \subseteq S
    <3>1. \A n \in Nat : n < Len(s) /\ n \in S => n + 1 \in S
      BY <2>2
    <3>2. Len(s) \in Nat
      OBVIOUS
    <3> HIDE DEF S
    <3> QED
      BY <2>1, <3>1, <3>2, Induction
  <2> QED
    BY <2>3
<1>8. Len(s) \in 0..Len(s) /\ 0 \in 0..Len(s) /\ \A n \in 1..Len(s) : n \in 0..Len(s) /\ n # 0
  OBVIOUS
<1> HIDE DEF upTo, Body
<1>9. Filter(s, T) = g[Len(s)]
  BY <1>6, <1>7, <1>8
<1> QED
  BY <1>3, <1>8, <1>9 DEF Keeps

LEMMA FilterType ==
  ASSUME NEW V, NEW s \in Seq(V), NEW T
  PROVE  Filter(s, T) \in Seq(V)
<1>1. PICK g \in [0..Len(s) -> Seq(V)] : Keeps(g, s, T)
  BY FilterGoesThrough
<1> QED
  BY <1>1 DEF Keeps

LEMMA FilterOfNone == ASSUME NEW T PROVE Filter(<<>>, T) = <<>>
<1> DEFINE s == <<>>
<1>1. s \in Seq({}) /\ Len(s) = 0
  OBVIOUS
<1>2. PICK g \in [0..Len(s) -> Seq({})] : Keeps(g, s, T)
  <2> HIDE DEF s
  <2> QED
    BY <1>1, FilterGoesThrough
<1> QED
  BY <1>2 DEF Keeps

\* One more entry is kept, or not, after what is kept of the others.
LEMMA FilterOfAppend ==
  ASSUME NEW V, NEW s \in Seq(V), NEW e \in V, NEW T
  PROVE  Filter(Append(s, e), T)
           = IF e \in T THEN Append(Filter(s, T), e) ELSE Filter(s, T)
<1> DEFINE t == Append(s, e)
           m == Len(s)
<1>1. /\ t \in Seq(V) /\ Len(t) = m + 1 /\ m \in Nat /\ t[m + 1] = e
      /\ \A n \in 1..m : t[n] = s[n]
  OBVIOUS
<1>2. PICK g \in [0..Len(s) -> Seq(V)] : Keeps(g, s, T)
  BY FilterGoesThrough
<1>3. PICK h \in [0..Len(t) -> Seq(V)] : Keeps(h, t, T)
  <2> HIDE DEF t
  <2> QED
    BY <1>1, FilterGoesThrough
<1> HIDE DEF t, m
<1> USE DEF Keeps
<1> DEFINE S == {n \in 0..m : h[n] = g[n]}
<1>4. 0 \in S
  BY <1>1, <1>2, <1>3
<1>5. ASSUME NEW n \in Nat, n < m, n \in S PROVE n + 1 \in S
  <2>1. /\ n + 1 \in 0..m /\ n + 1 \in 1..m /\ n + 1 \in 1..Len(t)
        /\ (n + 1) - 1 = n /\ h[n] = g[n] /\ t[n + 1] = s[n + 1]
    BY <1>1, <1>5
  <2>2. g[n + 1] = IF s[n + 1] \in T THEN Append(g[n], s[n + 1]) ELSE g[n]
    BY <1>2, <2>1 DEF m
  <2>3. h[n + 1] = IF s[n + 1] \in T THEN Append(h[n], s[n + 1]) ELSE h[n]
    BY <1>3, <2>1
  <2> QED
    BY <2>1, <2>2, <2>3
<1>6. h[m] = g[m]
  <2>1. \A n \in Nat : n < m /\ n \in S => n + 1 \in S
    BY <1>5
  <2>2. 0..m \subseteq S
    <3> HIDE DEF S
    <3> QED
      BY <1>1, <1>4, <2>1, Induction
  <2> QED
    BY <1>1, <2>2
<1>7. Filter(t, T) = IF e \in T THEN Append(h[m], e) ELSE h[m]
  <2>1. m + 1 \in 1..Len(t) /\ (m + 1) - 1 = m
    BY <1>1
  <2> QED
    BY <1>1, <1>3, <2>1
<1> QED
  BY <1>2, <1>6, <1>7 DEF m, t

-----------------------------------------------------------------------------
(* The ids in order.                                                        *)

\* The n ids after the first s.
After(s, n) == [k \in 1..n |-> s + k]
Ids(n) == [k \in 1..n |-> k]

LEMMA AfterAppend ==
  ASSUME NEW s \in Nat, NEW n \in Nat
  PROVE  /\ After(s, n) \in Seq(Nat)
         /\ Len(After(s, n)) = n
         /\ Append(After(s, n), s + n + 1) = After(s, n + 1)
         /\ After(s, 0) = <<>>
BY DEF After

LEMMA IdsAppend ==
  ASSUME NEW n \in Nat
  PROVE  /\ Ids(n) \in Seq(Nat) /\ Ids(n) \in Seq(1..n)
         /\ Len(Ids(n)) = n
         /\ Append(Ids(n), n + 1) = Ids(n + 1)
         /\ Ids(0) = <<>>
         /\ Ids(n) = After(0, n)
BY DEF After, Ids

LEMMA AfterJoins ==
  ASSUME NEW s \in Nat, NEW a \in Nat, NEW b \in Nat
  PROVE  After(s, a) \o After(s + a, b) = After(s, a + b)
BY DEF After

\* f lists the ids of T up to n in order.
Lists(f, n, T) ==
  /\ f \in Seq(1..n)
  /\ Len(f) <= n
  /\ \A j, k \in 1..Len(f) : j < k => f[j] < f[k]
  /\ \A i \in 1..n : i \in T <=> \E k \in 1..Len(f) : f[k] = i

\* Two lists of what has been taken out so far, one entry longer.
LEMMA ListsNext ==
  ASSUME NEW n \in Nat, NEW T, NEW f, Lists(f, n, T)
  PROVE  Lists(IF n + 1 \in T THEN Append(f, n + 1) ELSE f, n + 1, T)
<1>1. /\ f \in Seq(1..n + 1) /\ f \in Seq(Nat) /\ Len(f) \in Nat
      /\ \A k \in 1..Len(f) : f[k] \in Nat /\ f[k] <= n
  BY DEF Lists
<1>2. CASE n + 1 \notin T
  <2>1. ASSUME NEW i \in 1..n + 1
        PROVE  i \in T <=> \E k \in 1..Len(f) : f[k] = i
    <3>1. CASE i = n + 1
      BY <1>1, <1>2, <3>1
    <3>2. CASE i # n + 1
      BY <3>2 DEF Lists
    <3> QED
      BY <3>1, <3>2
  <2> QED
    BY <1>1, <1>2, <2>1 DEF Lists
<1>3. CASE n + 1 \in T
  <2> DEFINE g == Append(f, n + 1)
  <2>1. /\ g \in Seq(1..n + 1) /\ Len(g) = Len(f) + 1 /\ g[Len(f) + 1] = n + 1
        /\ \A k \in 1..Len(f) : g[k] = f[k]
    BY <1>1
  <2> HIDE DEF g
  <2>2. ASSUME NEW j \in 1..Len(g), NEW k \in 1..Len(g), j < k PROVE g[j] < g[k]
    <3>1. j \in 1..Len(f)
      BY <1>1, <2>1, <2>2
    <3>2. CASE k = Len(f) + 1
      <4>1. f[j] \in Nat /\ f[j] <= n
        BY <1>1, <3>1
      <4>2. g[j] = f[j] /\ g[k] = n + 1
        BY <2>1, <3>1, <3>2
      <4> QED
        BY <4>1, <4>2
    <3>3. CASE k # Len(f) + 1
      <4>1. k \in 1..Len(f)
        BY <1>1, <2>1, <3>3
      <4> QED
        BY <2>1, <2>2, <3>1, <4>1 DEF Lists
    <3> QED
      BY <3>2, <3>3
  <2>3. ASSUME NEW i \in 1..n + 1
        PROVE  i \in T <=> \E k \in 1..Len(g) : g[k] = i
    <3>1. CASE i = n + 1
      <4>1. Len(f) + 1 \in 1..Len(g)
        BY <1>1, <2>1
      <4> QED
        BY <1>3, <2>1, <3>1, <4>1
    <3>2. CASE i # n + 1
      <4>1. i \in 1..n
        BY <3>2
      <4>2. ASSUME NEW k \in 1..Len(g), g[k] = i PROVE k \in 1..Len(f) /\ f[k] = i
        BY <1>1, <2>1, <3>2, <4>2
      <4>3. ASSUME NEW k \in 1..Len(f), f[k] = i PROVE k \in 1..Len(g) /\ g[k] = i
        BY <1>1, <2>1, <4>3
      <4> QED
        BY <4>1, <4>2, <4>3 DEF Lists
    <3> QED
      BY <3>1, <3>2
  <2>4. Len(g) <= n + 1
    BY <1>1, <2>1 DEF Lists
  <2> QED
    BY <1>3, <2>1, <2>2, <2>3, <2>4 DEF Lists, g
<1> QED
  BY <1>2, <1>3

\* One more id is kept or not.
LEMMA FilterNextId ==
  ASSUME NEW n \in Nat, NEW T
  PROVE  Filter(Ids(n + 1), T)
           = IF n + 1 \in T THEN Append(Filter(Ids(n), T), n + 1) ELSE Filter(Ids(n), T)
<1>1. Ids(n) \in Seq(Nat) /\ Append(Ids(n), n + 1) = Ids(n + 1)
  BY IdsAppend, Zenon
<1>2. Filter(Append(Ids(n), n + 1), T)
        = IF n + 1 \in T THEN Append(Filter(Ids(n), T), n + 1) ELSE Filter(Ids(n), T)
  <2>1. n + 1 \in Nat
    OBVIOUS
  <2> QED
    BY <1>1, <2>1, FilterOfAppend, Zenon
<1> QED
  BY <1>1, <1>2

LEMMA FilterNoIds == ASSUME NEW T PROVE Filter(Ids(0), T) = <<>>
BY IdsAppend, FilterOfNone

\* Filtering the ids lists those of the set.
LEMMA FilteredIds ==
  ASSUME NEW m \in Nat, NEW T
  PROVE  Lists(Filter(Ids(m), T), m, T)
<1> DEFINE S == {n \in 0..m : Lists(Filter(Ids(n), T), n, T)}
<1>1. 0 \in S
  <2>1. Lists(<<>>, 0, T)
    BY DEF Lists
  <2> QED
    BY <2>1, FilterNoIds
<1>2. ASSUME NEW n \in Nat, n < m, n \in S PROVE n + 1 \in S
  <2>1. Lists(Filter(Ids(n), T), n, T)
    BY <1>2
  <2>2. Lists(Filter(Ids(n + 1), T), n + 1, T)
    BY <2>1, ListsNext, FilterNextId
  <2> QED
    BY <1>2, <2>2
<1>3. 0..m \subseteq S
  <2>1. \A n \in Nat : n < m /\ n \in S => n + 1 \in S
    BY <1>2
  <2> HIDE DEF S
  <2> QED
    BY <1>1, <2>1, Induction
<1> QED
  BY <1>3

\* Only what the set has of the ids matters.
LEMMA FilterDependsOnIds ==
  ASSUME NEW m \in Nat, NEW A, NEW B, A \cap 1..m = B \cap 1..m
  PROVE  Filter(Ids(m), A) = Filter(Ids(m), B)
<1> DEFINE S == {n \in 0..m : Filter(Ids(n), A) = Filter(Ids(n), B)}
<1>1. 0 \in S
  BY FilterNoIds
<1>2. ASSUME NEW n \in Nat, n < m, n \in S PROVE n + 1 \in S
  <2>1. n + 1 \in A <=> n + 1 \in B
    <3>1. n + 1 \in 1..m
      BY <1>2
    <3> QED
      BY <3>1
  <2>2. Filter(Ids(n), A) = Filter(Ids(n), B)
    BY <1>2
  <2> QED
    BY <1>2, <2>1, <2>2, FilterNextId
<1>3. 0..m \subseteq S
  <2>1. \A n \in Nat : n < m /\ n \in S => n + 1 \in S
    BY <1>2
  <2> HIDE DEF S
  <2> QED
    BY <1>1, <2>1, Induction
<1> QED
  BY <1>3

\* Filtering twice is filtering by what is in both.
LEMMA FilterTwice ==
  ASSUME NEW m \in Nat, NEW A, NEW B
  PROVE  Filter(Filter(Ids(m), A), B) = Filter(Ids(m), A \cap B)
<1> DEFINE S == {n \in 0..m : Filter(Filter(Ids(n), A), B) = Filter(Ids(n), A \cap B)}
<1>1. 0 \in S
  BY FilterNoIds, FilterOfNone
<1>2. ASSUME NEW n \in Nat, n < m, n \in S PROVE n + 1 \in S
  <2> DEFINE f == Filter(Ids(n), A)
  <2>1. Filter(f, B) = Filter(Ids(n), A \cap B)
    BY <1>2
  <2>2. f \in Seq(Nat) /\ n + 1 \in Nat
    BY FilterType, IdsAppend
  <2>3. Filter(Append(f, n + 1), B)
          = IF n + 1 \in B THEN Append(Filter(f, B), n + 1) ELSE Filter(f, B)
    <3>1. \A q \in Seq(Nat), e \in Nat :
            Filter(Append(q, e), B) = IF e \in B THEN Append(Filter(q, B), e) ELSE Filter(q, B)
      BY FilterOfAppend
    <3> HIDE DEF f
    <3> QED
      BY <2>2, <3>1
  <2>4. Filter(Ids(n + 1), A) = IF n + 1 \in A THEN Append(f, n + 1) ELSE f
    BY FilterNextId
  <2>5. Filter(Ids(n + 1), A \cap B)
          = IF n + 1 \in A \cap B THEN Append(Filter(Ids(n), A \cap B), n + 1)
                                ELSE Filter(Ids(n), A \cap B)
    BY FilterNextId
  <2> HIDE DEF f
  <2>6. Filter(Filter(Ids(n + 1), A), B) = Filter(Ids(n + 1), A \cap B)
    <3>1. CASE n + 1 \in A
      <4>1. Filter(Filter(Ids(n + 1), A), B) = Filter(Append(f, n + 1), B)
        BY <2>4, <3>1, Zenon
      <4>2. n + 1 \in A \cap B <=> n + 1 \in B
        BY <3>1
      <4> QED
        BY <2>1, <2>3, <2>5, <4>1, <4>2, Zenon
    <3>2. CASE n + 1 \notin A
      BY <2>1, <2>4, <2>5, <3>2
    <3> QED
      BY <3>1, <3>2
  <2> QED
    BY <1>2, <2>6
<1>3. 0..m \subseteq S
  <2>1. \A n \in Nat : n < m /\ n \in S => n + 1 \in S
    BY <1>2
  <2> HIDE DEF S
  <2> QED
    BY <1>1, <2>1, Induction
<1> QED
  BY <1>3

\* How many ids there are after the first s, c at most, in a list of n.
Within(s, c, n) == IF c <= 0 \/ s >= n THEN 0 ELSE Smaller(c, n - s)

\* Filtering by a stretch of ids gives them one after the other.
LEMMA FilterStretch ==
  ASSUME NEW m \in Nat, NEW s \in Nat, NEW c \in Int
  PROVE  Filter(Ids(m), {k \in 1..m : s < k /\ k <= s + c}) = After(s, Within(s, c, m))
<1> DEFINE T == {k \in 1..m : s < k /\ k <= s + c}
           S == {n \in 0..m : Filter(Ids(n), T) = After(s, Within(s, c, n))}
<1>1. 0 \in S
  <2>1. Within(s, c, 0) = 0
    BY DEF Within
  <2> QED
    BY <2>1, FilterNoIds, AfterAppend
<1>2. ASSUME NEW n \in Nat, n < m, n \in S PROVE n + 1 \in S
  <2> DEFINE w == Within(s, c, n)
  <2>1. w \in Nat /\ Filter(Ids(n), T) = After(s, w)
    BY <1>2 DEF Within, Smaller
  <2>2. Filter(Ids(n + 1), T)
          = IF n + 1 \in T THEN Append(Filter(Ids(n), T), n + 1) ELSE Filter(Ids(n), T)
    <3> HIDE DEF T
    <3> QED
      BY <1>2, FilterNextId
  <2>3. Append(After(s, w), s + w + 1) = After(s, w + 1)
    <3> HIDE DEF w
    <3> QED
      BY <2>1, AfterAppend
  <2>4. CASE n + 1 \in T
    <3>1. s + w + 1 = n + 1 /\ Within(s, c, n + 1) = w + 1
      BY <1>2, <2>4 DEF Within, Smaller
    <3> HIDE DEF w, T
    <3>2. Filter(Ids(n + 1), T) = After(s, Within(s, c, n + 1))
      BY <2>1, <2>2, <2>3, <2>4, <3>1, Zenon
    <3> QED
      BY <1>2, <3>2
  <2>5. CASE n + 1 \notin T
    <3>1. Within(s, c, n + 1) = w
      BY <1>2, <2>5 DEF Within, Smaller
    <3> HIDE DEF w, T
    <3>2. Filter(Ids(n + 1), T) = After(s, Within(s, c, n + 1))
      BY <2>1, <2>2, <2>5, <3>1, Zenon
    <3> QED
      BY <1>2, <3>2
  <2> QED
    BY <2>4, <2>5
<1>3. 0..m \subseteq S
  <2>1. \A n \in Nat : n < m /\ n \in S => n + 1 \in S
    BY <1>2
  <2> HIDE DEF S
  <2> QED
    BY <1>1, <2>1, Induction
<1>4. m \in S
  <2> HIDE DEF S
  <2> QED
    BY <1>3
<1> QED
  BY <1>4

-----------------------------------------------------------------------------
(* Pages.                                                                   *)

\* Pages lie one after the other.
LEMMA PagesFollow ==
  ASSUME NEW s \in Nat \ {0}, NEW p \in Nat
  PROVE  /\ (p + 1) * s = p * s + s
         /\ p * s \in Nat
         /\ \A q \in Nat : p <= q => p * s <= q * s
         /\ \A q \in Nat : p < q => p * s + s <= q * s
<1>1. (p + 1) * s = p * s + s /\ p * s \in Nat
  OBVIOUS
<1>2. ASSUME NEW q \in Nat, p <= q PROVE p * s <= q * s
  <2>1. q = p + (q - p) /\ q - p \in Nat
    BY <1>2
  <2>2. q * s = p * s + (q - p) * s /\ (q - p) * s \in Nat
    BY <2>1
  <2> QED
    BY <1>1, <2>2
<1>3. ASSUME NEW q \in Nat, p < q PROVE p * s + s <= q * s
  <2>1. q = (p + 1) + (q - (p + 1)) /\ q - (p + 1) \in Nat
    BY <1>3
  <2>2. q * s = (p + 1) * s + (q - (p + 1)) * s /\ (q - (p + 1)) * s \in Nat
    BY <2>1
  <2> QED
    BY <1>1, <2>2
<1> QED
  BY <1>1, <1>2, <1>3

\* The page an offset lies in.
LEMMA PageOfOffset ==
  ASSUME NEW s \in Nat \ {0}, NEW a \in Nat
  PROVE  /\ a \div s \in Nat
         /\ (a \div s) * s <= a
         /\ a < (a \div s) * s + s
  OBVIOUS

\* What PTV's list is at every moment of a search.
ListOK ==
  /\ total \in Nat /\ pageSize \in Nat \ {0} /\ pageCount \in Nat
  /\ IsPageCount(pageCount)

\* The ids up to the end of page p.
UpToPage(p) == Smaller(total, p * pageSize)

\* A page's ids come after those of the pages before it.
LEMMA PageAfterPages ==
  ASSUME ListOK, NEW p \in Nat, p < pageCount, total > 0
  PROVE  /\ UpToPage(p) \in Nat /\ PageLength(p + 1) \in Nat
         /\ PageIds(p + 1) = After(UpToPage(p), PageLength(p + 1))
         /\ UpToPage(p) + PageLength(p + 1) = UpToPage(p + 1)
<1>1. /\ p * pageSize \in Nat
      /\ (p + 1) * pageSize = p * pageSize + pageSize
      /\ pageCount - 1 \in Nat
      /\ p * pageSize <= (pageCount - 1) * pageSize
  BY PagesFollow DEF ListOK
<1>2. p * pageSize < total
  <2>1. (pageCount - 1) * pageSize < total /\ (pageCount - 1) * pageSize \in Nat
    BY <1>1, PagesFollow DEF ListOK, IsPageCount
  <2> QED
    BY <1>1, <2>1 DEF ListOK
<1>3. UpToPage(p) = p * pageSize
  BY <1>1, <1>2 DEF UpToPage, Smaller, ListOK
<1>4. (p + 1) - 1 = p
  OBVIOUS
<1> DEFINE a == p * pageSize
           b == (p + 1) * pageSize
<1>5. a \in Nat /\ b = a + pageSize /\ a < total /\ UpToPage(p) = a
  BY <1>1, <1>2, <1>3
<1>6. PageLength(p + 1) = IF b <= total THEN pageSize
                          ELSE IF a < total THEN total - a ELSE 0
  BY <1>4 DEF PageLength
<1>7. UpToPage(p + 1) = Smaller(total, b)
  BY DEF UpToPage
<1>8. PageIds(p + 1) = [k \in 1..PageLength(p + 1) |-> a + k]
  BY <1>4 DEF PageIds
<1> HIDE DEF a, b
<1> QED
  BY <1>5, <1>6, <1>7, <1>8 DEF After, Smaller, ListOK

\* With all results at their places, the pages make up PTV's whole list.
LEMMA WholeCatalogue ==
  ASSUME ListOK, itemCount = LaterPages, \A i \in Items : results[i] = i
  PROVE  Catalogue = Ids(total)
<1> DEFINE Body(g) == [n \in 0..itemCount |->
                         IF n = 0 THEN PageIds(1)
                         ELSE g[n - 1] \o PageIds(results[n - 1] + 2)]
           through == CHOOSE g : g = Body(g)
           h == [n \in 0..itemCount |-> After(0, UpToPage(n + 1))]
<1>1. Catalogue = through[itemCount]
  BY DEF Catalogue
<1>2. itemCount \in Nat /\ (itemCount > 0 => itemCount = pageCount - 1 /\ total > 0)
  BY DEF LaterPages, ListOK, IsPageCount
<1>3. PageIds(1) = After(0, UpToPage(1))
  <2>1. 0 * pageSize = 0 /\ 1 * pageSize = pageSize
    BY DEF ListOK
  <2>2. /\ PageLength(1) = UpToPage(1) /\ PageLength(1) \in Nat
        /\ PageIds(1) = [k \in 1..PageLength(1) |-> 0 + k]
    BY <2>1 DEF PageLength, UpToPage, Smaller, PageIds, ListOK
  <2> QED
    BY <2>2 DEF After
<1>4. ASSUME NEW n \in Nat, n < itemCount
      PROVE  After(0, UpToPage(n + 1)) \o PageIds(n + 2) = After(0, UpToPage(n + 2))
  <2>1. n + 1 \in Nat /\ n + 1 < pageCount /\ total > 0 /\ (n + 1) + 1 = n + 2
    BY <1>2, <1>4 DEF ListOK
  <2>2. /\ UpToPage(n + 1) \in Nat /\ PageLength(n + 2) \in Nat
        /\ PageIds(n + 2) = After(UpToPage(n + 1), PageLength(n + 2))
        /\ UpToPage(n + 1) + PageLength(n + 2) = UpToPage(n + 2)
    BY <2>1, PageAfterPages
  <2> DEFINE a == UpToPage(n + 1)  b == PageLength(n + 2)
  <2>3. After(0, a) \o After(0 + a, b) = After(0, a + b)
    <3> HIDE DEF a, b
    <3> QED
      BY <2>2, AfterJoins DEF a, b
  <2>4. 0 + a = a
    BY <2>2
  <2> QED
    BY <2>2, <2>3, <2>4
<1>5. \A n \in Nat : n < itemCount => results[n] = n /\ results[n] + 2 = n + 2
  BY <1>2 DEF Items
<1> HIDE DEF Body, through
<1>6. h = Body(h)
  <2>1. ASSUME NEW n \in 0..itemCount
        PROVE  h[n] = IF n = 0 THEN PageIds(1)
                      ELSE h[n - 1] \o PageIds(results[n - 1] + 2)
    <3>1. CASE n = 0
      BY <1>2, <1>3, <3>1
    <3>2. CASE n # 0
      <4> DEFINE k == n - 1
      <4>1. k \in Nat /\ k < itemCount /\ n = k + 1 /\ n + 1 = k + 2
        BY <1>2, <3>2
      <4>2. h[k] = After(0, UpToPage(k + 1)) /\ h[n] = After(0, UpToPage(k + 2))
        <5>1. k \in 0..itemCount
          BY <1>2, <4>1
        <5> HIDE DEF k
        <5>2. h[k] = After(0, UpToPage(k + 1)) /\ h[n] = After(0, UpToPage(n + 1))
          BY <5>1
        <5> QED
          BY <4>1, <5>2
      <4>3. results[k] + 2 = k + 2
        BY <1>5, <4>1
      <4>4. After(0, UpToPage(k + 1)) \o PageIds(k + 2) = After(0, UpToPage(k + 2))
        <5> HIDE DEF k
        <5> QED
          BY <1>4, <4>1
      <4>5. h[n] = h[k] \o PageIds(results[k] + 2)
        <5> HIDE DEF h, k
        <5> QED
          BY <4>2, <4>3, <4>4
      <4> HIDE DEF h
      <4> QED
        BY <3>2, <4>5
    <3> QED
      BY <3>1, <3>2
  <2>2. h = [n \in 0..itemCount |-> h[n]]
    OBVIOUS
  <2> HIDE DEF h
  <2> QED
    BY <2>1, <2>2 DEF Body
<1>7. through = Body(through)
  <2> HIDE DEF h
  <2> QED
    BY <1>6 DEF through
<1>8. through[itemCount] = h[itemCount]
  <2> HIDE DEF h
  <2> DEFINE S == {n \in 0..itemCount : through[n] = h[n]}
  <2>1. 0 \in S
    BY <1>2, <1>6, <1>7 DEF Body
  <2>2. ASSUME NEW n \in Nat, n < itemCount, n \in S PROVE n + 1 \in S
    <3>1. /\ n + 1 \in 0..itemCount /\ n + 1 # 0 /\ (n + 1) - 1 = n
          /\ through[n] = h[n]
      BY <1>2, <2>2
    <3>2. through[n + 1] = through[n] \o PageIds(results[n] + 2)
      BY <1>7, <3>1 DEF Body
    <3>3. h[n + 1] = h[n] \o PageIds(results[n] + 2)
      BY <1>6, <3>1 DEF Body
    <3> QED
      BY <3>1, <3>2, <3>3
  <2>3. 0..itemCount \subseteq S
    <3>1. \A n \in Nat : n < itemCount /\ n \in S => n + 1 \in S
      BY <2>2
    <3> HIDE DEF S
    <3> QED
      BY <1>2, <2>1, <3>1, Induction
  <2> QED
    BY <1>2, <2>3
<1>9. UpToPage(itemCount + 1) = total
  <2>1. CASE pageCount > 0 /\ total > 0
    <3>1. total <= pageCount * pageSize /\ itemCount + 1 = pageCount
      BY <2>1 DEF ListOK, IsPageCount, LaterPages
    <3>2. pageCount * pageSize \in Nat
      BY PagesFollow DEF ListOK
    <3> QED
      BY <3>1, <3>2 DEF UpToPage, Smaller, ListOK
  <2>2. CASE total = 0
    <3>1. (itemCount + 1) * pageSize \in Nat
      BY <1>2, PagesFollow DEF ListOK
    <3> QED
      BY <2>2, <3>1 DEF UpToPage, Smaller
  <2>3. total > 0 => pageCount > 0
    <3>1. 0 * pageSize = 0
      BY DEF ListOK
    <3> QED
      BY <3>1 DEF ListOK, IsPageCount
  <2> QED
    BY <2>1, <2>2, <2>3 DEF ListOK
<1>10. h[itemCount] = After(0, total)
  BY <1>2, <1>9
<1> QED
  BY <1>1, <1>8, <1>10, IdsAppend DEF ListOK

-----------------------------------------------------------------------------
(* The window of ids.                                                       *)

\* Where the loop is in PTV's list: it has the window's ids up to there, has
\* asked for no page beyond, and goes on only if the list does.
InWindow ==
  /\ count > 0
  /\ Len(ids) < count
  /\ ids = After(start, Len(ids))
  /\ (v11Page - 1) * pageSize + offsetInPage = start + Len(ids)
  /\ Len(ids) > 0 => start + Len(ids) < total
  /\ \A m \in 1..Len(requested) :
       requested[m] <= v11Page /\ (~hasPage => requested[m] < v11Page)

WindowInv ==
  /\ WindowTypeOK
  /\ ListOK
  /\ pc = "begin" => ids = <<>> /\ requested = <<>> /\ ~hasPage
  /\ pc = "loop" => InWindow
  /\ NoPageTwice
  /\ WindowExact

LEMMA ListBegins == ListInit => ListOK /\ total \in Totals /\ pageSize \in PageSizes
BY ListAssumption DEF ListInit, ListOK

LEMMA WindowStarts ==
  ASSUME ListInit, start \in Nat, count \in Int, WindowBegins PROVE WindowInv
<1>1. /\ total \in Totals /\ pageSize \in PageSizes /\ pageCount \in Nat
      /\ 0 \in 0..pageSize - 1
  BY ListBegins DEF ListOK
<1>2. WindowTypeOK
  <2>1. /\ ids = <<>> /\ requested = <<>> /\ hasPage = FALSE
        /\ v11Page = 1 /\ offsetInPage = 0 /\ pc = "begin"
    BY DEF WindowBegins
  <2>2. ids \in Seq(Nat) /\ requested \in Seq(Nat \ {0}) /\ v11Page \in Nat \ {0}
    BY <2>1
  <2> QED
    BY <1>1, <2>1, <2>2 DEF WindowTypeOK
<1> QED
  BY <1>2, ListBegins DEF WindowBegins, WindowInv, NoPageTwice, WindowExact

LEMMA ListStays ==
  ASSUME WindowInv, UNCHANGED list PROVE ListOK'
BY DEF WindowInv, ListOK, list, IsPageCount

\* The first request tells the page size, and with it the page to start in.
LEMMA FirstFetched == ASSUME WindowInv, FetchFirst PROVE WindowInv'
<1>1. /\ UNCHANGED <<total, pageSize, pageCount, start, count, ids>>
      /\ ids = <<>> /\ count > 0 /\ pc' = "loop" /\ requested' = <<1>>
  BY DEF WindowInv, FetchFirst, input, list
<1>2. start \in Nat /\ pageSize \in Nat \ {0}
  BY DEF WindowInv, WindowTypeOK, ListOK
<1> DEFINE d == start \div pageSize
<1>3. d \in Nat /\ d * pageSize <= start /\ start < d * pageSize + pageSize
  BY <1>2, PageOfOffset
<1>4. v11Page' = d + 1 /\ (d + 1) - 1 = d /\ d * pageSize \in Nat
  BY <1>2, <1>3, PagesFollow DEF FetchFirst
<1>5. offsetInPage' = start - d * pageSize /\ hasPage' = (d + 1 = 1)
  BY <1>4 DEF FetchFirst
<1> HIDE DEF d
<1>6. WindowTypeOK'
  <2>1. offsetInPage' \in 0..pageSize - 1 /\ v11Page' \in Nat \ {0} /\ hasPage' \in BOOLEAN
    BY <1>2, <1>3, <1>4, <1>5
  <2> QED
    BY <1>1, <2>1 DEF WindowInv, WindowTypeOK
<1>7. InWindow'
  <2>1. (v11Page' - 1) * pageSize + offsetInPage' = start + Len(ids)
    BY <1>1, <1>2, <1>3, <1>4, <1>5
  <2>2. ids = After(start, Len(ids)) /\ Len(ids) = 0
    BY <1>1 DEF After
  <2>3. \A m \in 1..Len(requested') :
          requested'[m] <= v11Page' /\ (~hasPage' => requested'[m] < v11Page')
    <3> TAKE m \in 1..Len(requested')
    <3>1. requested'[m] = 1
      BY <1>1
    <3>2. 1 <= d + 1 /\ (d + 1 # 1 => 1 < d + 1)
      BY <1>3
    <3> QED
      BY <1>4, <1>5, <3>1, <3>2
  <2> QED
    BY <1>1, <2>1, <2>2, <2>3 DEF InWindow
<1>8. NoPageTwice' /\ WindowExact'
  BY <1>1 DEF NoPageTwice, WindowExact
<1>9. ListOK'
  BY ListStays DEF FetchFirst, input
<1> QED
  BY <1>1, <1>6, <1>7, <1>8, <1>9 DEF WindowInv

\* A later page is not among those requested before.
LEMMA PageFetched == ASSUME WindowInv, FetchPage PROVE WindowInv'
<1>1. /\ UNCHANGED <<total, pageSize, pageCount, start, count, pc, v11Page, offsetInPage, ids>>
      /\ pc = "loop" /\ ~hasPage /\ hasPage' = TRUE
      /\ requested' = Append(requested, v11Page)
  BY DEF FetchPage, input, list
<1>2. requested \in Seq(Nat \ {0}) /\ v11Page \in Nat \ {0}
  BY DEF WindowInv, WindowTypeOK
<1>3. /\ requested' \in Seq(Nat \ {0}) /\ Len(requested') = Len(requested) + 1
      /\ requested'[Len(requested) + 1] = v11Page
      /\ \A m \in 1..Len(requested) : requested'[m] = requested[m]
      /\ Len(requested) \in Nat
  BY <1>1, <1>2
<1>4. InWindow
  BY <1>1 DEF WindowInv
<1>5. \A m \in 1..Len(requested) : requested[m] < v11Page
  BY <1>1, <1>4 DEF InWindow
<1>6. WindowTypeOK'
  BY <1>1, <1>3 DEF WindowInv, WindowTypeOK
<1>7. \A m \in 1..Len(requested') : requested'[m] <= v11Page
  <2> TAKE m \in 1..Len(requested')
  <2>1. CASE m = Len(requested) + 1
    BY <1>2, <1>3, <2>1
  <2>2. CASE m # Len(requested) + 1
    <3>1. m \in 1..Len(requested)
      BY <1>3, <2>2
    <3>2. requested'[m] < v11Page /\ requested'[m] \in Nat
      BY <1>2, <1>3, <1>5, <3>1
    <3> QED
      BY <1>2, <3>2
  <2> QED
    BY <2>1, <2>2
<1>8. NoPageTwice'
  <2> SUFFICES ASSUME NEW m \in 1..Len(requested'), NEW n \in 1..Len(requested'), m # n
               PROVE  requested'[m] # requested'[n]
    BY DEF NoPageTwice
  <2>1. CASE m \in 1..Len(requested) /\ n \in 1..Len(requested)
    BY <1>3, <2>1 DEF WindowInv, NoPageTwice
  <2>2. CASE m \notin 1..Len(requested)
    <3>1. m = Len(requested) + 1 /\ n \in 1..Len(requested)
      BY <1>3, <2>2
    <3>2. requested'[n] < v11Page /\ requested'[m] = v11Page /\ requested'[n] \in Nat
      BY <1>2, <1>3, <1>5, <3>1
    <3> QED
      BY <1>2, <3>2
  <2>3. CASE n \notin 1..Len(requested)
    <3>1. n = Len(requested) + 1 /\ m \in 1..Len(requested)
      BY <1>3, <2>3
    <3>2. requested'[m] < v11Page /\ requested'[n] = v11Page /\ requested'[m] \in Nat
      BY <1>2, <1>3, <1>5, <3>1
    <3> QED
      BY <1>2, <3>2
  <2> QED
    BY <2>1, <2>2, <2>3
<1>9. InWindow'
  BY <1>1, <1>4, <1>7 DEF InWindow
<1>10. WindowExact'
  BY <1>1 DEF WindowExact
<1>11. ListOK'
  BY ListStays DEF FetchPage, input
<1> QED
  BY <1>1, <1>6, <1>8, <1>9, <1>10, <1>11 DEF WindowInv

\* What a page gives of the window comes next, and there is no less of it than
\* the page has.
LEMMA SliceFollows ==
  ASSUME WindowInv, pc = "loop",
         NEW n, n = SliceLength(v11Page, offsetInPage, count - Len(ids))
  PROVE  /\ n \in Nat /\ Len(ids) + n <= count
         /\ ids \o Slice(v11Page, offsetInPage, count - Len(ids))
              = After(start, Len(ids) + n)
         /\ n > 0 => start + Len(ids) + n <= total
         /\ Len(ids) + n < count =>
              \/ start + Len(ids) + n = v11Page * pageSize
              \/ start + Len(ids) + n >= total
<1> DEFINE a == (v11Page - 1) * pageSize
           b == v11Page * pageSize
           l == Len(ids)
           o == offsetInPage
<1>1. /\ v11Page \in Nat \ {0} /\ pageSize \in Nat \ {0} /\ total \in Nat
      /\ o \in Nat /\ o < pageSize /\ l \in Nat /\ start \in Nat /\ count \in Int
  BY DEF WindowInv, WindowTypeOK, ListOK
<1>2. a \in Nat /\ b = a + pageSize
  <2>1. v11Page - 1 \in Nat /\ (v11Page - 1) + 1 = v11Page
    BY <1>1
  <2> QED
    BY <1>1, <2>1, PagesFollow
<1>3. /\ l < count /\ ids = After(start, l) /\ a + o = start + l
      /\ l > 0 => start + l < total
  BY DEF WindowInv, InWindow
<1>4. PageLength(v11Page) = IF b <= total THEN pageSize
                            ELSE IF a < total THEN total - a ELSE 0
  BY DEF PageLength
<1>5. n = IF o < PageLength(v11Page) THEN Smaller(count - l, PageLength(v11Page) - o) ELSE 0
  BY DEF SliceLength
<1>6. Slice(v11Page, offsetInPage, count - Len(ids)) = [k \in 1..n |-> a + o + k]
  BY DEF Slice
<1> HIDE DEF a, b, l, o
<1>7. n \in Nat /\ l + n <= count
  BY <1>1, <1>2, <1>3, <1>4, <1>5 DEF Smaller
<1>8. n > 0 => start + l + n <= total
  BY <1>1, <1>2, <1>3, <1>4, <1>5 DEF Smaller
<1>9. l + n < count => start + l + n = b \/ start + l + n >= total
  BY <1>1, <1>2, <1>3, <1>4, <1>5 DEF Smaller
<1>10. After(start, l) \o After(start + l, n) = After(start, l + n)
  BY <1>1, <1>7, AfterJoins
<1>11. [k \in 1..n |-> a + o + k] = After(start + l, n)
  BY <1>3 DEF After
<1> QED
  BY <1>3, <1>6, <1>7, <1>8, <1>9, <1>10, <1>11 DEF l, b

\* The loop goes on after a full page only, and ends with the whole window.
LEMMA SliceTaken == ASSUME WindowInv, TakeSlice PROVE WindowInv'
<1> DEFINE n == SliceLength(v11Page, offsetInPage, count - Len(ids))
           l == Len(ids) + n
<1>1. /\ UNCHANGED <<total, pageSize, pageCount, start, count, requested>>
      /\ pc = "loop" /\ hasPage
      /\ ids' = ids \o Slice(v11Page, offsetInPage, count - Len(ids))
  BY DEF TakeSlice, input, list
<1>2. /\ n \in Nat /\ l <= count
      /\ ids' = After(start, l)
      /\ n > 0 => start + l <= total
      /\ l < count => start + l = v11Page * pageSize \/ start + l >= total
  <2> DEFINE m == n
  <2>1. /\ m \in Nat /\ Len(ids) + m <= count
        /\ ids' = After(start, Len(ids) + m)
        /\ m > 0 => start + Len(ids) + m <= total
        /\ Len(ids) + m < count =>
             \/ start + Len(ids) + m = v11Page * pageSize
             \/ start + Len(ids) + m >= total
    BY <1>1, SliceFollows
  <2> HIDE DEF m
  <2>2. start + Len(ids) + m = start + (Len(ids) + m)
    BY <2>1 DEF WindowInv, WindowTypeOK
  <2>3. m = n
    BY DEF m
  <2> HIDE DEF n
  <2> QED
    BY <2>1, <2>2, <2>3
<1>3. InWindow
  BY <1>1 DEF WindowInv
<1>4. /\ v11Page \in Nat \ {0} /\ pageSize \in Nat \ {0} /\ total \in Nat
      /\ pageCount \in Nat /\ start \in Nat /\ count \in Int /\ Len(ids) \in Nat
  BY DEF WindowInv, WindowTypeOK, ListOK
<1>5. l \in Nat /\ count > 0 /\ (l > 0 => start + l <= total)
  BY <1>2, <1>3, <1>4 DEF InWindow
<1> HIDE DEF l, n
<1>6. Len(ids') = l /\ ids' \in Seq(Nat)
  BY <1>2, <1>4, <1>5, AfterAppend
<1>7. ListOK'
  BY ListStays DEF TakeSlice, input
<1>8. NoPageTwice'
  BY <1>1 DEF WindowInv, NoPageTwice
<1>9. CASE v11Page >= pageCount \/ Len(ids') >= count
  <2>1. pc' = "done" /\ UNCHANGED <<v11Page, offsetInPage, hasPage>>
    BY <1>9 DEF TakeSlice
  <2>2. WindowTypeOK'
    BY <1>1, <1>6, <2>1 DEF WindowInv, WindowTypeOK
  <2>3. l < count => start + l >= total
    <3>1. SUFFICES ASSUME l < count PROVE start + l >= total
      OBVIOUS
    <3>2. v11Page >= pageCount
      BY <1>6, <1>9, <3>1, <1>4, <1>5
    <3>3. CASE start + l = v11Page * pageSize /\ total > 0
      <4>1. total <= pageCount * pageSize
        BY <3>3 DEF WindowInv, ListOK, IsPageCount
      <4>2. pageCount * pageSize <= v11Page * pageSize
        BY <1>4, <3>2, PagesFollow
      <4>3. pageCount * pageSize \in Nat /\ v11Page * pageSize \in Nat
        BY <1>4, PagesFollow
      <4> QED
        BY <1>4, <3>3, <4>1, <4>2, <4>3
    <3> QED
      BY <1>2, <1>4, <1>5, <3>1, <3>3
  <2>4. l = WindowLength
    BY <1>2, <1>4, <1>5, <2>3 DEF WindowLength, Smaller
  <2>5. WindowExact'
    <3>1. WindowLength' = WindowLength
      BY <1>1 DEF WindowLength, Smaller
    <3> QED
      BY <1>1, <1>2, <2>4, <3>1 DEF WindowExact, After
  <2> QED
    BY <1>7, <1>8, <2>1, <2>2, <2>5 DEF WindowInv
<1>10. CASE ~(v11Page >= pageCount \/ Len(ids') >= count)
  <2>1. /\ v11Page' = v11Page + 1 /\ offsetInPage' = 0 /\ hasPage' = FALSE
        /\ pc' = "loop"
    BY <1>1, <1>10 DEF TakeSlice
  <2>2. WindowTypeOK'
    <3>1. v11Page' \in Nat \ {0} /\ offsetInPage' \in 0..pageSize - 1
      BY <1>4, <2>1
    <3> QED
      BY <1>1, <1>6, <2>1, <3>1 DEF WindowInv, WindowTypeOK
  <2>3. l < count /\ v11Page < pageCount
    BY <1>4, <1>5, <1>6, <1>10
  <2>4. v11Page * pageSize < total /\ v11Page * pageSize \in Nat
    <3>1. total > 0 => (pageCount - 1) * pageSize < total
      BY DEF WindowInv, ListOK, IsPageCount
    <3>2. total > 0
      BY <1>4, <2>3 DEF WindowInv, ListOK, IsPageCount
    <3>3. pageCount - 1 \in Nat /\ v11Page <= pageCount - 1
      BY <1>4, <2>3
    <3>4. /\ v11Page * pageSize <= (pageCount - 1) * pageSize
          /\ v11Page * pageSize \in Nat /\ (pageCount - 1) * pageSize \in Nat
      BY <1>4, <3>3, PagesFollow
    <3> QED
      BY <1>4, <3>1, <3>2, <3>4
  <2>5. start + l = v11Page * pageSize
    <3>1. (v11Page - 1) * pageSize + offsetInPage = start + Len(ids)
      BY <1>3 DEF InWindow
    <3>2. /\ (v11Page - 1) * pageSize \in Nat
          /\ v11Page * pageSize = (v11Page - 1) * pageSize + pageSize
      <4>1. v11Page - 1 \in Nat /\ (v11Page - 1) + 1 = v11Page
        BY <1>4
      <4> QED
        BY <1>4, <4>1, PagesFollow
    <3>3. offsetInPage \in Nat /\ offsetInPage < pageSize
      BY <1>4 DEF WindowInv, WindowTypeOK
    <3>4. start + l = v11Page * pageSize \/ start + l >= total
      BY <1>2, <2>3
    <3>5. start + Len(ids) < v11Page * pageSize
      BY <1>4, <3>1, <3>2, <3>3
    <3>6. PageLength(v11Page) = pageSize
      BY <1>4, <2>4 DEF PageLength
    <3>7. n <= pageSize - offsetInPage
      BY <1>4, <3>3, <3>6 DEF n, SliceLength, Smaller
    <3>8. start + l <= v11Page * pageSize
      BY <1>2, <1>4, <3>1, <3>2, <3>3, <3>7 DEF l
    <3> QED
      BY <1>4, <1>5, <2>4, <3>4, <3>8
  <2>6. InWindow'
    <3>1. (v11Page' - 1) * pageSize' + offsetInPage' = start' + Len(ids')
      <4>1. v11Page' - 1 = v11Page
        BY <1>4, <2>1
      <4> QED
        BY <1>1, <1>6, <2>1, <2>4, <2>5, <4>1
    <3>2. \A m \in 1..Len(requested') :
            requested'[m] <= v11Page' /\ (~hasPage' => requested'[m] < v11Page')
      <4> TAKE m \in 1..Len(requested')
      <4>1. requested'[m] = requested[m] /\ requested[m] \in Nat /\ requested[m] <= v11Page
        BY <1>1, <1>3 DEF InWindow, WindowInv, WindowTypeOK
      <4> QED
        BY <1>4, <2>1, <4>1
    <3>3. start + l < total
      BY <2>4, <2>5
    <3> QED
      BY <1>1, <1>2, <1>5, <1>6, <2>3, <3>1, <3>2, <3>3 DEF InWindow
  <2>7. WindowExact'
    BY <2>1 DEF WindowExact
  <2> QED
    BY <1>7, <1>8, <2>1, <2>2, <2>6, <2>7 DEF WindowInv
<1> QED
  BY <1>9, <1>10

LEMMA WindowStep == ASSUME WindowInv, [WindowNext]_windowVars PROVE WindowInv'
<1>1. CASE NothingAsked
  <2>1. /\ UNCHANGED <<total, pageSize, pageCount, start, count, ids, requested,
                       v11Page, offsetInPage, hasPage>>
        /\ pc' = "done" /\ ids = <<>> /\ count <= 0
    BY <1>1 DEF NothingAsked, input, list, WindowInv
  <2>2. WindowExact'
    <3>1. WindowLength' = 0
      BY <2>1 DEF WindowLength
    <3> QED
      BY <2>1, <3>1 DEF WindowExact
  <2>3. WindowTypeOK'
    BY <2>1 DEF WindowInv, WindowTypeOK
  <2>4. NoPageTwice'
    BY <2>1 DEF WindowInv, NoPageTwice
  <2>5. ListOK'
    BY <1>1, ListStays DEF NothingAsked, input
  <2> QED
    BY <2>1, <2>2, <2>3, <2>4, <2>5 DEF WindowInv
<1>2. CASE FetchFirst
  BY <1>2, FirstFetched
<1>3. CASE FetchPage
  BY <1>3, PageFetched
<1>4. CASE TakeSlice
  BY <1>4, SliceTaken
<1>5. CASE WindowFails
  <2>1. /\ UNCHANGED <<total, pageSize, pageCount, start, count, ids, requested,
                       v11Page, offsetInPage, hasPage>>
        /\ pc' = "failed"
    BY <1>5 DEF WindowFails, input, list
  <2>2. WindowTypeOK'
    BY <2>1 DEF WindowInv, WindowTypeOK
  <2>3. NoPageTwice'
    BY <2>1 DEF WindowInv, NoPageTwice
  <2>4. ListOK'
    BY <1>5, ListStays DEF WindowFails, input
  <2> QED
    BY <2>1, <2>2, <2>3, <2>4 DEF WindowInv, WindowExact
<1>6. CASE UNCHANGED windowVars
  <2>1. UNCHANGED <<total, pageSize, pageCount, start, count, pc, ids, requested,
                    v11Page, offsetInPage, hasPage>>
    BY <1>6 DEF windowVars, input, list
  <2>2. WindowTypeOK' /\ NoPageTwice'
    BY <2>1 DEF WindowInv, WindowTypeOK, NoPageTwice
  <2>3. InWindow' = InWindow /\ WindowExact' = WindowExact
    BY <2>1 DEF InWindow, After, WindowExact, WindowLength, Smaller
  <2>4. ListOK'
    BY <1>6, ListStays DEF windowVars, input
  <2> QED
    BY <2>1, <2>2, <2>3, <2>4 DEF WindowInv
<1> QED
  BY <1>1, <1>2, <1>3, <1>4, <1>5, <1>6 DEF WindowNext

-----------------------------------------------------------------------------
(* mapWithConcurrency, for every number of items, every bound on the calls  *)
(* in flight and every set of calls that may fail.                          *)

\* The items below next have been handed out, each to one worker, which is
\* still at it, has failed at it, or has stored its result.
PoolInv ==
    /\ PoolTypeOK
    /\ next <= itemCount
    /\ \A i \in Items : called[i] = IF i < next THEN 1 ELSE 0
    /\ \A w \in Workers : worker[w].pc \in {"running", "failed"} => worker[w].at < next
    /\ \A w \in Workers : worker[w].pc = "done" => next = itemCount
    /\ \A i \in Items : results[i] \in {NoResult, i}
    /\ \A i \in Items : i < next =>
          \/ results[i] = i
          \/ \E w \in Workers : worker[w].pc \in {"running", "failed"} /\ worker[w].at = i

LEMMA PoolInitInv == PoolInit => PoolInv
  BY PoolAssumption DEF PoolInit, PoolBegins, PoolInv, PoolTypeOK, Items, Workers

LEMMA PoolStepInv == PoolInv /\ [PoolNext]_poolVars => PoolInv'
  <1> SUFFICES ASSUME PoolInv, [PoolNext]_poolVars PROVE PoolInv'
    OBVIOUS
  <1> USE PoolAssumption DEF Items, Workers
  <1>1. ASSUME NEW w \in Workers, Take(w) PROVE PoolInv'
    <2>1. PoolTypeOK' /\ itemCount' = itemCount /\ next' = next + 1
      BY <1>1 DEF PoolInv, PoolTypeOK, Take
    <2>2. \A i \in Items : called'[i] = IF i < next' THEN 1 ELSE 0
      BY <1>1 DEF PoolInv, PoolTypeOK, Take
    <2>3. \A v \in Workers : worker'[v] = IF v = w THEN [pc |-> "running", at |-> next]
                                                  ELSE worker[v]
      BY <1>1 DEF PoolInv, PoolTypeOK, Take
    <2>4. worker[w].pc = "idle" /\ next < itemCount /\ UNCHANGED results
      BY <1>1 DEF Take
    <2>5. ASSUME NEW i \in Items, i < next'
          PROVE  \/ results'[i] = i
                 \/ \E v \in Workers :
                      worker'[v].pc \in {"running", "failed"} /\ worker'[v].at = i
      <3>1. CASE i = next
        BY <1>1, <2>3, <3>1
      <3>2. CASE i < next
        BY <2>3, <2>4, <3>2 DEF PoolInv
      <3> QED
        BY <2>1, <2>5, <3>1, <3>2 DEF PoolInv, PoolTypeOK
    <2>6. next' \in Nat /\ next' <= itemCount' /\ itemCount' \in Nat
      BY <2>1, <2>4 DEF PoolTypeOK, PoolInv
    <2>7. ASSUME NEW v \in Workers
          PROVE  /\ worker'[v].pc \in {"running", "failed"} => worker'[v].at < next'
                 /\ worker'[v].pc # "done"
      <3>1. CASE v = w
        <4>1. worker'[v].pc = "running" /\ worker'[v].at = next
          BY <2>3, <3>1
        <4> QED
          BY <2>1, <4>1 DEF PoolInv, PoolTypeOK
      <3>2. CASE v # w
        <4>1. worker'[v] = worker[v]
          BY <2>3, <3>2
        <4>2. worker[v].pc # "done"
          BY <2>4 DEF PoolInv, PoolTypeOK
        <4>3. worker[v].at \in Nat
          BY DEF PoolInv, PoolTypeOK
        <4>4. worker[v].pc \in {"running", "failed"} => worker[v].at < next
          BY DEF PoolInv
        <4> QED
          BY <2>1, <4>1, <4>2, <4>3, <4>4 DEF PoolInv, PoolTypeOK
      <3> QED
        BY <3>1, <3>2
    <2>8. \A i \in Items : results'[i] \in {NoResult, i}
      BY <2>4 DEF PoolInv
    <2> HIDE DEF Items, Workers
    <2>9. Items' = Items /\ Workers' = Workers
      BY <2>1 DEF Items, Workers
    <2> QED
      BY <2>1, <2>2, <2>5, <2>6, <2>7, <2>8, <2>9 DEF PoolInv
  <1>2. ASSUME NEW w \in Workers, Store(w) PROVE PoolInv'
    <2>1. PoolTypeOK' /\ UNCHANGED <<itemCount, next, called>>
      BY <1>2 DEF PoolInv, PoolTypeOK, Store, Running
    <2>2. /\ worker[w].at \in Items /\ worker[w].pc = "running"
          /\ results' = [results EXCEPT ![worker[w].at] = worker[w].at]
          /\ worker' = [worker EXCEPT ![w].pc = "idle"]
      BY <1>2 DEF PoolInv, PoolTypeOK, Store, Running
    <2>3. \A v \in Workers : v # w => worker'[v] = worker[v]
      BY <2>2 DEF PoolInv, PoolTypeOK
    <2>4. worker'[w].pc = "idle"
      BY <2>2 DEF PoolInv, PoolTypeOK
    <2>5. \A i \in Items : results'[i] = IF i = worker[w].at THEN i ELSE results[i]
      BY <2>2 DEF PoolInv, PoolTypeOK
    <2>6. ASSUME NEW i \in Items, i < next'
          PROVE  \/ results'[i] = i
                 \/ \E v \in Workers :
                      worker'[v].pc \in {"running", "failed"} /\ worker'[v].at = i
      <3>1. CASE i = worker[w].at
        BY <3>1, <2>5
      <3>2. CASE i # worker[w].at /\ results[i] = i
        BY <3>2, <2>5
      <3>3. CASE i # worker[w].at /\ results[i] # i
        <4>1. PICK v \in Workers : worker[v].pc \in {"running", "failed"} /\ worker[v].at = i
          BY <3>3, <2>1, <2>6 DEF PoolInv
        <4>2. worker'[v] = worker[v]
          BY <4>1, <3>3, <2>3
        <4> QED
          BY <4>1, <4>2
      <3> QED
        BY <3>1, <3>2, <3>3
    <2> QED
      BY <2>1, <2>3, <2>4, <2>5, <2>6 DEF PoolInv
  <1>3. ASSUME NEW w \in Workers, CallFails(w) PROVE PoolInv'
    BY <1>3 DEF PoolInv, PoolTypeOK, CallFails, Running
  <1>4. ASSUME NEW w \in Workers, Finish(w) PROVE PoolInv'
    BY <1>4 DEF PoolInv, PoolTypeOK, Finish
  <1>5. CASE UNCHANGED poolVars
    BY <1>5 DEF PoolInv, PoolTypeOK, poolVars
  <1> QED
    BY <1>1, <1>2, <1>3, <1>4, <1>5 DEF PoolNext, Work

LEMMA PoolInvariant == PoolSpec => []PoolInv
  BY PoolInitInv, PoolStepInv, PTL DEF PoolSpec

\* The workers, the counter and the results always have their types.
THEOREM PoolTypeCorrect == PoolSpec => []PoolTypeOK
  <1>1. PoolInv => PoolTypeOK
    BY DEF PoolInv
  <1> QED
    BY <1>1, PoolInvariant, PTL

\* No item is ever handed to two workers.
THEOREM OneCallPerItem == PoolSpec => []CalledAtMostOnce
  <1>1. PoolInv => CalledAtMostOnce
    BY DEF PoolInv, CalledAtMostOnce
  <1> QED
    BY <1>1, PoolInvariant, PTL

LEMMA ResultsKeepOrder == ASSUME PoolInv PROVE ResultsInOrder
<1>1. \A i \in Items : results[i] \in {NoResult, i}
  BY DEF PoolInv
<1>2. ASSUME Resolved, NEW i \in Items PROVE results[i] = i
  <2>1. 1 \in Workers
    BY PoolAssumption DEF PoolInv, PoolTypeOK, Workers, Items
  <2>2. i < next
    BY <1>2, <2>1, PoolAssumption DEF PoolInv, PoolTypeOK, Resolved, Items
  <2> QED
    BY <1>2, <2>2 DEF PoolInv, Resolved
<1> QED
  BY <1>1, <1>2 DEF ResultsInOrder

\* Every result is at its item's place, and all of them are there when the
\* promise resolves.
THEOREM OrderIsKept == PoolSpec => []ResultsInOrder
  <1>1. PoolInv => ResultsInOrder
    BY ResultsKeepOrder
  <1> QED
    BY <1>1, PoolInvariant, PTL

\* mapWithConcurrency maps as Promise.all(items.map(fn)) does: each item once,
\* and every result at its item's place.
THEOREM PoolMapsInOrder == PoolSpec => []MapsInOrder
<1> QED BY OneCallPerItem, OrderIsKept, PTL DEF MapsInOrder


-----------------------------------------------------------------------------
(* The search.                                                              *)

\* The ids the search is about, of the whole list.
Asked ==
  IF query THEN matching ELSE {k \in 1..total : start < k /\ k <= start + count}

Begun == wanted = <<>> /\ fetched = 0 /\ wires = {} /\ missing = {} /\ items = <<>>

\* Once they are known, the ids wanted are those of the list that are asked
\* for, in its order; each that has been asked for was returned or is missing.
SearchInv ==
  /\ WindowInv /\ PoolInv /\ count \in Nat
  /\ query \in BOOLEAN
  /\ phase \in {"window", "first", "rest", "list", "done", "failed"}
  /\ query => itemCount = LaterPages
  /\ phase = "window" => ~query
  /\ phase \in {"first", "rest"} => query
  /\ phase \in {"window", "first", "rest"} => Begun
  /\ matching \subseteq 1..total
  /\ phase \in {"list", "done"} => wanted = Filter(Ids(total), Asked)
  /\ wanted \in Seq(1..total)
  /\ fetched \in 0..Len(wanted)
  /\ wires \cup missing = {wanted[k] : k \in 1..fetched}
  /\ wires \cap missing = {}
  /\ items \in Seq(1..total)
  /\ SearchExact

LEMMA SearchStarts == Init => SearchInv
<1> SUFFICES ASSUME Init PROVE SearchInv
  OBVIOUS
<1>1. PICK page \in Pages, size \in Sizes : start = (page - 1) * size /\ count = size
  BY DEF Init
<1>2. start \in Nat /\ count \in Nat
  <2>1. page - 1 \in Nat /\ size \in Nat
    BY SearchAssumption
  <2> QED
    BY <1>1, <2>1
<1>3. WindowInv
  BY <1>2, WindowStarts DEF Init
<1>4. itemCount \in Nat /\ (query => itemCount = LaterPages)
  BY <1>3 DEF Init, LaterPages, WindowInv, ListOK
<1>5. PoolInv
  BY <1>4, PoolInitInv DEF Init, PoolInit
<1>6. /\ query \in BOOLEAN /\ phase = (IF query THEN "first" ELSE "window")
      /\ matching = {} /\ Begun
  BY DEF Init, Begun
<1>7. /\ wanted \in Seq(1..total) /\ fetched \in 0..Len(wanted) /\ items \in Seq(1..total)
      /\ wires \cup missing = {wanted[k] : k \in 1..fetched}
      /\ wires \cap missing = {}
  BY <1>6 DEF Begun
<1> QED
  BY <1>2, <1>3, <1>4, <1>5, <1>6, <1>7 DEF SearchInv, SearchExact

\* What the search holds does not change.
LEMMA SearchStill ==
  ASSUME SearchInv, WindowInv', PoolInv', UNCHANGED <<search, total, start, count, itemCount, pageCount>>
  PROVE  SearchInv'
<1>1. /\ UNCHANGED <<query, phase, matching, wanted, fetched, wires, missing, items>>
      /\ UNCHANGED <<total, start, count, itemCount, pageCount>>
  BY DEF search
<1>2. LaterPages' = LaterPages /\ Asked' = Asked /\ Begun' = Begun
  BY <1>1 DEF LaterPages, Asked, Begun
<1>3. Filter(Ids(total), Asked)' = Filter(Ids(total), Asked)
  BY <1>1, <1>2 DEF Filter, Ids
<1>4. SearchExact' = SearchExact
  BY <1>1 DEF SearchExact, Filter, Smaller
<1> QED
  BY <1>1, <1>2, <1>3, <1>4 DEF SearchInv

LEMMA PartsStay ==
  ASSUME SearchInv, UNCHANGED <<windowVars, poolVars>>
  PROVE  /\ WindowInv' /\ PoolInv'
         /\ UNCHANGED <<total, start, count, itemCount, pageCount, ids>>
         /\ LaterPages' = LaterPages
<1>1. WindowInv'
  BY WindowStep DEF SearchInv
<1>2. PoolInv'
  BY PoolStepInv DEF SearchInv
<1>3. UNCHANGED <<total, start, count, itemCount, pageCount, ids>>
  BY DEF windowVars, poolVars, input, list
<1> QED
  BY <1>1, <1>2, <1>3 DEF LaterPages

\* The ids wanted are known.
LEMMA WantedIs ==
  ASSUME SearchInv, UNCHANGED <<windowVars, poolVars, query, fetched, wires, missing, items>>,
         phase \in {"window", "rest"}, phase' = "list",
         matching' \subseteq 1..total, wanted' = Filter(Ids(total), Asked')
  PROVE  SearchInv'
<1>1. /\ WindowInv' /\ PoolInv' /\ LaterPages' = LaterPages
      /\ UNCHANGED <<total, start, count, itemCount, pageCount>>
  BY PartsStay
<1>2. Begun
  BY DEF SearchInv
<1>3. wanted' \in Seq(1..total)
  <2>1. Lists(wanted', total, Asked')
    BY FilteredIds DEF SearchInv, WindowInv, ListOK
  <2> QED
    BY <2>1 DEF Lists
<1>4. /\ fetched' \in 0..Len(wanted')
      /\ wires' \cup missing' = {wanted'[k] : k \in 1..fetched'}
      /\ wires' \cap missing' = {}
      /\ items' \in Seq(1..total)
  BY <1>2, <1>3 DEF Begun
<1>5. wanted' = Filter(Ids(total), Asked)'
  BY <1>1 DEF Filter, Ids
<1>6. query' = query /\ phase' = "list"
  OBVIOUS
<1> QED
  BY <1>1, <1>3, <1>4, <1>5, <1>6 DEF SearchInv, SearchExact

LEMMA WindowIsAsked == ASSUME SearchInv, WindowRead PROVE SearchInv'
<1>1. /\ phase = "window" /\ pc = "done" /\ wanted' = ids /\ phase' = "list"
      /\ UNCHANGED <<windowVars, poolVars, query, matching, fetched, wires, missing, items>>
  BY DEF WindowRead
<1>2. ~query /\ total \in Nat /\ start \in Nat /\ count \in Nat /\ matching \subseteq 1..total
  BY <1>1 DEF SearchInv, WindowInv, WindowTypeOK, ListOK
<1>3. ids = After(start, Within(start, count, total))
  BY <1>1 DEF SearchInv, WindowInv, WindowExact, WindowLength, Within, After
<1>4. Asked' = {k \in 1..total : start < k /\ k <= start + count}
  BY <1>1, <1>2, PartsStay DEF Asked
<1>5. wanted' = Filter(Ids(total), Asked')
  BY <1>1, <1>2, <1>3, <1>4, FilterStretch
<1> QED
  BY <1>1, <1>2, <1>5, WantedIs

LEMMA CatalogueIsRead == ASSUME SearchInv, CatalogueRead PROVE SearchInv'
<1>1. /\ phase = "rest" /\ Resolved /\ phase' = "list"
      /\ matching' \in SUBSET (1..total) /\ wanted' = Filter(Catalogue, matching')
      /\ UNCHANGED <<windowVars, poolVars, query, fetched, wires, missing, items>>
  BY DEF CatalogueRead
<1>2. query /\ itemCount = LaterPages /\ ListOK
  BY <1>1 DEF SearchInv, WindowInv
<1>3. \A i \in Items : results[i] = i
  BY <1>1, ResultsKeepOrder DEF SearchInv, ResultsInOrder
<1>4. Catalogue = Ids(total)
  BY <1>2, <1>3, WholeCatalogue
<1>5. Asked' = matching'
  BY <1>1, <1>2 DEF Asked
<1> QED
  BY <1>1, <1>4, <1>5, WantedIs

\* A batch is of ids not asked for before.
LEMMA BatchIsRead == ASSUME SearchInv, ReadBatch PROVE SearchInv'
<1>1. /\ phase = "list" /\ fetched < Len(wanted)
      /\ fetched' = Smaller(fetched + BatchSize, Len(wanted))
      /\ UNCHANGED <<windowVars, poolVars, query, phase, matching, wanted, items>>
  BY DEF ReadBatch
<1>2. PICK returned \in SUBSET Batch :
        wires' = wires \cup returned /\ missing' = missing \cup (Batch \ returned)
  BY DEF ReadBatch
<1>3. /\ WindowInv' /\ PoolInv' /\ LaterPages' = LaterPages
      /\ UNCHANGED <<total, start, count, itemCount, pageCount>>
  BY <1>1, PartsStay
<1>4. wanted = Filter(Ids(total), Asked) /\ Lists(wanted, total, Asked)
  BY <1>1, FilteredIds DEF SearchInv, WindowInv, ListOK
<1>5. /\ fetched \in Nat /\ fetched' \in Nat /\ fetched <= fetched'
      /\ fetched' <= Len(wanted) /\ Len(wanted) \in Nat
  BY <1>1, SearchAssumption DEF SearchInv, Smaller
<1>6. Batch = {wanted[k] : k \in fetched + 1..fetched'}
  BY <1>1 DEF Batch
<1>7. wires \cup missing = {wanted[k] : k \in 1..fetched} /\ wires \cap missing = {}
  BY DEF SearchInv
<1>8. Batch \cap (wires \cup missing) = {}
  <2> SUFFICES ASSUME NEW j \in 1..fetched, NEW k \in fetched + 1..fetched',
                      wanted[j] = wanted[k]
               PROVE  FALSE
    BY <1>6, <1>7
  <2>1. j \in 1..Len(wanted) /\ k \in 1..Len(wanted) /\ j < k
    BY <1>5
  <2>2. wanted[j] \in Nat
    <3>1. wanted \in Seq(1..total) /\ total \in Nat
      BY DEF SearchInv, WindowInv, ListOK
    <3>2. wanted[j] \in 1..total
      BY <2>1, <3>1
    <3> QED
      BY <3>2
  <2>3. \A a, b \in 1..Len(wanted) : a < b => wanted[a] < wanted[b]
    BY <1>4 DEF Lists
  <2> QED
    BY <2>1, <2>2, <2>3
<1>9. wires' \cup missing' = {wanted[k] : k \in 1..fetched'}
  <2>1. wires' \cup missing' = wires \cup missing \cup Batch
    BY <1>2
  <2>2. 1..fetched' = 1..fetched \cup (fetched + 1..fetched')
    BY <1>5
  <2> QED
    BY <1>6, <1>7, <2>1, <2>2
<1>10. wires' \cap missing' = {}
  BY <1>2, <1>7, <1>8
<1>11. /\ Asked' = Asked
       /\ Filter(Ids(total), Asked)' = Filter(Ids(total), Asked)
  BY <1>1, <1>3 DEF Asked, Filter, Ids
<1> QED
  BY <1>1, <1>3, <1>4, <1>5, <1>9, <1>10, <1>11 DEF SearchInv, SearchExact

\* The page cut out of what was found.
LEMMA PageIs ==
  ASSUME NEW V, NEW f \in Seq(V), start \in Nat, count \in Nat
  PROVE  LET length == IF start < Len(f) THEN Smaller(count, Len(f) - start) ELSE 0 IN
         /\ PageOf(f) = [k \in 1..length |-> f[start + k]]
         /\ PageOf(f) \in Seq(V)
<1> DEFINE length == IF start < Len(f) THEN Smaller(count, Len(f) - start) ELSE 0
           last == Smaller(start + count, Len(f))
<1>1. /\ Len(f) \in Nat /\ length \in Nat /\ last \in Nat /\ last <= Len(f)
      /\ 1..(1 + last - (start + 1)) = 1..length
  BY DEF Smaller
<1>2. PageOf(f) = SubSeq(f, start + 1, last)
  BY DEF PageOf
<1>3. \A k \in 1..length : start + k \in 1..Len(f) /\ k + (start + 1) - 1 = start + k
  BY DEF Smaller
<1> HIDE DEF length, last
<1>4. SubSeq(f, start + 1, last) = [k \in 1..length |-> f[start + k]]
  BY <1>1, <1>3
<1>5. [k \in 1..length |-> f[start + k]] \in Seq(V)
  BY <1>1, <1>3
<1> QED
  BY <1>2, <1>4, <1>5 DEF length

LEMMA AnswerIsExact == ASSUME SearchInv, Answer PROVE SearchInv'
<1> DEFINE found == Filter(wanted, wires)
<1>1. /\ phase = "list" /\ fetched = Len(wanted) /\ phase' = "done"
      /\ items' = IF query THEN PageOf(found) ELSE found
      /\ UNCHANGED <<windowVars, poolVars, query, matching, wanted, fetched, wires, missing>>
  BY DEF Answer
<1>2. /\ WindowInv' /\ PoolInv' /\ LaterPages' = LaterPages
      /\ UNCHANGED <<total, start, count, itemCount, pageCount>>
  BY <1>1, PartsStay
<1>3. total \in Nat /\ start \in Nat /\ count \in Nat /\ query \in BOOLEAN
  BY DEF SearchInv, WindowInv, WindowTypeOK, ListOK
<1>4. wanted = Filter(Ids(total), Asked) /\ Lists(wanted, total, Asked)
  BY <1>1, <1>3, FilteredIds DEF SearchInv
<1>5. found = Filter(Ids(total), Asked \cap wires)
  BY <1>3, <1>4, FilterTwice
<1>6. (Asked \cap wires) \cap 1..total = (Asked \ missing) \cap 1..total
  <2> SUFFICES ASSUME NEW i \in 1..total, i \in Asked PROVE i \in wires <=> i \notin missing
    OBVIOUS
  <2>1. PICK k \in 1..Len(wanted) : wanted[k] = i
    BY <1>4 DEF Lists
  <2>2. i \in wires \cup missing
    BY <1>1, <2>1 DEF SearchInv
  <2> QED
    BY <2>2 DEF SearchInv
<1>7. found = Filter(Ids(total), Asked \ missing)
  BY <1>3, <1>5, <1>6, FilterDependsOnIds
<1>8. Lists(found, total, Asked \ missing)
  BY <1>3, <1>7, FilteredIds
<1>9. found \in Seq(1..total) /\ Len(found) <= total /\ Len(found) \in Nat
  BY <1>8 DEF Lists
<1> HIDE DEF found
<1>10. LET from == IF query THEN start ELSE 0
           most == IF query THEN count ELSE total
           length == IF from < Len(found) THEN Smaller(most, Len(found) - from) ELSE 0
       IN  items' = [k \in 1..length |-> found[from + k]] /\ items' \in Seq(1..total)
  <2>1. CASE query
    BY <1>1, <1>3, <1>9, <2>1, PageIs
  <2>2. CASE ~query
    <3>1. items' = found
      BY <1>1, <2>2
    <3>2. (IF 0 < Len(found) THEN Smaller(total, Len(found) - 0) ELSE 0) = Len(found)
      BY <1>3, <1>9 DEF Smaller
    <3>3. found = [k \in 1..Len(found) |-> found[0 + k]]
      BY <1>9
    <3> QED
      BY <1>9, <2>2, <3>1, <3>2, <3>3
  <2> QED
    BY <2>1, <2>2
<1>11. SearchExact'
  <2>1. Filter([k \in 1..total |-> k], Asked \ missing) = found
    BY <1>7 DEF Ids
  <2>2. /\ Asked' = Asked
        /\ Filter([k \in 1..total' |-> k], Asked' \ missing')
             = Filter([k \in 1..total |-> k], Asked \ missing)
    BY <1>1, <1>2 DEF Asked
  <2> QED
    BY <1>1, <1>2, <1>10, <2>1, <2>2 DEF SearchExact, Asked, Smaller
<1>12. /\ Asked' = Asked
       /\ Filter(Ids(total), Asked)' = Filter(Ids(total), Asked)
  BY <1>1, <1>2 DEF Asked, Filter, Ids
<1>13. items' \in Seq(1..total)
  BY <1>10
<1> QED
  BY <1>1, <1>2, <1>4, <1>11, <1>12, <1>13 DEF SearchInv

LEMMA SearchStep == ASSUME SearchInv, [Next]_vars PROVE SearchInv'
<1>1. CASE ReadWindow
  <2>1. WindowNext /\ UNCHANGED <<poolVars, search>>
    BY <1>1 DEF ReadWindow
  <2>2. WindowInv' /\ PoolInv'
    BY <2>1, WindowStep, PoolStepInv DEF SearchInv
  <2>3. UNCHANGED <<total, start, count, pageCount, itemCount>>
    BY <2>1 DEF WindowNext, NothingAsked, FetchFirst, FetchPage, TakeSlice, WindowFails,
                input, list, poolVars
  <2> QED
    BY <2>1, <2>2, <2>3, SearchStill
<1>2. CASE WindowRead
  BY <1>2, WindowIsAsked
<1>3. CASE FirstPageRead
  <2>1. /\ phase = "first" /\ phase' = "rest"
        /\ UNCHANGED <<windowVars, poolVars, query, matching, wanted, fetched, wires, missing, items>>
    BY <1>3 DEF FirstPageRead
  <2>2. /\ WindowInv' /\ PoolInv' /\ LaterPages' = LaterPages
        /\ UNCHANGED <<total, start, count, itemCount, pageCount>>
    BY <2>1, PartsStay
  <2> QED
    BY <2>1, <2>2 DEF SearchInv, Begun, SearchExact
<1>4. CASE ReadLaterPage
  <2>1. PoolNext /\ UNCHANGED <<windowVars, search>>
    BY <1>4 DEF ReadLaterPage
  <2>2. WindowInv' /\ PoolInv'
    BY <2>1, WindowStep, PoolStepInv DEF SearchInv
  <2>3. UNCHANGED <<total, start, count, pageCount, itemCount>>
    BY <2>1 DEF PoolNext, Work, Take, Store, CallFails, Finish, windowVars, input, list
  <2> QED
    BY <2>1, <2>2, <2>3, SearchStill
<1>5. CASE CatalogueRead
  BY <1>5, CatalogueIsRead
<1>6. CASE ReadBatch
  BY <1>6, BatchIsRead
<1>7. CASE Answer
  BY <1>7, AnswerIsExact
<1>8. CASE SearchFails
  <2>1. /\ phase' = "failed"
        /\ UNCHANGED <<windowVars, poolVars, query, matching, wanted, fetched, wires, missing, items>>
    BY <1>8 DEF SearchFails
  <2>2. /\ WindowInv' /\ PoolInv' /\ LaterPages' = LaterPages
        /\ UNCHANGED <<total, start, count, itemCount, pageCount>>
    BY <2>1, PartsStay
  <2> QED
    BY <2>1, <2>2 DEF SearchInv, SearchExact
<1>9. CASE UNCHANGED vars
  <2>1. UNCHANGED <<windowVars, poolVars, search>>
    BY <1>9 DEF vars
  <2> QED
    BY <2>1, PartsStay, SearchStill
<1> QED
  BY <1>1, <1>2, <1>3, <1>4, <1>5, <1>6, <1>7, <1>8, <1>9 DEF Next

LEMMA SearchInvariant == Spec => []SearchInv
<1>1. Init => SearchInv
  BY SearchStarts
<1>2. SearchInv /\ [Next]_vars => SearchInv'
  BY SearchStep
<1> QED
  BY <1>1, <1>2, PTL DEF Spec

\* The variables of a search and of its parts keep their types, among them that
\* what is returned and what is missing are ids of PTV's list.
THEOREM TypeCorrect == Spec => []TypeOK
<1>1. SearchInv => TypeOK
  <2> SUFFICES ASSUME SearchInv PROVE TypeOK
    OBVIOUS
  <2>1. \A k \in 1..fetched : wanted[k] \in 1..total
    <3>1. wanted \in Seq(1..total) /\ fetched \in 0..Len(wanted) /\ total \in Nat
      BY DEF SearchInv, WindowInv, ListOK
    <3> QED
      BY <3>1
  <2>2. wires \subseteq 1..total /\ missing \subseteq 1..total
    BY <2>1 DEF SearchInv
  <2> QED
    BY <2>2 DEF SearchInv, TypeOK, WindowInv, PoolInv
<1> QED
  BY <1>1, SearchInvariant, PTL

\* The pool that a search reads PTV's later pages with hands every page out at
\* most once and keeps their order.
THEOREM PagesReadInOrder == Spec => []MapsInOrder
<1>1. SearchInv => MapsInOrder
  BY ResultsKeepOrder DEF SearchInv, PoolInv, MapsInOrder, CalledAtMostOnce
<1> QED
  BY <1>1, SearchInvariant, PTL

\* Whatever the list, the size of PTV's pages, the page asked for, the names
\* that match, the ids PTV leaves out and the order its answers come in: the
\* window's ids are those at its positions, no page is requested twice for it,
\* and the search answers with exactly the page asked for.
THEOREM SearchAnswersExactly == Spec => []SearchIsExact
<1>1. SearchInv => SearchIsExact
  BY DEF SearchInv, WindowInv, SearchIsExact
<1> QED
  BY <1>1, SearchInvariant, PTL
=============================================================================
