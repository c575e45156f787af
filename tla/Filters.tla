-------------------------------- MODULE Filters --------------------------------
(* Array.prototype.filter, as the code uses it on lists of ids and of rows. *)
EXTENDS Integers, Sequences

\* s.filter(x => kept.has(x)).  A recursive function, where SelectSeq would do
\* for TLC: the proofs reason about its equation.
Filter(s, kept) ==
    LET upTo[n \in 0..Len(s)] ==
            IF n = 0 THEN <<>>
            ELSE IF s[n] \in kept THEN Append(upTo[n - 1], s[n]) ELSE upTo[n - 1]
    IN  upTo[Len(s)]

=============================================================================
