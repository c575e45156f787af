------------------------------ MODULE MCPtvReads ------------------------------
(* Instance of PtvReads: an organisation with one below it. *)
EXTENDS PtvReads, TLC

CONSTANTS o1, o2, s1, s2
MCParent == (o1 :> Null) @@ (o2 :> o1)
MCOwner == (s1 :> o1) @@ (s2 :> o1)
Symmetric == Permutations(Calls) \cup Permutations(Processes)
=============================================================================
