--------------------------- MODULE MCAdapterRegistry ---------------------------
(* Instance of AdapterRegistry: requests and users are told apart by nothing. *)
EXTENDS AdapterRegistry, TLC

Symmetric == Permutations(Calls) \cup Permutations(Users)
=============================================================================
