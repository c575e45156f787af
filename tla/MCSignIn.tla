------------------------------ MODULE MCSignIn ------------------------------
(* Instance of OAuthGrants: requests are told apart by nothing. *)
EXTENDS OAuthGrants, TLC

Symmetric == Permutations(Calls) \cup Permutations(Emails)
=============================================================================
