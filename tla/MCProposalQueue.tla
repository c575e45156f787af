-------------------------- MODULE MCProposalQueue --------------------------
(***************************************************************************)
(* ProposalQueue and MyTasks on small instances.                           *)
(***************************************************************************)
EXTENDS MyTasks, TLC

\* Calls are interchangeable, and carry no order.  Users are too, since
\* every initial assignment of ranks to them is an initial state.
Symmetric == Permutations(Calls) \cup Permutations(Users)

=============================================================================
