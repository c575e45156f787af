------------------------------ MODULE MyTasks ------------------------------
(***************************************************************************)
(* What the queue tells each member is waiting for them (mcp/myTasks.ts):  *)
(* the proposals to sign off and the changes to handle.  The lists are     *)
(* made apart from the checks that resolveProposal and signOffProposal     *)
(* make; here they are read in one piece, at any moment of the queue.      *)
(***************************************************************************)
EXTENDS ProposalQueue

Readinesses == {"waiting_for_reviewers", "needs_another_resolver",
                "ready_to_resolve", "approved_for_manual_publish"}

\* Mutant of AwaitingReview: who asked for changes is asked again.
MutAwaitingReview(u) ==
    {p \in Proposals : row[p].status = "pending" /\ u \in Waiting(p)}

\* The proposals u is asked to sign off and has not decided on.
AwaitingReview(u) ==
    {p \in Proposals : row[p].status = "pending" /\ decision[p][u] = "pending"}

Readiness(u, p) ==
    CASE row[p].status = "approved" -> "approved_for_manual_publish"
      [] row[p].status # "approved" /\ \E w \in Reviewers(p) : decision[p][w] # "approved" ->
           "waiting_for_reviewers"
      [] OTHER ->
           IF fourEyes /\ row[p].proposer = u
           THEN "needs_another_resolver" ELSE "ready_to_resolve"

\* Only who may publish is shown what awaits publishing by hand.
ChangesToHandle(u) ==
    LET shown == {"pending"} \cup (IF role[u] >= Publisher THEN {"approved"} ELSE {})
    IN  {<<p, Readiness(u, p)>> : p \in {q \in Proposals : row[q].status \in shown}}

ListMyTasks(u) ==
    [signOff |-> IF role[u] >= Contributor THEN AwaitingReview(u) ELSE {},
     handle |-> IF role[u] >= Approver THEN ChangesToHandle(u) ELSE {}]

-----------------------------------------------------------------------------
\* The lists tell who can act, and the calls that act agree: nobody is asked
\* to sign off their own proposal; a sign-off asked for is recorded and no
\* longer asked for afterwards; and an approval passes the checks of four
\* eyes and reviewers exactly when its caller's list says so at that moment.
\* Without cut-offs, a call that ends in a check has been refused by it.
TasksTellWhoActs ==
    [][/\ \A u \in Users : \A p \in ListMyTasks(u).signOff : row[p].proposer # u
       /\ \A c \in Calls :
            LET u == call[c].user
                p == call[c].proposal
                Listed(readiness) == <<p, readiness>> \in ListMyTasks(u).handle
            IN  /\ At(c, "decide") /\ At(c, "done")' =>
                     /\ p \in ListMyTasks(u).signOff => decision'[p][u] # "pending"
                     /\ p \notin ListMyTasks(u).signOff'
                /\ At(c, "fourEyes") /\ At(c, "done")' => ~Listed("ready_to_resolve")
                /\ At(c, "fourEyes") /\ At(c, "reviewers")' => ~Listed("needs_another_resolver")
                /\ At(c, "reviewers") /\ At(c, "done")' =>
                     ~Listed("ready_to_resolve") /\ ~Listed("needs_another_resolver")
                /\ At(c, "reviewers") /\ call'[c].pc \notin {"reviewers", "done"} =>
                     ~Listed("waiting_for_reviewers")]_vars

=============================================================================
