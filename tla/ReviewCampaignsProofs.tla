----------------------- MODULE ReviewCampaignsProofs -----------------------
(***************************************************************************)
(* What ReviewCampaigns guarantees for every set of users, campaigns,      *)
(* items, proposals and calls: that nobody reviews their own proposal,     *)
(* whatever the calls do to each other; and, where calls are made one at a *)
(* time, the rules the review pages promise.                               *)
(***************************************************************************)
EXTENDS ReviewCampaigns, TLAPS

USE DEF Campaign, CloseCampaign

\* The steps of a call that has read an item, and of one that works for a
\* proposal that exists.
OnItemSteps == {"campaign", "insert", "setItem", "reopen", "reviewer", "linked",
                "decide", "sendBack"}
OnProposalSteps == {"setItem", "reopen", "reviewer", "sign", "mark"}

\* What a call's record r has established by the step it is at, given the
\* proposals P and their reviewers V.
Fits(r, P, V) ==
    /\ r.pc \in OnItemSteps =>
          /\ r.user \in Users
          /\ r.item \in Items
          /\ r.campaign = CampaignOf[r.item]
    /\ r.pc \in OnProposalSteps \/ (r.pc = "campaign" /\ r.op = "attach") =>
          /\ r.proposal \in Proposals
          /\ P[r.proposal].status # "absent"
    /\ r.pc = "campaign" => r.op \in {"propose", "attach", "reopen", "confirmed",
                                      "changes_proposed"}
    /\ r.pc \in {"linked", "decide"} => r.op \in {"confirmed", "changes_proposed"}
    /\ r.pc = "mark" => r.op \in {"approved", "rejected"}
    /\ r.pc \in {"assign", "close"} => r.campaign \in Campaigns
    /\ r.pc = "sign" => r.user \in V[r.proposal]

CallsFit == \A c \in Calls : Fits(call[c], proposal, reviewers)

\* A proposal that does not exist yet belongs to nobody and nothing.
AbsentIsPlain ==
    \A p \in Proposals : proposal[p].status = "absent" =>
        /\ proposal[p].proposer = None
        /\ proposal[p].item = None
        /\ reviewers[p] = {}
        /\ signed[p] = {}
        /\ due[p] = {}

IInv ==
    /\ TypeOK
    /\ CallsFit
    /\ AbsentIsPlain
    /\ NobodyReviewsOwn

-----------------------------------------------------------------------------
(* What no step undoes, and what the updates of a call do.                  *)

\* A proposal stays, and stays its proposer's; its reviewers only grow.
Grows ==
    \A p \in Proposals :
        /\ proposal[p].status # "absent" =>
              /\ proposal'[p].status # "absent"
              /\ proposal'[p].proposer = proposal[p].proposer
        /\ reviewers[p] \subseteq reviewers'[p]

LEMMA FitsStays ==
    ASSUME NEW r, Fits(r, proposal, reviewers), Grows
    PROVE  Fits(r, proposal', reviewers')
  <1>1. r.pc \in OnProposalSteps \/ (r.pc = "campaign" /\ r.op = "attach") =>
          /\ r.proposal \in Proposals
          /\ proposal'[r.proposal].status # "absent"
    BY DEF Fits, Grows
  <1>2. r.pc = "sign" => r.user \in reviewers'[r.proposal]
    BY DEF Fits, Grows, OnProposalSteps
  <1> QED
    BY <1>1, <1>2 DEF Fits

\* A step that gives one call another record leaves the calls fitting when
\* the new record fits.
LEMMA OneCallChanges ==
    ASSUME TypeOK, CallsFit, Grows, NEW c \in Calls, NEW r \in CallRecord,
           call' = [call EXCEPT ![c] = r],
           Fits(r, proposal', reviewers')
    PROVE  CallsFit' /\ call' \in [Calls -> CallRecord]
  <1>1. call \in [Calls -> CallRecord]
    BY DEF TypeOK
  <1>2. ASSUME NEW d \in Calls PROVE Fits(call'[d], proposal', reviewers')
    <2>1. CASE d = c
      BY <1>1, <2>1
    <2>2. CASE d # c
      <3>1. call'[d] = call[d] /\ Fits(call[d], proposal, reviewers)
        BY <1>1, <2>2 DEF CallsFit
      <3> QED
        BY <3>1, FitsStays
    <2> QED
      BY <2>1, <2>2
  <1> QED
    BY <1>1, <1>2 DEF CallsFit

LEMMA IdleFits ==
    Idle \in CallRecord /\ \A P, V : Fits(Idle, P, V)
  BY DEF Idle, CallRecord, Ops, Steps, Fits, OnItemSteps, OnProposalSteps

\* Call c goes on to step s, with what it has in hand.
LEMMA GotoChanges ==
    ASSUME TypeOK, NEW c \in Calls, NEW s \in Steps, Goto(c, s)
    PROVE  /\ [call[c] EXCEPT !.pc = s] \in CallRecord
           /\ call' = [call EXCEPT ![c] = [call[c] EXCEPT !.pc = s]]
  BY DEF TypeOK, Goto, CallRecord

\* Calls leave the proposals they do not touch, so nothing is lost.
LEMMA KeepingGrows ==
    ASSUME UNCHANGED <<proposal, reviewers>> PROVE Grows
  BY DEF Grows

LEMMA InitInv == Init => IInv
  <1> SUFFICES ASSUME Init PROVE IInv
    OBVIOUS
  <1>1. TypeOK
    BY IdleFits DEF Init, TypeOK, Item, Proposal, ItemStatuses
  <1>2. CallsFit
    BY IdleFits DEF Init, CallsFit
  <1>3. AbsentIsPlain /\ NobodyReviewsOwn
    BY DEF Init, AbsentIsPlain, NobodyReviewsOwn
  <1> QED
    BY <1>1, <1>2, <1>3 DEF IInv

-----------------------------------------------------------------------------
(* One lemma for the steps of each kind.                                    *)

\* Most steps leave the proposals alone: they change campaigns or items,
\* and give one call a record that fits.
LEMMA QueueKept ==
    ASSUME IInv, UNCHANGED queue, NEW c \in Calls, NEW r \in CallRecord,
           call' = [call EXCEPT ![c] = r],
           Fits(r, proposal, reviewers),
           campaign' \in [Campaigns -> Campaign],
           item' \in [Items -> Item]
    PROVE  IInv'
  <1>1. UNCHANGED <<proposal, reviewers, signed, due>>
    BY DEF queue
  <1>2. CallsFit' /\ call' \in [Calls -> CallRecord]
    BY <1>1, KeepingGrows, OneCallChanges DEF IInv
  <1>3. TypeOK'
    BY <1>1, <1>2 DEF IInv, TypeOK
  <1>4. AbsentIsPlain' /\ NobodyReviewsOwn'
    BY <1>1 DEF IInv, AbsentIsPlain, NobodyReviewsOwn
  <1> QED
    BY <1>2, <1>3, <1>4 DEF IInv

\* A call starts, without having changed anything yet.
LEMMA StartInv ==
    ASSUME IInv, NEW c \in Calls, Start(c)
    PROVE  IInv'
  <1> DEFINE Begins(r) == /\ r \in CallRecord
                          /\ Fits(r, proposal, reviewers)
                          /\ call' = [call EXCEPT ![c] = r]
  <1>1. SUFFICES \E r : Begins(r) /\ UNCHANGED <<campaign, item, queue>>
    BY QueueKept DEF IInv, TypeOK
  <1> USE DEF OnItemSteps, OnProposalSteps
  <1>2. ASSUME NEW u \in Users, StartCampaign(c, u)
        PROVE  \E r : Begins(r) /\ UNCHANGED <<campaign, item, queue>>
    <2> DEFINE r == [Idle EXCEPT !.op = "start", !.user = u, !.pc = "create"]
    <2>1. Begins(r)
      BY <1>2 DEF StartCampaign, Idle, CallRecord, Ops, Steps, Fits
    <2> QED
      BY <1>2, <2>1 DEF StartCampaign
  <1>3. ASSUME NEW u \in Users, NEW k \in Campaigns, NEW op \in {"assign", "close"},
               StartOnCampaign(c, u, k, op)
        PROVE  \E r : Begins(r) /\ UNCHANGED <<campaign, item, queue>>
    <2> DEFINE r == [Idle EXCEPT !.op = op, !.user = u, !.campaign = k, !.pc = op]
    <2>1. Begins(r)
      BY <1>3 DEF StartOnCampaign, Idle, CallRecord, Ops, Steps, Fits
    <2> QED
      BY <1>3, <2>1 DEF StartOnCampaign
  <1>4. ASSUME NEW u \in Users, NEW i \in Items, NEW p \in Proposals \cup {None},
               NEW op \in {"propose", "attach", "reopen", "confirmed", "changes_proposed"},
               OnItem(c, u, i, op, p),
               op = "attach" => p \in Proposals /\ proposal[p].status # "absent"
        PROVE  \E r : Begins(r) /\ UNCHANGED <<campaign, item, queue>>
    <2> DEFINE r == [op |-> op, user |-> u, campaign |-> CampaignOf[i], item |-> i,
                     proposal |-> p, assignee |-> item[i].assignee,
                     wasOpen |-> item[i].status = "open", pc |-> "campaign"]
    <2>1. item[i].assignee \in Users \cup {None} /\ CampaignOf[i] \in Campaigns
      BY ConstantsAssumption DEF IInv, TypeOK, Item
    <2>2. r \in CallRecord
      BY <2>1 DEF CallRecord, Ops, Steps
    <2>3. Fits(r, proposal, reviewers)
      BY <1>4 DEF Fits
    <2> QED
      BY <1>4, <2>2, <2>3 DEF OnItem
  <1>5. ASSUME NEW u \in Users, NEW p \in Proposals, NEW op \in {"signOff", "takeBack"},
               StartSignOff(c, u, p, op)
        PROVE  \E r : Begins(r) /\ UNCHANGED <<campaign, item, queue>>
    <2> DEFINE r == [Idle EXCEPT !.op = op, !.user = u, !.proposal = p, !.pc = "sign"]
    <2>1. Begins(r)
      BY <1>5 DEF StartSignOff, Idle, CallRecord, Ops, Steps, Fits
    <2> QED
      BY <1>5, <2>1 DEF StartSignOff
  <1>6. ASSUME NEW u \in Users, NEW p \in Proposals, NEW op \in {"approved", "rejected"},
               StartResolve(c, u, p, op)
        PROVE  \E r : Begins(r) /\ UNCHANGED <<campaign, item, queue>>
    <2> DEFINE r == [Idle EXCEPT !.op = op, !.user = u, !.proposal = p, !.pc = "mark"]
    <2>1. Begins(r)
      BY <1>6 DEF StartResolve, Idle, CallRecord, Ops, Steps, Fits
    <2> QED
      BY <1>6, <2>1 DEF StartResolve
  <1> QED
    BY <1>2, <1>3, <1>4, <1>5, <1>6
       DEF Start, StartPropose, StartAttach, StartComplete, StartReopen

\* A call's steps on campaigns and items, and one that only looks.
LEMMA RecordStepsInv ==
    ASSUME IInv, NEW c \in Calls,
           \/ Create(c) \/ Assign(c) \/ Close(c) \/ CheckCampaign(c) \/ Reopen(c)
           \/ ListLinked(c) \/ Decide(c) \/ SendBack(c) \/ CutOff(c)
    PROVE  IInv'
  <1> USE DEF OnItemSteps, OnProposalSteps
  <1>1. /\ TypeOK
        /\ call[c] \in CallRecord
        /\ Fits(call[c], proposal, reviewers)
        /\ campaign \in [Campaigns -> Campaign]
        /\ item \in [Items -> Item]
    BY DEF IInv, TypeOK, CallsFit
  <1>2. UNCHANGED queue
    BY DEF Create, Assign, Close, CheckCampaign, Reopen, ListLinked, Decide, SendBack,
           CutOff
  <1>3. campaign' \in [Campaigns -> Campaign]
    BY <1>1 DEF Create, Assign, Close, CheckCampaign, Reopen, ListLinked, Decide,
                SendBack, CutOff, At, Fits
  <1>4. item' \in [Items -> Item]
    <2>1. CASE Assign(c)
      BY <1>1, <2>1 DEF Assign, Item
    <2>2. CASE Reopen(c) \/ Decide(c) \/ SendBack(c)
      BY <1>1, <2>2 DEF Reopen, Decide, SendBack, At, Fits, Item, ItemStatuses
    <2> QED
      BY <1>1, <2>1, <2>2 DEF Create, Close, CheckCampaign, ListLinked, CutOff
  <1>5. CASE End(c)
    BY <1>2, <1>3, <1>4, <1>5, IdleFits, QueueKept DEF End
  <1>6. ASSUME NEW s \in Steps, Goto(c, s),
               Fits([call[c] EXCEPT !.pc = s], proposal, reviewers)
        PROVE  IInv'
    BY <1>1, <1>2, <1>3, <1>4, <1>6, GotoChanges, QueueKept
  <1>7. CASE CheckCampaign(c) /\ ~End(c)
    <2> DEFINE s == AfterCampaign[call[c].op]
    <2>1. Goto(c, s) /\ At(c, "campaign")
      BY <1>7 DEF CheckCampaign
    <2>2. s \in Steps /\ Fits([call[c] EXCEPT !.pc = s], proposal, reviewers)
      BY <1>1, <2>1 DEF At, AfterCampaign, Fits, Steps, CallRecord
    <2> QED
      BY <1>6, <2>1, <2>2
  <1>8. CASE Reopen(c)
    <2>1. Goto(c, "reviewer") /\ At(c, "reopen") /\ "reviewer" \in Steps
      BY <1>8 DEF Reopen, Steps
    <2>2. Fits([call[c] EXCEPT !.pc = "reviewer"], proposal, reviewers)
      BY <1>1, <2>1 DEF At, Fits, CallRecord
    <2> QED
      BY <1>6, <2>1, <2>2
  <1>9. CASE ListLinked(c) /\ ~End(c)
    <2>1. Goto(c, "decide") /\ At(c, "linked") /\ "decide" \in Steps
      BY <1>9 DEF ListLinked, Steps
    <2>2. Fits([call[c] EXCEPT !.pc = "decide"], proposal, reviewers)
      BY <1>1, <2>1 DEF At, Fits, CallRecord
    <2> QED
      BY <1>6, <2>1, <2>2
  <1> QED
    BY <1>5, <1>7, <1>8, <1>9 DEF Create, Assign, Close, Decide, SendBack, CutOff

\* User u's proposal p gets its row, for item i.
Inserts(p, u, i) ==
    /\ proposal' \in [Proposals -> Proposal]
    /\ proposal'[p].status = "pending"
    /\ proposal'[p].proposer = u
    /\ proposal'[p].item = i
    /\ \A q \in Proposals : q # p => proposal'[q] = proposal[q]

\* Inserting a proposal for an item, or without one: its row is new.
LEMMA InsertInv ==
    ASSUME IInv, NEW p \in Proposals, NEW u \in Users, NEW i \in Items \cup {None},
           proposal[p].status = "absent", Inserts(p, u, i),
           UNCHANGED <<reviewers, signed>>
    PROVE  /\ Grows
           /\ proposal' \in [Proposals -> Proposal]
           /\ NobodyReviewsOwn'
           /\ proposal'[p].status # "absent"
           /\ \A q \in Proposals : proposal'[q].status = "absent" => q # p
  <1>1. Grows
    BY DEF Grows, Inserts
  <1>2. NobodyReviewsOwn'
    BY DEF IInv, AbsentIsPlain, NobodyReviewsOwn, Inserts
  <1> QED
    BY <1>1, <1>2 DEF Inserts

LEMMA InsertLinkedInv ==
    ASSUME IInv, NEW c \in Calls, InsertLinked(c)
    PROVE  IInv'
  <1> USE DEF OnItemSteps, OnProposalSteps
  <1>1. /\ TypeOK
        /\ CallsFit
        /\ call[c] \in CallRecord
        /\ Fits(call[c], proposal, reviewers)
        /\ At(c, "insert")
        /\ UNCHANGED <<campaign, item, reviewers, signed>>
    BY DEF IInv, TypeOK, CallsFit, InsertLinked
  <1>2. CASE End(c) /\ UNCHANGED <<proposal, due>>
    BY <1>1, <1>2, IdleFits, QueueKept DEF End, queue, TypeOK
  <1>3. ASSUME NEW p \in Proposals,
               proposal[p].status = "absent",
               proposal' = [proposal EXCEPT ![p] =
                   [status |-> "pending", proposer |-> call[c].user,
                    item |-> call[c].item]],
               Links(c, p, call[c].user),
               call' = [call EXCEPT ![c].proposal = p, ![c].pc = AfterLink(c)]
        PROVE  IInv'
    <2> DEFINE r == [call[c] EXCEPT !.proposal = p, !.pc = AfterLink(c)]
    <2>1. call[c].user \in Users /\ call[c].item \in Items
      BY <1>1 DEF At, Fits
    <2>2. Inserts(p, call[c].user, call[c].item)
      BY <1>1, <1>3, <2>1 DEF Inserts, TypeOK, Proposal
    <2>3. /\ Grows
          /\ proposal' \in [Proposals -> Proposal]
          /\ NobodyReviewsOwn'
          /\ proposal'[p].status # "absent"
          /\ \A q \in Proposals : proposal'[q].status = "absent" => q # p
      BY <1>1, <1>3, <2>1, <2>2, InsertInv
    <2>4. r \in CallRecord /\ call' = [call EXCEPT ![c] = r]
      BY <1>1, <1>3 DEF AfterLink, CallRecord, Steps, TypeOK
    <2>5. Fits(r, proposal', reviewers')
      BY <1>1, <2>3, <2>4 DEF Fits, AfterLink, At, CallRecord
    <2>6. CallsFit' /\ call' \in [Calls -> CallRecord]
      BY <1>1, <2>3, <2>4, <2>5, OneCallChanges
    <2>7. /\ due' \in [Proposals -> SUBSET Users]
          /\ \A q \in Proposals : q # p => due'[q] = due[q]
      BY <1>1, <1>3, <2>1 DEF Links, TypeOK, Item
    <2>8. TypeOK'
      BY <1>1, <2>3, <2>6, <2>7 DEF TypeOK
    <2>9. AbsentIsPlain'
      BY <1>1, <1>3, <2>3, <2>7 DEF IInv, AbsentIsPlain, TypeOK
    <2> QED
      BY <2>3, <2>6, <2>8, <2>9 DEF IInv
  <1> QED
    BY <1>2, <1>3 DEF InsertLinked

\* A proposal that exists is attached to an item: it stays its proposer's.
LEMMA SetItemInv ==
    ASSUME IInv, NEW c \in Calls, SetItem(c)
    PROVE  IInv'
  <1> USE DEF OnItemSteps, OnProposalSteps
  <1> DEFINE p == call[c].proposal
             r == [call[c] EXCEPT !.pc = AfterLink(c)]
  <1>1. /\ TypeOK
        /\ CallsFit
        /\ call[c] \in CallRecord
        /\ Fits(call[c], proposal, reviewers)
        /\ At(c, "setItem")
        /\ proposal' = [proposal EXCEPT ![p].item = call[c].item]
        /\ Links(c, p, proposal[p].proposer)
        /\ Goto(c, AfterLink(c))
        /\ AfterLink(c) \in Steps
        /\ UNCHANGED <<campaign, item, reviewers, signed>>
    BY DEF IInv, TypeOK, CallsFit, SetItem, AfterLink, Steps
  <1>2. /\ p \in Proposals
        /\ proposal[p].status # "absent"
        /\ call[c].item \in Items
    BY <1>1 DEF At, Fits
  <1>3. /\ proposal' \in [Proposals -> Proposal]
        /\ \A q \in Proposals : /\ proposal'[q].status = proposal[q].status
                                /\ proposal'[q].proposer = proposal[q].proposer
                                /\ q # p => proposal'[q] = proposal[q]
    BY <1>1, <1>2 DEF TypeOK, Proposal
  <1>4. Grows
    BY <1>1, <1>3 DEF Grows
  <1>5. r \in CallRecord /\ call' = [call EXCEPT ![c] = r]
    BY <1>1, GotoChanges
  <1>6. Fits(r, proposal', reviewers')
    BY <1>1, <1>2, <1>3, <1>5 DEF Fits, AfterLink, At, CallRecord
  <1>7. CallsFit' /\ call' \in [Calls -> CallRecord]
    BY <1>1, <1>4, <1>5, <1>6, OneCallChanges
  <1>8. /\ due' \in [Proposals -> SUBSET Users]
        /\ \A q \in Proposals : q # p => due'[q] = due[q]
    BY <1>1, <1>2 DEF Links, TypeOK, Item
  <1>9. TypeOK'
    BY <1>1, <1>3, <1>7, <1>8 DEF TypeOK
  <1>10. AbsentIsPlain' /\ NobodyReviewsOwn'
    BY <1>1, <1>2, <1>3, <1>8 DEF IInv, AbsentIsPlain, NobodyReviewsOwn
  <1> QED
    BY <1>7, <1>9, <1>10 DEF IInv

\* The reviewer added is not the proposer, who cannot have changed since.
LEMMA AddReviewerInv ==
    ASSUME IInv, NEW c \in Calls, AddReviewer(c)
    PROVE  IInv'
  <1> USE DEF OnItemSteps, OnProposalSteps
  <1> DEFINE p == call[c].proposal
             to == SentTo(c, proposal[p].proposer)
  <1>1. /\ TypeOK
        /\ CallsFit
        /\ call[c] \in CallRecord
        /\ Fits(call[c], proposal, reviewers)
        /\ At(c, "reviewer")
        /\ reviewers' = [reviewers EXCEPT ![p] = @ \cup to]
        /\ End(c)
        /\ UNCHANGED <<campaign, item, proposal, signed, due>>
    BY DEF IInv, TypeOK, CallsFit, AddReviewer
  <1>2. p \in Proposals /\ proposal[p].status # "absent"
    BY <1>1 DEF At, Fits
  <1>3. to \subseteq Users /\ proposal[p].proposer \notin to
    BY <1>1 DEF SentTo, CallRecord
  <1>4. /\ reviewers' \in [Proposals -> SUBSET Users]
        /\ reviewers'[p] = reviewers[p] \cup to
        /\ \A q \in Proposals : q # p => reviewers'[q] = reviewers[q]
    BY <1>1, <1>2, <1>3 DEF TypeOK
  <1>5. Grows
    BY <1>1, <1>4 DEF Grows
  <1>6. CallsFit' /\ call' \in [Calls -> CallRecord]
    BY <1>1, <1>5, IdleFits, OneCallChanges DEF End
  <1>7. TypeOK'
    BY <1>1, <1>4, <1>6 DEF TypeOK
  <1>8. AbsentIsPlain' /\ NobodyReviewsOwn'
    BY <1>1, <1>2, <1>3, <1>4 DEF IInv, AbsentIsPlain, NobodyReviewsOwn
  <1> QED
    BY <1>6, <1>7, <1>8 DEF IInv

\* Who signs is on the list of reviewers.
LEMMA SignInv ==
    ASSUME IInv, NEW c \in Calls, Sign(c)
    PROVE  IInv'
  <1> USE DEF OnItemSteps, OnProposalSteps
  <1> DEFINE p == call[c].proposal
  <1>1. /\ TypeOK
        /\ CallsFit
        /\ Fits(call[c], proposal, reviewers)
        /\ At(c, "sign")
        /\ End(c)
        /\ UNCHANGED <<campaign, item, proposal, reviewers, due>>
    BY DEF IInv, TypeOK, CallsFit, Sign
  <1>2. /\ p \in Proposals
        /\ proposal[p].status # "absent"
        /\ call[c].user \in reviewers[p]
    BY <1>1 DEF At, Fits
  <1>3. /\ signed' \in [Proposals -> SUBSET Users]
        /\ signed'[p] \subseteq signed[p] \cup {call[c].user}
        /\ \A q \in Proposals : q # p => signed'[q] = signed[q]
    BY <1>1, <1>2 DEF TypeOK, Sign
  <1>4. CallsFit' /\ call' \in [Calls -> CallRecord]
    BY <1>1, KeepingGrows, IdleFits, OneCallChanges DEF End
  <1>5. TypeOK'
    BY <1>1, <1>3, <1>4 DEF TypeOK
  <1>6. AbsentIsPlain' /\ NobodyReviewsOwn'
    BY <1>1, <1>2, <1>3 DEF IInv, AbsentIsPlain, NobodyReviewsOwn
  <1> QED
    BY <1>4, <1>5, <1>6 DEF IInv

LEMMA MarkResolvedInv ==
    ASSUME IInv, NEW c \in Calls, MarkResolved(c)
    PROVE  IInv'
  <1> USE DEF OnItemSteps, OnProposalSteps
  <1> DEFINE p == call[c].proposal
  <1>1. /\ TypeOK
        /\ CallsFit
        /\ Fits(call[c], proposal, reviewers)
        /\ At(c, "mark")
        /\ End(c)
        /\ UNCHANGED <<campaign, item, reviewers, signed, due>>
    BY DEF IInv, TypeOK, CallsFit, MarkResolved
  <1>2. /\ p \in Proposals
        /\ proposal[p].status # "absent"
        /\ call[c].op \in {"approved", "rejected"}
    BY <1>1 DEF At, Fits
  <1>3. /\ proposal' \in [Proposals -> Proposal]
        /\ \A q \in Proposals : /\ proposal'[q].proposer = proposal[q].proposer
                                /\ proposal'[q].status = "absent"
                                      <=> proposal[q].status = "absent"
                                /\ proposal'[q].item = proposal[q].item
    BY <1>1, <1>2 DEF TypeOK, Proposal, MarkResolved
  <1>4. Grows
    BY <1>1, <1>3 DEF Grows
  <1>5. CallsFit' /\ call' \in [Calls -> CallRecord]
    BY <1>1, <1>4, IdleFits, OneCallChanges DEF End
  <1>6. TypeOK'
    BY <1>1, <1>3, <1>5 DEF TypeOK
  <1>7. AbsentIsPlain' /\ NobodyReviewsOwn'
    BY <1>1, <1>3 DEF IInv, AbsentIsPlain, NobodyReviewsOwn
  <1> QED
    BY <1>5, <1>6, <1>7 DEF IInv

LEMMA QueuePlainInv ==
    ASSUME IInv, NEW u \in Users, NEW p \in Proposals, QueuePlain(u, p)
    PROVE  IInv'
  <1>1. /\ TypeOK
        /\ CallsFit
        /\ proposal[p].status = "absent" /\ proposal[p].item = None
        /\ UNCHANGED <<campaign, item, reviewers, signed, call, due>>
    BY DEF IInv, AbsentIsPlain, QueuePlain
  <1>2. Inserts(p, u, None)
    BY <1>1 DEF Inserts, QueuePlain, TypeOK, Proposal
  <1>3. /\ Grows
        /\ proposal' \in [Proposals -> Proposal]
        /\ NobodyReviewsOwn'
        /\ \A q \in Proposals : proposal'[q].status = "absent" => q # p
    BY <1>1, <1>2, InsertInv
  <1>4. CallsFit'
    BY <1>1, <1>3, FitsStays DEF CallsFit
  <1>5. TypeOK'
    BY <1>1, <1>3 DEF TypeOK
  <1>6. AbsentIsPlain'
    BY <1>1, <1>2, <1>3 DEF IInv, AbsentIsPlain, Inserts
  <1> QED
    BY <1>3, <1>4, <1>5, <1>6 DEF IInv

LEMMA StepInv == IInv /\ [Next]_vars => IInv'
  <1> SUFFICES ASSUME IInv, [Next]_vars PROVE IInv'
    OBVIOUS
  <1>1. ASSUME NEW c \in Calls, Step(c) PROVE IInv'
    BY <1>1, RecordStepsInv, InsertLinkedInv, SetItemInv, AddReviewerInv, SignInv,
       MarkResolvedInv DEF Step
  <1>2. ASSUME NEW c \in Calls, Start(c) \/ CutOff(c) PROVE IInv'
    BY <1>2, StartInv, RecordStepsInv
  <1>3. ASSUME NEW u \in Users, NEW p \in Proposals, QueuePlain(u, p) PROVE IInv'
    BY <1>3, QueuePlainInv
  <1>4. CASE UNCHANGED vars
    BY <1>4 DEF vars, queue, IInv, TypeOK, CallsFit, AbsentIsPlain, NobodyReviewsOwn
  <1> QED
    BY <1>1, <1>2, <1>3, <1>4 DEF Next

LEMMA Invariant == Spec => []IInv
  BY InitInv, StepInv, PTL DEF Spec

\* The variables keep their types, with any number of calls, cut off or not.
THEOREM TypeCorrect == Spec => []TypeOK
  <1>1. IInv => TypeOK
    BY DEF IInv
  <1> QED
    BY <1>1, Invariant, PTL

\* Whoever links a proposal to whichever item, and however an item's
\* reviewer changes while calls are under way, nobody becomes a reviewer of
\* their own proposal or signs it off (queueForReviewItem,
\* attachProposalToReviewItem).
THEOREM NobodyReviewsTheirOwn == Spec => []NobodyReviewsOwn
  <1>1. IInv => NobodyReviewsOwn
    BY DEF IInv
  <1> QED
    BY <1>1, Invariant, PTL

-----------------------------------------------------------------------------
(* One call at a time.  Calls that overlap can break the rules of the       *)
(* review pages; what holds of each call made alone is what the code of     *)
(* each call was written for.                                               *)

Alone == \A c, d \in Calls : c = d

\* The steps that follow requireOpen.
OpenSteps == {"assign", "insert", "setItem", "reopen", "reviewer", "linked",
              "decide", "sendBack"}

\* A decision of changes has a linked proposal, between calls and during them.
ChangesStayLinked ==
    \A i \in Items : item[i].status = "changes_proposed" => LinkedTo(i) # {}

\* What a call has read is still so, if no other call was under way.
ReadsHold ==
    \A c \in Calls :
        /\ At(c, "create") => \A k \in Campaigns : campaign[k] # "open"
        /\ call[c].pc \in OpenSteps => campaign[call[c].campaign] = "open"
        /\ At(c, "setItem") \/ (At(c, "campaign") /\ call[c].op = "attach") =>
              proposal[call[c].proposal].item \in {None, call[c].item}
        /\ At(c, "decide") /\ call[c].op = "changes_proposed" =>
              LinkedTo(call[c].item) # {}

AloneInv ==
    /\ OneOpenCampaign
    /\ ChangesStayLinked
    /\ ReadsHold

\* What a step of call c, made alone, does to the record of c: it keeps
\* everything but the step, or is done.
LEMMA AloneCall ==
    ASSUME IInv, Alone, NEW c \in Calls
    PROVE  /\ \A d \in Calls : d = c
           /\ \A s \in Steps : Goto(c, s) =>
                     /\ call'[c].pc = s
                     /\ call'[c].op = call[c].op
                     /\ call'[c].campaign = call[c].campaign
                     /\ call'[c].item = call[c].item
                     /\ call'[c].proposal = call[c].proposal
                     /\ call'[c].user = call[c].user
                     /\ call'[c].assignee = call[c].assignee
                     /\ call'[c].wasOpen = call[c].wasOpen
           /\ End(c) => call'[c].pc = "idle" /\ call'[c].op = "none"
  BY DEF Alone, IInv, TypeOK, CallRecord, Goto, End, Idle

\* What a call has seen when it starts; it has changed nothing.
LEMMA StartFacts ==
    ASSUME TypeOK, NEW c \in Calls, Start(c)
    PROVE  /\ UNCHANGED <<campaign, item, queue>>
           /\ call'[c].pc \in {"create", "assign", "close", "campaign", "sign", "mark"}
           /\ call'[c].pc = "create" => \A k \in Campaigns : campaign[k] # "open"
           /\ call'[c].pc = "assign" => campaign[call'[c].campaign] = "open"
           /\ call'[c].pc = "campaign" =>
                 /\ call'[c].assignee = item[call'[c].item].assignee
                 /\ call'[c].wasOpen <=> item[call'[c].item].status = "open"
                 /\ call'[c].op = "attach" =>
                       proposal[call'[c].proposal].item \in {None, call'[c].item}
           /\ call'[c].pc = "mark" /\ call'[c].op = "approved" =>
                 reviewers[call'[c].proposal] \subseteq signed[call'[c].proposal]
  <1> DEFINE Fine(r) ==
          /\ r.pc \in {"create", "assign", "close", "campaign", "sign", "mark"}
          /\ r.pc = "create" => \A k \in Campaigns : campaign[k] # "open"
          /\ r.pc = "assign" => campaign[r.campaign] = "open"
          /\ r.pc = "campaign" =>
                /\ r.assignee = item[r.item].assignee
                /\ r.wasOpen <=> item[r.item].status = "open"
                /\ r.op = "attach" => proposal[r.proposal].item \in {None, r.item}
          /\ r.pc = "mark" /\ r.op = "approved" =>
                reviewers[r.proposal] \subseteq signed[r.proposal]
  <1>1. ASSUME NEW r, call' = [call EXCEPT ![c] = r], Fine(r),
               UNCHANGED <<campaign, item, queue>>
        PROVE  Fine(call'[c]) /\ UNCHANGED <<campaign, item, queue>>
    <2>1. call'[c] = r
      BY <1>1 DEF TypeOK
    <2> QED
      BY <1>1, <2>1
  <1>2. ASSUME NEW u \in Users, StartCampaign(c, u)
        PROVE  Fine(call'[c]) /\ UNCHANGED <<campaign, item, queue>>
    <2> DEFINE r == [Idle EXCEPT !.op = "start", !.user = u, !.pc = "create"]
    <2>1. Fine(r)
      BY <1>2 DEF StartCampaign, Idle
    <2> QED
      BY <1>1, <1>2, <2>1 DEF StartCampaign
  <1>3. ASSUME NEW u \in Users, NEW k \in Campaigns, NEW op \in {"assign", "close"},
               StartOnCampaign(c, u, k, op)
        PROVE  Fine(call'[c]) /\ UNCHANGED <<campaign, item, queue>>
    <2> DEFINE r == [Idle EXCEPT !.op = op, !.user = u, !.campaign = k, !.pc = op]
    <2>1. Fine(r)
      BY <1>3 DEF StartOnCampaign, Idle
    <2> QED
      BY <1>1, <1>3, <2>1 DEF StartOnCampaign
  <1>4. ASSUME NEW u \in Users, NEW i \in Items, NEW p, NEW op,
               OnItem(c, u, i, op, p),
               op = "attach" => proposal[p].item \in {None, i}
        PROVE  Fine(call'[c]) /\ UNCHANGED <<campaign, item, queue>>
    <2> DEFINE r == [op |-> op, user |-> u, campaign |-> CampaignOf[i], item |-> i,
                     proposal |-> p, assignee |-> item[i].assignee,
                     wasOpen |-> item[i].status = "open", pc |-> "campaign"]
    <2>1. Fine(r)
      BY <1>4
    <2> QED
      BY <1>1, <1>4, <2>1 DEF OnItem
  <1>5. ASSUME NEW u \in Users, NEW p \in Proposals, NEW op \in {"signOff", "takeBack"},
               StartSignOff(c, u, p, op)
        PROVE  Fine(call'[c]) /\ UNCHANGED <<campaign, item, queue>>
    <2> DEFINE r == [Idle EXCEPT !.op = op, !.user = u, !.proposal = p, !.pc = "sign"]
    <2>1. Fine(r)
      BY <1>5 DEF StartSignOff, Idle
    <2> QED
      BY <1>1, <1>5, <2>1 DEF StartSignOff
  <1>6. ASSUME NEW u \in Users, NEW p \in Proposals, NEW op \in {"approved", "rejected"},
               StartResolve(c, u, p, op)
        PROVE  Fine(call'[c]) /\ UNCHANGED <<campaign, item, queue>>
    <2> DEFINE r == [Idle EXCEPT !.op = op, !.user = u, !.proposal = p, !.pc = "mark"]
    <2>1. Fine(r)
      BY <1>6 DEF StartResolve, Idle
    <2> QED
      BY <1>1, <1>6, <2>1 DEF StartResolve
  <1>7. Fine(call'[c]) /\ UNCHANGED <<campaign, item, queue>>
    <2> HIDE DEF Fine
    <2> QED
      BY <1>2, <1>3, <1>4, <1>5, <1>6
         DEF Start, StartPropose, StartAttach, StartComplete, StartReopen
  <1> QED
    BY <1>7

LEMMA AloneInit == Init => AloneInv
  BY DEF Init, AloneInv, OneOpenCampaign, ChangesStayLinked, ReadsHold, At, Idle,
         OpenSteps, ItemStatuses

\* Alone, a step keeps the record of closed campaigns and the links there are.
LEMMA AloneStays ==
    ASSUME IInv, Alone, AloneInv, Next
    PROVE  ItemsStay /\ LinksStay
  <1> USE DEF OnItemSteps, OnProposalSteps, OpenSteps
  <1>1. ASSUME NEW c \in Calls, Step(c)
        PROVE  ItemsStay /\ LinksStay
    <2>1. /\ TypeOK
          /\ AbsentIsPlain
          /\ call[c] \in CallRecord
          /\ Fits(call[c], proposal, reviewers)
          /\ call[c].pc \in OpenSteps => campaign[call[c].campaign] = "open"
          /\ At(c, "setItem") => proposal[call[c].proposal].item \in {None, call[c].item}
      BY DEF IInv, TypeOK, CallsFit, AloneInv, ReadsHold
    <2>2. CASE Assign(c)
      BY <2>1, <2>2 DEF Assign, At, Fits, ItemsOf, ItemsStay, LinksStay, TypeOK, queue
    <2>3. CASE Reopen(c) \/ Decide(c) \/ SendBack(c)
      BY <2>1, <2>3 DEF Reopen, Decide, SendBack, At, Fits, ItemsStay, LinksStay, TypeOK,
                        queue
    <2>4. CASE InsertLinked(c)
      BY <2>1, <2>4 DEF InsertLinked, ItemsStay, LinksStay, TypeOK, AbsentIsPlain
    <2>5. CASE SetItem(c)
      <3>1. /\ At(c, "setItem")
            /\ call[c].proposal \in Proposals
            /\ proposal' = [proposal EXCEPT ![call[c].proposal].item = call[c].item]
            /\ UNCHANGED item
        BY <2>1, <2>5 DEF SetItem, At, Fits
      <3>2. \A p \in Proposals :
               proposal'[p].item = IF p = call[c].proposal THEN call[c].item
                                                           ELSE proposal[p].item
        BY <2>1, <3>1 DEF TypeOK, Proposal
      <3> QED
        BY <2>1, <3>1, <3>2 DEF ItemsStay, LinksStay
    <2>6. CASE MarkResolved(c)
      <3>1. \A p \in Proposals : proposal'[p].item = proposal[p].item
        BY <2>1, <2>6 DEF MarkResolved, TypeOK, Proposal
      <3> QED
        BY <2>6, <3>1 DEF MarkResolved, ItemsStay, LinksStay
    <2> QED
      BY <1>1, <2>2, <2>3, <2>4, <2>5, <2>6
         DEF Step, Create, Close, CheckCampaign, AddReviewer, ListLinked, Sign, queue,
             ItemsStay, LinksStay
  <1>2. ASSUME NEW c \in Calls, Start(c) \/ CutOff(c)
        PROVE  ItemsStay /\ LinksStay
    <2>1. UNCHANGED <<item, proposal>>
      BY <1>2 DEF Start, CutOff, StartCampaign, StartOnCampaign, StartPropose,
                  StartAttach, StartComplete, StartReopen, OnItem, StartSignOff,
                  StartResolve, queue
    <2> QED
      BY <2>1 DEF ItemsStay, LinksStay
  <1>3. ASSUME NEW u \in Users, NEW p \in Proposals, QueuePlain(u, p)
        PROVE  ItemsStay /\ LinksStay
    BY <1>3 DEF QueuePlain, ItemsStay, LinksStay, IInv, TypeOK, AbsentIsPlain, Proposal
  <1> QED
    BY <1>1, <1>2, <1>3 DEF Next

LEMMA AloneStep ==
    ASSUME IInv, Alone, AloneInv, Next
    PROVE  AloneInv'
  <1> USE DEF OnItemSteps, OnProposalSteps, OpenSteps
  <1>1. \A i \in Items : LinkedTo(i) # {} => LinkedTo(i)' # {}
    <2>1. \A i \in Items : i # None
      BY ConstantsAssumption
    <2> QED
      BY <2>1, AloneStays DEF LinkedTo, LinksStay
  <1>2. ASSUME NEW c \in Calls, Step(c)
        PROVE  AloneInv'
    <2>1. /\ TypeOK
          /\ call[c] \in CallRecord
          /\ Fits(call[c], proposal, reviewers)
          /\ \A d \in Calls : d = c
          /\ OneOpenCampaign
          /\ ChangesStayLinked
          /\ At(c, "create") => \A k \in Campaigns : campaign[k] # "open"
          /\ call[c].pc \in OpenSteps => campaign[call[c].campaign] = "open"
          /\ At(c, "setItem") \/ (At(c, "campaign") /\ call[c].op = "attach") =>
                proposal[call[c].proposal].item \in {None, call[c].item}
          /\ At(c, "decide") /\ call[c].op = "changes_proposed" =>
                LinkedTo(call[c].item) # {}
      BY AloneCall DEF IInv, TypeOK, CallsFit, AloneInv, ReadsHold
    <2>2. OneOpenCampaign'
      BY <1>2, <2>1
         DEF Step, Create, Assign, Close, CheckCampaign, InsertLinked, SetItem, Reopen,
             AddReviewer, ListLinked, Decide, SendBack, Sign, MarkResolved,
             OneOpenCampaign, TypeOK
    <2>3. ChangesStayLinked'
      <3>1. ASSUME NEW i \in Items, item'[i].status = "changes_proposed"
            PROVE  \/ item[i].status = "changes_proposed"
                   \/ At(c, "decide") /\ call[c].op = "changes_proposed" /\ i = call[c].item
        <4>1. CASE Assign(c)
          BY <2>1, <3>1, <4>1 DEF Assign, TypeOK, Item
        <4>2. CASE Reopen(c) \/ Decide(c) \/ SendBack(c)
          BY <2>1, <3>1, <4>2 DEF Reopen, Decide, SendBack, At, TypeOK, Item
        <4> QED
          BY <1>2, <3>1, <4>1, <4>2
             DEF Step, Create, Close, CheckCampaign, InsertLinked, SetItem, AddReviewer,
                 ListLinked, Sign, MarkResolved
      <3> QED
        BY <1>1, <2>1, <3>1 DEF ChangesStayLinked
    <2>4. CASE End(c)
      <3>1. call'[c].pc = "idle"
        BY <2>4, AloneCall
      <3> QED
        BY <2>1, <2>2, <2>3, <3>1 DEF AloneInv, ReadsHold, At
    <2>5. CASE CheckCampaign(c) /\ ~End(c)
      <3> DEFINE s == AfterCampaign[call[c].op]
      <3>1. /\ At(c, "campaign")
            /\ Goto(c, s)
            /\ s \in {"insert", "setItem", "sendBack", "linked"}
            /\ s = "setItem" => call[c].op = "attach"
            /\ campaign[call[c].campaign] = "open"
            /\ UNCHANGED <<campaign, item, proposal>>
        BY <2>1, <2>5 DEF CheckCampaign, At, Fits, AfterCampaign, queue
      <3>2. /\ call'[c].pc = s
            /\ call'[c].campaign = call[c].campaign
            /\ call'[c].item = call[c].item
            /\ call'[c].proposal = call[c].proposal
        BY <3>1, AloneCall DEF Steps
      <3> QED
        BY <2>1, <2>2, <2>3, <3>1, <3>2 DEF AloneInv, ReadsHold, At
    <2>6. CASE InsertLinked(c) /\ ~End(c)
      <3>1. /\ call'[c].pc \in {"reviewer", "reopen"}
            /\ call'[c].campaign = call[c].campaign
            /\ UNCHANGED campaign
        <4>1. PICK p \in Proposals :
                  call' = [call EXCEPT ![c].proposal = p, ![c].pc = AfterLink(c)]
          BY <2>6 DEF InsertLinked
        <4>2. call'[c] = [call[c] EXCEPT !.proposal = p, !.pc = AfterLink(c)]
          BY <2>1, <4>1 DEF TypeOK
        <4>3. UNCHANGED campaign
          BY <2>6 DEF InsertLinked
        <4> QED
          BY <2>1, <4>2, <4>3 DEF AfterLink, CallRecord
      <3>2. campaign[call[c].campaign] = "open"
        BY <2>1, <2>6 DEF InsertLinked, At
      <3> QED
        BY <2>1, <2>2, <2>3, <3>1, <3>2 DEF AloneInv, ReadsHold, At
    <2>7. ASSUME NEW s \in {"reviewer", "reopen", "decide"}, Goto(c, s),
                 UNCHANGED campaign, call[c].pc \in OpenSteps,
                 s = "decide" => /\ UNCHANGED proposal
                                 /\ call[c].op = "changes_proposed"
                                        => LinkedTo(call[c].item) # {}
          PROVE  AloneInv'
      <3>1. /\ call'[c].pc = s
            /\ call'[c].campaign = call[c].campaign
            /\ call'[c].item = call[c].item
            /\ call'[c].op = call[c].op
            /\ call'[c].proposal = call[c].proposal
        BY <2>7, AloneCall DEF Steps
      <3>2. UNCHANGED proposal => LinkedTo(call[c].item)' = {p \in Proposals : proposal[p].item = call'[c].item}
        BY DEF LinkedTo
      <3> QED
        BY <2>1, <2>2, <2>3, <2>7, <3>1, <3>2 DEF AloneInv, ReadsHold, At, LinkedTo
    <2>8. CASE SetItem(c) \/ Reopen(c)
      BY <2>7, <2>8 DEF SetItem, Reopen, AfterLink, At
    <2>9. CASE ListLinked(c) /\ ~End(c)
      BY <2>7, <2>9 DEF ListLinked, At, queue
    <2> QED
      BY <1>2, <2>4, <2>5, <2>6, <2>8, <2>9
         DEF Step, Create, Assign, Close, AddReviewer, Decide, SendBack, Sign, MarkResolved
  <1>3. ASSUME NEW c \in Calls, CutOff(c)
        PROVE  AloneInv'
    <2>1. call'[c].pc = "idle" /\ UNCHANGED <<campaign, item, proposal>>
      BY <1>3, AloneCall DEF CutOff, queue
    <2> QED
      BY <2>1, AloneCall
         DEF AloneInv, OneOpenCampaign, ChangesStayLinked, LinkedTo, ReadsHold, At
  <1>4. ASSUME NEW c \in Calls, Start(c)
        PROVE  AloneInv'
    <2>1. TypeOK /\ \A d \in Calls : d = c
      BY AloneCall DEF IInv
    <2>2. UNCHANGED <<campaign, item, queue>>
      BY <1>4, <2>1, StartFacts
    <2>3. UNCHANGED proposal
      BY <2>2 DEF queue
    <2>4. OneOpenCampaign' /\ ChangesStayLinked'
      BY <2>2, <2>3 DEF AloneInv, OneOpenCampaign, ChangesStayLinked, LinkedTo
    <2>5. /\ call'[c].pc \in {"create", "assign", "close", "campaign", "sign", "mark"}
          /\ call'[c].pc = "create" => \A k \in Campaigns : campaign[k] # "open"
          /\ call'[c].pc = "assign" => campaign[call'[c].campaign] = "open"
          /\ call'[c].pc = "campaign" /\ call'[c].op = "attach" =>
                proposal[call'[c].proposal].item \in {None, call'[c].item}
      BY <1>4, <2>1, StartFacts
    <2> QED
      BY <2>2, <2>3, <2>4, <2>1, <2>5 DEF AloneInv, ReadsHold, At
  <1>5. ASSUME NEW u \in Users, NEW p \in Proposals, QueuePlain(u, p)
        PROVE  AloneInv'
    <2>1. /\ UNCHANGED <<campaign, item, call>>
          /\ \A q \in Proposals : proposal'[q].item = proposal[q].item
      BY <1>5 DEF QueuePlain, IInv, TypeOK, Proposal
    <2>2. \A i : LinkedTo(i)' = {q \in Proposals : proposal[q].item = i}
      BY <2>1 DEF LinkedTo
    <2>3. \A c \in Calls : At(c, "setItem") \/ (At(c, "campaign") /\ call[c].op = "attach")
                              => call[c].proposal \in Proposals
      BY DEF IInv, CallsFit, Fits, At
    <2>4. ASSUME NEW c \in Calls, At(c, "decide"), call[c].op = "changes_proposed"
          PROVE  (LinkedTo(call[c].item) # {})'
      BY <2>1, <2>4 DEF AloneInv, ReadsHold, At, LinkedTo
    <2> QED
      BY <2>1, <2>2, <2>3, <2>4
         DEF AloneInv, OneOpenCampaign, ChangesStayLinked, ReadsHold, At, LinkedTo
  <1> QED
    BY <1>2, <1>3, <1>4, <1>5 DEF Next

-----------------------------------------------------------------------------
(* One call at a time, none of them cut off.                                *)

\* The item is as it was read, until the call has linked to it.
ItemAsRead ==
    \A c \in Calls : call[c].pc \in {"campaign", "insert", "setItem"} =>
        /\ call[c].assignee = item[call[c].item].assignee
        /\ call[c].wasOpen <=> item[call[c].item].status = "open"

\* An item is only confirmed with a pending proposal while the call that
\* linked it is about to reopen the item.
PendingIsUnconfirmed ==
    \A i \in Items, p \in Proposals :
        proposal[p].item = i /\ proposal[p].status = "pending" =>
            \/ item[i].status # "confirmed"
            \/ \E c \in Calls : At(c, "reopen") /\ call[c].item = i

\* Whoever is due to see a proposal signed off is one of its reviewers, or
\* becomes one before the call under way ends.
DueIsAsked ==
    \A p \in Proposals : \A u \in due[p] :
        \/ u \in reviewers[p]
        \/ \E c \in Calls : /\ call[c].pc \in {"reopen", "reviewer"}
                            /\ call[c].proposal = p
                            /\ u \in SentTo(c, proposal[p].proposer)

\* What confirming and approving calls have checked still holds.
ChecksHold ==
    \A c \in Calls :
        /\ At(c, "decide") /\ call[c].op = "confirmed" =>
              \A p \in Proposals :
                  proposal[p].item = call[c].item => proposal[p].status # "pending"
        /\ At(c, "mark") /\ call[c].op = "approved" =>
              reviewers[call[c].proposal] \subseteq signed[call[c].proposal]

CalmInv ==
    /\ ItemAsRead
    /\ PendingIsUnconfirmed
    /\ DueIsAsked
    /\ ChecksHold

LEMMA CalmInit == Init => CalmInv
  BY DEF Init, CalmInv, ItemAsRead, PendingIsUnconfirmed, DueIsAsked, ChecksHold, At,
         Idle

\* Who is asked depends on the call's record and the proposer alone.
LEMMA SentToStays ==
    ASSUME NEW c \in Calls, NEW u,
           call'[c].assignee = call[c].assignee, call'[c].user = call[c].user
    PROVE  SentTo(c, u)' = SentTo(c, u)
  BY DEF SentTo

\* Linking: the item's reviewer is due, and the call is about to ask them;
\* an item that was finished is about to be reopened.
LEMMA LinkCalm ==
    ASSUME IInv, Alone, CalmInv, NEW c \in Calls, NEW p \in Proposals, NEW u,
           call[c].pc \in {"insert", "setItem"},
           Links(c, p, u),
           proposal' \in [Proposals -> Proposal],
           proposal'[p].proposer = u,
           proposal'[p].item = call[c].item,
           \A q \in Proposals : q # p => proposal'[q] = proposal[q],
           proposal[p].status # "absent" => u = proposal[p].proposer,
           UNCHANGED <<item, reviewers, signed>>,
           call'[c].pc = AfterLink(c),
           call'[c].proposal = p,
           call'[c].item = call[c].item,
           call'[c].user = call[c].user,
           call'[c].assignee = call[c].assignee
    PROVE  CalmInv'
  <1> USE DEF OnItemSteps, OnProposalSteps
  <1>1. /\ TypeOK
        /\ AbsentIsPlain
        /\ call[c] \in CallRecord
        /\ Fits(call[c], proposal, reviewers)
        /\ \A d \in Calls : d = c
        /\ ItemAsRead /\ PendingIsUnconfirmed /\ DueIsAsked /\ ChecksHold
    BY AloneCall DEF IInv, TypeOK, CallsFit, CalmInv
  <1>3. AfterLink(c) \in {"reopen", "reviewer"}
    BY DEF AfterLink
  <1>4. ItemAsRead' /\ ChecksHold'
    BY <1>1, <1>3 DEF ItemAsRead, ChecksHold, At
  <1>5. /\ call[c].assignee = item[call[c].item].assignee
        /\ call[c].wasOpen <=> item[call[c].item].status = "open"
    BY <1>1 DEF ItemAsRead
  <1>6. PendingIsUnconfirmed'
    <2>1. \A q \in Proposals : q # p => proposal'[q] = proposal[q]
      OBVIOUS
    <2>2. \A q \in Proposals, i \in Items :
             proposal[q].item = i /\ proposal[q].status = "pending"
                => item[i].status # "confirmed"
      BY <1>1 DEF PendingIsUnconfirmed, At
    <2>3. \/ item[call[c].item].status # "confirmed"
          \/ call'[c].pc = "reopen"
      BY <1>5 DEF AfterLink
    <2>4. ASSUME NEW i \in Items, NEW q \in Proposals,
                 proposal'[q].item = i, proposal'[q].status = "pending"
          PROVE  \/ item[i].status # "confirmed"
                 \/ call'[c].pc = "reopen" /\ call'[c].item = i
      <3>1. CASE q = p
        BY <2>3, <2>4, <3>1
      <3>2. CASE q # p
        BY <2>1, <2>2, <2>4, <3>2
      <3> QED
        BY <3>1, <3>2
    <2> QED
      BY <2>4 DEF PendingIsUnconfirmed, At
  <1>7. DueIsAsked'
    <2>1. SentTo(c, u)' = SentTo(c, u)
      BY SentToStays
    <2>2. /\ due' = [due EXCEPT ![p] = due[p] \cup SentTo(c, u)]
          /\ due \in [Proposals -> SUBSET Users]
      BY <1>1, <1>5 DEF Links, SentTo, TypeOK
    <2>3. \A q \in Proposals : \A v \in due[q] : v \in reviewers[q]
      BY <1>1 DEF DueIsAsked
    <2>4. ASSUME NEW q \in Proposals, NEW v \in due'[q]
          PROVE  \/ v \in reviewers[q]
                 \/ q = p /\ v \in SentTo(c, u)'
      BY <2>1, <2>2, <2>3, <2>4
    <2> QED
      BY <1>3, <2>4 DEF DueIsAsked
  <1> QED
    BY <1>4, <1>6, <1>7 DEF CalmInv

LEMMA CalmStep ==
    ASSUME IInv, Alone, ~Faults, CalmInv, Next
    PROVE  CalmInv'
  <1> USE DEF OnItemSteps, OnProposalSteps
  <1>1. ASSUME NEW c \in Calls, InsertLinked(c) /\ ~End(c)
        PROVE  CalmInv'
    <2>1. PICK p \in Proposals :
              /\ proposal[p].status = "absent"
              /\ proposal' = [proposal EXCEPT ![p] =
                     [status |-> "pending", proposer |-> call[c].user,
                      item |-> call[c].item]]
              /\ Links(c, p, call[c].user)
              /\ call' = [call EXCEPT ![c].proposal = p, ![c].pc = AfterLink(c)]
      BY <1>1 DEF InsertLinked
    <2>2. /\ TypeOK
          /\ At(c, "insert")
          /\ call[c].user \in Users /\ call[c].item \in Items
          /\ UNCHANGED <<item, reviewers, signed>>
      BY <1>1 DEF InsertLinked, IInv, CallsFit, Fits, At
    <2>3. /\ call'[c].pc = AfterLink(c)
          /\ call'[c].proposal = p
          /\ call'[c].item = call[c].item
          /\ call'[c].user = call[c].user
          /\ call'[c].assignee = call[c].assignee
      <3>1. call'[c] = [call[c] EXCEPT !.proposal = p, !.pc = AfterLink(c)]
        BY <2>1, <2>2 DEF TypeOK
      <3>2. call[c] \in CallRecord
        BY <2>2 DEF TypeOK
      <3> QED
        BY <3>1, <3>2 DEF CallRecord
    <2>4. /\ proposal' \in [Proposals -> Proposal]
          /\ proposal'[p].proposer = call[c].user
          /\ proposal'[p].item = call[c].item
          /\ \A q \in Proposals : q # p => proposal'[q] = proposal[q]
      BY <2>1, <2>2 DEF TypeOK, Proposal
    <2> QED
      <3>1. Links(c, p, call[c].user) /\ proposal[p].status = "absent"
        BY <2>1
      <3>2. call[c].pc = "insert" /\ UNCHANGED <<item, reviewers, signed>>
        BY <2>2 DEF At
      <3> QED
        BY <2>3, <2>4, <3>1, <3>2, LinkCalm
  <1>2. ASSUME NEW c \in Calls, SetItem(c)
        PROVE  CalmInv'
    <2> DEFINE p == call[c].proposal
    <2>1. /\ TypeOK
          /\ call[c] \in CallRecord
          /\ At(c, "setItem")
          /\ p \in Proposals /\ call[c].item \in Items
          /\ proposal' = [proposal EXCEPT ![p].item = call[c].item]
          /\ Links(c, p, proposal[p].proposer)
          /\ Goto(c, AfterLink(c))
          /\ UNCHANGED <<item, reviewers, signed>>
      BY <1>2 DEF SetItem, IInv, TypeOK, CallsFit, Fits, At
    <2>2. /\ call'[c].pc = AfterLink(c)
          /\ call'[c].proposal = p
          /\ call'[c].item = call[c].item
          /\ call'[c].user = call[c].user
          /\ call'[c].assignee = call[c].assignee
      BY <2>1, AloneCall DEF AfterLink, Steps
    <2>3. /\ proposal' \in [Proposals -> Proposal]
          /\ proposal'[p].proposer = proposal[p].proposer
          /\ proposal'[p].item = call[c].item
          /\ \A q \in Proposals : q # p => proposal'[q] = proposal[q]
      BY <2>1 DEF TypeOK, Proposal
    <2> QED
      BY <2>1, <2>2, <2>3, LinkCalm DEF At
  <1>3. ASSUME NEW c \in Calls, Step(c), ~SetItem(c), ~InsertLinked(c) \/ End(c)
        PROVE  CalmInv'
    <2>1. /\ TypeOK
          /\ call[c] \in CallRecord
          /\ Fits(call[c], proposal, reviewers)
          /\ \A d \in Calls : d = c
          /\ ItemAsRead /\ PendingIsUnconfirmed /\ DueIsAsked /\ ChecksHold
      BY AloneCall DEF IInv, TypeOK, CallsFit, CalmInv
    <2>2. CASE CheckCampaign(c) /\ ~End(c)
      <3> DEFINE s == AfterCampaign[call[c].op]
      <3>1. /\ At(c, "campaign")
            /\ Goto(c, s)
            /\ s \in {"insert", "setItem", "sendBack", "linked"}
            /\ UNCHANGED <<item, proposal, reviewers, signed, due>>
        BY <2>1, <2>2 DEF CheckCampaign, At, Fits, AfterCampaign, queue
      <3>2. /\ call'[c].pc = s
            /\ call'[c].item = call[c].item
            /\ call'[c].assignee = call[c].assignee
            /\ call'[c].wasOpen = call[c].wasOpen
        BY <3>1, AloneCall DEF Steps
      <3>3. ItemAsRead' /\ ChecksHold'
        BY <2>1, <3>1, <3>2 DEF ItemAsRead, ChecksHold, At
      <3>4. PendingIsUnconfirmed' /\ DueIsAsked'
        BY <2>1, <3>1, <3>2 DEF PendingIsUnconfirmed, DueIsAsked, At
      <3> QED
        BY <3>3, <3>4 DEF CalmInv
    <2>3. CASE Reopen(c)
      <3>1. /\ At(c, "reopen")
            /\ call[c].item \in Items
            /\ item' = [item EXCEPT ![call[c].item].status = "open"]
            /\ Goto(c, "reviewer")
            /\ UNCHANGED <<proposal, reviewers, signed, due>>
        BY <2>1, <2>3 DEF Reopen, At, Fits, queue
      <3>2. /\ call'[c].pc = "reviewer"
            /\ call'[c].proposal = call[c].proposal
            /\ call'[c].assignee = call[c].assignee
            /\ call'[c].user = call[c].user
        BY <3>1, AloneCall DEF Steps
      <3>3. ItemAsRead' /\ ChecksHold'
        BY <2>1, <3>1, <3>2 DEF ItemAsRead, ChecksHold, At
      <3>4. PendingIsUnconfirmed'
        <4>1. \A i \in Items : item'[i].status = IF i = call[c].item THEN "open"
                                                               ELSE item[i].status
          BY <2>1, <3>1 DEF TypeOK, Item
        <4> QED
          BY <2>1, <3>1, <3>2, <4>1 DEF PendingIsUnconfirmed, At
      <3>5. DueIsAsked'
        <4>1. \A v : SentTo(c, v)' = SentTo(c, v)
          BY <3>2, SentToStays
        <4> QED
          BY <2>1, <3>1, <3>2, <4>1 DEF DueIsAsked
      <3> QED
        BY <3>3, <3>4, <3>5 DEF CalmInv
    <2>4. CASE ListLinked(c) /\ ~End(c)
      <3>1. /\ At(c, "linked")
            /\ Goto(c, "decide")
            /\ call[c].op = "confirmed" => \A p \in LinkedTo(call[c].item) :
                                               proposal[p].status # "pending"
            /\ UNCHANGED <<item, proposal, reviewers, signed, due>>
        BY <2>1, <2>4 DEF ListLinked, queue
      <3>2. /\ call'[c].pc = "decide"
            /\ call'[c].item = call[c].item
            /\ call'[c].op = call[c].op
        BY <3>1, AloneCall DEF Steps
      <3>3. ItemAsRead' /\ ChecksHold'
        BY <2>1, <3>1, <3>2 DEF ItemAsRead, ChecksHold, At, LinkedTo
      <3>4. PendingIsUnconfirmed' /\ DueIsAsked'
        BY <2>1, <3>1, <3>2 DEF PendingIsUnconfirmed, DueIsAsked, At
      <3> QED
        BY <3>3, <3>4 DEF CalmInv
    <2>5. CASE End(c)
      <3>1. call'[c].pc = "idle"
        BY <2>5, AloneCall
      <3>2. ~Reopen(c)
        BY <3>1, AloneCall DEF Reopen, Steps
      <3>3. InsertLinked(c) => UNCHANGED <<proposal, due>>
        <4>1. ASSUME NEW p, call' = [call EXCEPT ![c].proposal = p, ![c].pc = AfterLink(c)]
              PROVE  FALSE
          <5>1. call'[c] = [call[c] EXCEPT !.proposal = p, !.pc = AfterLink(c)]
            BY <2>1, <4>1 DEF TypeOK
          <5> QED
            BY <2>1, <3>1, <5>1 DEF AfterLink, CallRecord
        <4> QED
          BY <4>1 DEF InsertLinked
      <3>4. ItemAsRead' /\ ChecksHold'
        BY <2>1, <3>1 DEF ItemAsRead, ChecksHold, At
      <3>5. PendingIsUnconfirmed'
        <4>1. ~At(c, "reopen")
          BY <1>3, <3>2 DEF Step, Create, Assign, Close, CheckCampaign, InsertLinked,
               AddReviewer, ListLinked, Decide, SendBack, Sign, MarkResolved, At
        <4>2. ASSUME NEW p \in Proposals
              PROVE  /\ proposal'[p].item = proposal[p].item
                     /\ proposal'[p].status = "pending" => proposal[p].status = "pending"
          <5>1. CASE MarkResolved(c)
            BY <2>1, <5>1 DEF MarkResolved, At, Fits, TypeOK, Proposal
          <5> QED
            BY <1>3, <3>2, <3>3, <5>1 DEF Step, Create, Assign, Close, CheckCampaign,
               AddReviewer, ListLinked, Decide, SendBack, Sign, queue
        <4>3. ASSUME NEW i \in Items, item'[i].status = "confirmed"
              PROVE  \/ item[i].status = "confirmed"
                     \/ At(c, "decide") /\ call[c].op = "confirmed" /\ i = call[c].item
          <5>1. CASE Assign(c)
            BY <2>1, <4>3, <5>1 DEF Assign, TypeOK, Item
          <5>2. CASE Decide(c) \/ SendBack(c) \/ Reopen(c)
            BY <2>1, <4>3, <5>2 DEF Decide, SendBack, Reopen, At, TypeOK, Item
          <5> QED
            BY <1>3, <4>3, <5>1, <5>2 DEF Step, Create, Close, CheckCampaign,
               InsertLinked, AddReviewer, ListLinked, Sign, MarkResolved
        <4> QED
          BY <2>1, <4>1, <4>2, <4>3 DEF PendingIsUnconfirmed, ChecksHold, At
      <3>6. DueIsAsked'
        <4>1. CASE AddReviewer(c)
          BY <2>1, <3>1, <4>1 DEF AddReviewer, DueIsAsked, At, Fits, TypeOK
        <4>2. CASE ~AddReviewer(c)
          <5>1. UNCHANGED <<reviewers, due>> /\ call[c].pc \notin {"reopen", "reviewer"}
            BY <1>3, <3>2, <3>3, <4>2 DEF Step, Create, Assign, Close, CheckCampaign,
               InsertLinked, ListLinked, Decide, SendBack, Sign, MarkResolved, At, queue
          <5> QED
            BY <2>1, <5>1 DEF DueIsAsked
        <4> QED
          BY <4>1, <4>2
      <3> QED
        BY <3>4, <3>5, <3>6 DEF CalmInv
    <2> QED
      BY <1>3, <2>2, <2>3, <2>4, <2>5
         DEF Step, Create, Assign, Close, AddReviewer, Decide, SendBack, Sign, MarkResolved
  <1>4. ASSUME NEW c \in Calls, Start(c)
        PROVE  CalmInv'
    <2>1. TypeOK /\ \A d \in Calls : d = c
      BY AloneCall DEF IInv
    <2>2. At(c, "idle")
      BY <1>4 DEF Start, StartCampaign, StartOnCampaign, StartPropose, StartAttach,
                  StartComplete, StartReopen, OnItem, StartSignOff, StartResolve
    <2>3. UNCHANGED <<item, proposal, reviewers, signed, due>>
      BY <1>4, <2>1, StartFacts DEF queue
    <2>4. ItemAsRead'
      BY <1>4, <2>1, <2>3, StartFacts DEF ItemAsRead
    <2>5. ChecksHold'
      BY <1>4, <2>1, <2>3, StartFacts DEF ChecksHold, At
    <2>6. PendingIsUnconfirmed' /\ DueIsAsked'
      BY <2>1, <2>2, <2>3 DEF CalmInv, PendingIsUnconfirmed, DueIsAsked, At
    <2> QED
      BY <2>4, <2>5, <2>6 DEF CalmInv
  <1>5. ASSUME NEW u \in Users, NEW p \in Proposals, QueuePlain(u, p)
        PROVE  CalmInv'
    <2>1. /\ TypeOK /\ AbsentIsPlain /\ CallsFit
          /\ proposal[p].status = "absent"
          /\ UNCHANGED <<item, reviewers, signed, call, due>>
          /\ \A q \in Proposals : q # p => proposal'[q] = proposal[q]
          /\ proposal'[p].item = None
      BY <1>5 DEF QueuePlain, IInv, AbsentIsPlain, TypeOK, Proposal
    <2>2. ItemAsRead'
      BY <2>1 DEF CalmInv, ItemAsRead
    <2>3. PendingIsUnconfirmed'
      BY <2>1, ConstantsAssumption DEF CalmInv, PendingIsUnconfirmed, At
    <2>4. DueIsAsked'
      <3>1. ASSUME NEW q \in Proposals, NEW v \in due[q]
            PROVE  q # p
        BY <2>1, <3>1 DEF AbsentIsPlain
      <3>2. \A v : \A c \in Calls : SentTo(c, v)' = SentTo(c, v)
        BY <2>1 DEF SentTo
      <3> QED
        BY <2>1, <3>1, <3>2 DEF CalmInv, DueIsAsked
    <2>5. ChecksHold'
      <3>1. \A c \in Calls : At(c, "decide") => call[c].item \in Items
        BY <2>1 DEF CallsFit, Fits, At
      <3> QED
        BY <2>1, <3>1, ConstantsAssumption DEF CalmInv, ChecksHold, At
    <2> QED
      BY <2>2, <2>3, <2>4, <2>5 DEF CalmInv
  <1> QED
    BY <1>1, <1>2, <1>3, <1>4, <1>5 DEF Next, CutOff

-----------------------------------------------------------------------------
LEMMA AloneInvariant ==
    ASSUME Alone PROVE Spec => []AloneInv
  <1>1. IInv /\ AloneInv /\ [Next]_vars => AloneInv'
    <2>1. CASE UNCHANGED vars
      BY <2>1 DEF vars, queue, AloneInv, OneOpenCampaign, ChangesStayLinked, LinkedTo,
                  ReadsHold, At
    <2> QED
      BY <2>1, AloneStep
  <1> QED
    BY <1>1, AloneInit, Invariant, PTL DEF Spec

LEMMA CalmInvariant ==
    ASSUME Alone, ~Faults PROVE Spec => []CalmInv
  <1>1. IInv /\ CalmInv /\ [Next]_vars => CalmInv'
    <2>1. CASE UNCHANGED vars
      BY <2>1 DEF vars, queue, CalmInv, ItemAsRead, PendingIsUnconfirmed, DueIsAsked,
                  SentTo, ChecksHold, At
    <2> QED
      BY <2>1, CalmStep
  <1> QED
    BY <1>1, CalmInit, Invariant, PTL DEF Spec

\* Calls made one at a time: there is one open campaign, an item is not
\* confirmed while a proposal linked to it is pending, and changes are only
\* recorded for an item with a linked proposal (reviewCampaigns.ts).
THEOREM OneAtATimeRulesHold ==
    ASSUME Alone, ~Faults PROVE Spec => []RulesHold
  <1>1. AloneInv /\ CalmInv => RulesHold
    <2> SUFFICES ASSUME AloneInv, CalmInv PROVE RulesHold
      OBVIOUS
    <2>1. ConfirmedIsSettled
      BY DEF ConfirmedIsSettled, Quiet, At, CalmInv, PendingIsUnconfirmed
    <2> QED
      BY <2>1 DEF RulesHold, AloneInv, ChangesStayLinked, ChangesAreLinked
  <1> QED
    BY <1>1, AloneInvariant, CalmInvariant, PTL

\* Calls made one at a time, even when they are cut off: the items of a
\* closed campaign stay as they were, and a linked proposal keeps its item
\* (closeReviewCampaign, attachProposalToReviewItem).
THEOREM OneAtATimeSettledStays ==
    ASSUME Alone PROVE Spec => SettledStays
  <1>1. IInv /\ AloneInv /\ [Next]_vars => [ItemsStay /\ LinksStay]_vars
    BY AloneStays
  <1> QED
    BY <1>1, Invariant, AloneInvariant, PTL DEF Spec, SettledStays

\* Calls made one at a time: a proposal linked by somebody else is not
\* approved before the item's reviewer has signed it off
\* (queueForReviewItem, resolveProposal).
THEOREM OneAtATimeReviewerGates ==
    ASSUME Alone, ~Faults PROVE Spec => ReviewerGates
  <1> DEFINE Gates ==
          \A p \in Proposals :
              proposal[p].status = "pending" /\ proposal'[p].status = "approved"
                  => due[p] \subseteq signed[p]
  <1>1. ASSUME IInv, CalmInv, Next PROVE Gates
    <2> USE DEF OnItemSteps, OnProposalSteps
    <2>1. ASSUME NEW p \in Proposals,
                 proposal[p].status = "pending", proposal'[p].status = "approved"
          PROVE  due[p] \subseteq signed[p]
      <3>1. TypeOK /\ AbsentIsPlain
        BY <1>1 DEF IInv
      <3>2. ASSUME NEW c \in Calls, Step(c)
            PROVE  MarkResolved(c)
        <4>1. CASE InsertLinked(c)
          BY <2>1, <3>1, <4>1 DEF InsertLinked, TypeOK, Proposal
        <4>2. CASE SetItem(c)
          BY <2>1, <3>1, <4>2 DEF SetItem, TypeOK, Proposal
        <4> QED
          BY <2>1, <3>2, <4>1, <4>2 DEF Step, Create, Assign, Close, CheckCampaign, Reopen,
             AddReviewer, ListLinked, Decide, SendBack, Sign, queue
      <3>3. ASSUME NEW c \in Calls, Start(c) \/ CutOff(c)
            PROVE  FALSE
        <4>1. UNCHANGED proposal
          BY <3>1, <3>3, StartFacts DEF CutOff, queue
        <4> QED
          BY <2>1, <4>1
      <3>4. ASSUME NEW u \in Users, NEW q \in Proposals, QueuePlain(u, q)
            PROVE  FALSE
        BY <2>1, <3>1, <3>4 DEF QueuePlain, TypeOK, Proposal
      <3>5. PICK c \in Calls : MarkResolved(c)
        BY <1>1, <3>2, <3>3, <3>4 DEF Next
      <3>6. /\ At(c, "mark")
            /\ call[c].proposal = p
            /\ call[c].op = "approved"
        BY <2>1, <3>1, <3>5 DEF MarkResolved, TypeOK, Proposal
      <3>7. reviewers[p] \subseteq signed[p]
        BY <1>1, <3>6 DEF CalmInv, ChecksHold
      <3>8. \A v \in due[p] : v \in reviewers[p]
        BY <1>1, <3>6 DEF CalmInv, DueIsAsked, At, Alone
      <3> QED
        BY <3>7, <3>8
    <2> QED
      BY <2>1
  <1>2. IInv /\ CalmInv /\ [Next]_vars => [Gates]_vars
    BY <1>1
  <1> QED
    BY <1>2, Invariant, CalmInvariant, PTL DEF Spec, ReviewerGates

=============================================================================
