-------------------------- MODULE ReviewCampaigns --------------------------
(***************************************************************************)
(* Review campaigns (reviews/reviewCampaigns.ts, reviews/reviewService.ts) *)
(* of one organisation and environment, and the proposals linked to their  *)
(* items.  As in ProposalQueue, a call is a little program whose awaited   *)
(* statements interleave with those of other calls; a finished call makes  *)
(* way for another, so calls may be made without end.                      *)
(*                                                                         *)
(* Of the proposal queue only what a link depends on is here: a proposal   *)
(* is pending until it is approved, which its reviewers have to allow, or  *)
(* rejected.  ProposalQueue has the rest.  The role checks and the reads    *)
(* that precede a call's first decision are one step with it.              *)
(***************************************************************************)
EXTENDS Naturals

CONSTANTS
    Users,          \* the tenant's members of Contributor rank or above
    Publishers,     \* those of Publisher rank or above (Approvers count too)
    Campaigns,      \* campaign ids, started or yet to be
    Items,          \* review item ids
    CampaignOf,     \* CampaignOf[i]: the campaign that item i belongs to
    Proposals,      \* proposal ids
    Calls,          \* calls under way at the same time (bound)
    None,           \* no user, no item, no proposal, no campaign
    Faults          \* TRUE: calls may be cut off

ASSUME ConstantsAssumption ==
    /\ Publishers \subseteq Users
    /\ CampaignOf \in [Items -> Campaigns]
    /\ None \notin Users \cup Campaigns \cup Items \cup Proposals
    /\ Faults \in BOOLEAN

VARIABLES
    campaign,       \* campaign[k]: review_campaigns.status, "absent" before the insert
    item,           \* item[i]: the review_items row
    proposal,       \* proposal[p]: the proposals row
    reviewers,      \* reviewers[p]: who has a proposal_reviewers row
    signed,         \* signed[p]: those of them whose decision is "approved"
    call,           \* call[c]: the call's local state
    due             \* history: due[p], the item's reviewer when p was linked by another

queue == <<proposal, reviewers, signed, due>>
vars == <<campaign, item, queue, call>>

-----------------------------------------------------------------------------
\* A campaign keeps its status only.
Campaign == {"absent", "open", "closed"}

ItemStatuses == {"open", "confirmed", "changes_proposed"}
Item == [status : ItemStatuses, assignee : Users \cup {None}]

Proposal == [status : {"absent", "pending", "approved", "rejected"},
             proposer : Users \cup {None}, item : Items \cup {None}]

Steps == {"idle", "create", "assign", "campaign", "insert", "setItem", "reopen",
          "reviewer", "linked", "decide", "sendBack", "close", "sign", "mark"}

Ops == {"none", "start", "assign", "propose", "attach", "confirmed",
        "changes_proposed", "reopen", "close", "signOff", "takeBack", "approved",
        "rejected"}

Idle == [op |-> "none", user |-> None, campaign |-> None, item |-> None,
         proposal |-> None, assignee |-> None, wasOpen |-> FALSE, pc |-> "idle"]

CallRecord == [op : Ops, user : Users \cup {None}, campaign : Campaigns \cup {None},
               item : Items \cup {None}, proposal : Proposals \cup {None},
               assignee : Users \cup {None},   \* the item's reviewer when read
               wasOpen : BOOLEAN,              \* the item was open when read
               pc : Steps]

TypeOK ==
    /\ campaign \in [Campaigns -> Campaign]
    /\ item \in [Items -> Item]
    /\ proposal \in [Proposals -> Proposal]
    /\ reviewers \in [Proposals -> SUBSET Users]
    /\ signed \in [Proposals -> SUBSET Users]
    /\ call \in [Calls -> CallRecord]
    /\ due \in [Proposals -> SUBSET Users]

Init ==
    /\ campaign = [k \in Campaigns |-> "absent"]
    /\ item = [i \in Items |-> [status |-> "open", assignee |-> None]]
    /\ proposal = [p \in Proposals |->
                      [status |-> "absent", proposer |-> None, item |-> None]]
    /\ reviewers = [p \in Proposals |-> {}]
    /\ signed = [p \in Proposals |-> {}]
    /\ call = [c \in Calls |-> Idle]
    /\ due = [p \in Proposals |-> {}]

At(c, step) == call[c].pc = step
Goto(c, step) == call' = [call EXCEPT ![c].pc = step]
End(c) == call' = [call EXCEPT ![c] = Idle]

ItemsOf(k) == {i \in Items : CampaignOf[i] = k}
LinkedTo(i) == {p \in Proposals : proposal[p].item = i}

\* The item's reviewer, or a Publisher (requireReviewerOf).
MayReview(u, i) == item[i].assignee = u \/ u \in Publishers

-----------------------------------------------------------------------------
(* Starting, assigning and closing a campaign.  The Publisher role is       *)
(* checked and the campaign read, then the change is made.                  *)

\* findOpenCampaign has found none.
StartCampaign(c, u) ==
    /\ At(c, "idle")
    /\ u \in Publishers
    /\ \A k \in Campaigns : campaign[k] # "open"
    /\ call' = [call EXCEPT ![c] = [Idle EXCEPT !.op = "start", !.user = u,
                                                !.pc = "create"]]
    /\ UNCHANGED <<campaign, item, queue>>

\* createCampaign inserts the campaign with its items, whatever has been
\* started since; reading the organisation's content from PTV may fail.
Create(c) ==
    /\ At(c, "create")
    /\ \/ \E k \in Campaigns :
            /\ campaign[k] = "absent"
            /\ campaign' = [campaign EXCEPT ![k] = "open"]
       \/ UNCHANGED campaign
    /\ End(c)
    /\ UNCHANGED <<item, queue>>

StartOnCampaign(c, u, k, op) ==
    /\ At(c, "idle")
    /\ op \in {"assign", "close"}
    /\ u \in Publishers
    /\ campaign[k] = "open"
    /\ call' = [call EXCEPT ![c] = [Idle EXCEPT !.op = op, !.user = u,
                                                !.campaign = k, !.pc = op]]
    /\ UNCHANGED <<campaign, item, queue>>

\* The items named, or all that match the filter, get the reviewer.
Assign(c) ==
    /\ At(c, "assign")
    /\ \E w \in Users, selected \in SUBSET ItemsOf(call[c].campaign) :
           item' = [i \in Items |-> IF i \in selected
                                    THEN [item[i] EXCEPT !.assignee = w]
                                    ELSE item[i]]
    /\ End(c)
    /\ UNCHANGED <<campaign, queue>>

\* Items left open stay as they are.
CloseCampaign(k) == campaign' = [campaign EXCEPT ![k] = "closed"]

Close(c) ==
    /\ At(c, "close")
    /\ CloseCampaign(call[c].campaign)
    /\ End(c)
    /\ UNCHANGED <<item, queue>>

-----------------------------------------------------------------------------
(* The calls on an item: proposing for it, attaching a proposal to it,      *)
(* deciding and reopening it.  The item is read once, and what was read is  *)
(* used to the end of the call.                                             *)

OnItem(c, u, i, op, p) ==
    /\ At(c, "idle")
    /\ campaign[CampaignOf[i]] # "absent"
    /\ call' = [call EXCEPT ![c] =
                  [op |-> op, user |-> u, campaign |-> CampaignOf[i], item |-> i,
                   proposal |-> p, assignee |-> item[i].assignee,
                   wasOpen |-> item[i].status = "open", pc |-> "campaign"]]
    /\ UNCHANGED <<campaign, item, queue>>

StartPropose(c, u, i) ==
    /\ MayReview(u, i)
    /\ OnItem(c, u, i, "propose", None)

StartAttach(c, u, i, p) ==
    /\ proposal[p].status = "pending"
    /\ proposal[p].item \in {None, i}
    /\ proposal[p].proposer = u \/ u \in Publishers
    /\ MayReview(u, i)
    /\ OnItem(c, u, i, "attach", p)

StartComplete(c, u, i, decision) ==
    /\ decision \in {"confirmed", "changes_proposed"}
    /\ MayReview(u, i)
    /\ OnItem(c, u, i, decision, None)

StartReopen(c, u, i) ==
    /\ u \in Publishers
    /\ OnItem(c, u, i, "reopen", None)

\* What a call on an item does once it has found the campaign open.
AfterCampaign == [propose |-> "insert", attach |-> "setItem", reopen |-> "sendBack",
                  confirmed |-> "linked", changes_proposed |-> "linked"]

MutCheckCampaign(c) ==
    /\ At(c, "campaign")
    /\ LET mayLink == call[c].wasOpen \/ call[c].user \in Publishers
       IN  IF call[c].op \in {"propose", "attach"} => mayLink
           THEN Goto(c, AfterCampaign[call[c].op])
           ELSE End(c)
    /\ UNCHANGED <<campaign, item, queue>>

\* requireOpen; only a Publisher may link to an item already decided.
CheckCampaign(c) ==
    /\ At(c, "campaign")
    /\ LET mayLink == call[c].wasOpen \/ call[c].user \in Publishers
       IN  IF /\ campaign[call[c].campaign] = "open"
              /\ call[c].op \in {"propose", "attach"} => mayLink
           THEN Goto(c, AfterCampaign[call[c].op])
           ELSE End(c)
    /\ UNCHANGED <<campaign, item, queue>>

-----------------------------------------------------------------------------
(* Linking (queueForReviewItem, attachProposalToReviewItem).                *)

MutSentTo(c, proposer) == {call[c].assignee} \ {None, call[c].user}

\* The reviewer a proposal linked by call c goes to, if it goes to any.
SentTo(c, proposer) == {call[c].assignee} \ {None, call[c].user, proposer}

\* Who has to see p signed off from the moment it is linked.
Links(c, p, proposer) ==
    due' = [due EXCEPT ![p] = @ \cup ({item[call[c].item].assignee}
                                         \ {None, call[c].user, proposer})]

AfterLink(c) == IF call[c].wasOpen THEN "reviewer" ELSE "reopen"

\* Preparing the proposal may fail; else it is inserted with its item.
InsertLinked(c) ==
    /\ At(c, "insert")
    /\ \/ \E p \in Proposals :
            /\ proposal[p].status = "absent"
            /\ proposal' = [proposal EXCEPT ![p] =
                   [status |-> "pending", proposer |-> call[c].user,
                    item |-> call[c].item]]
            /\ Links(c, p, call[c].user)
            /\ call' = [call EXCEPT ![c].proposal = p, ![c].pc = AfterLink(c)]
       \/ End(c) /\ UNCHANGED <<proposal, due>>
    /\ UNCHANGED <<campaign, item, reviewers, signed>>

\* setReviewItem: an UPDATE by id alone.
SetItem(c) ==
    /\ At(c, "setItem")
    /\ LET p == call[c].proposal
       IN  /\ proposal' = [proposal EXCEPT ![p].item = call[c].item]
           /\ Links(c, p, proposal[p].proposer)
    /\ Goto(c, AfterLink(c))
    /\ UNCHANGED <<campaign, item, reviewers, signed>>

\* A finished item is reopened by the link.
Reopen(c) ==
    /\ At(c, "reopen")
    /\ item' = [item EXCEPT ![call[c].item].status = "open"]
    /\ Goto(c, "reviewer")
    /\ UNCHANGED <<campaign, queue>>

\* As when only links to open items are sent to the reviewer.
MutAddReviewer(c) ==
    /\ At(c, "reviewer")
    /\ LET p == call[c].proposal
       IN  reviewers' = [reviewers EXCEPT ![p] =
               @ \cup IF call[c].wasOpen THEN SentTo(c, proposal[p].proposer) ELSE {}]
    /\ End(c)
    /\ UNCHANGED <<campaign, item, proposal, signed, due>>

\* The item's reviewer becomes a required reviewer of the proposal.
AddReviewer(c) ==
    /\ At(c, "reviewer")
    /\ LET p == call[c].proposal
       IN  reviewers' = [reviewers EXCEPT ![p] = @ \cup SentTo(c, proposal[p].proposer)]
    /\ End(c)
    /\ UNCHANGED <<campaign, item, proposal, signed, due>>

-----------------------------------------------------------------------------
(* Deciding an item (completeReviewItem) and sending it back.               *)

MutListLinked(c) ==
    /\ At(c, "linked")
    /\ IF call[c].op = "changes_proposed" /\ LinkedTo(call[c].item) = {}
       THEN End(c)
       ELSE Goto(c, "decide")
    /\ UNCHANGED <<campaign, item, queue>>

ListLinked(c) ==
    /\ At(c, "linked")
    /\ LET linked == LinkedTo(call[c].item)
       IN  IF \/ call[c].op = "changes_proposed" /\ linked = {}
              \/ /\ call[c].op = "confirmed"
                 /\ \E p \in linked : proposal[p].status = "pending"
           THEN End(c)
           ELSE Goto(c, "decide")
    /\ UNCHANGED <<campaign, item, queue>>

Decide(c) ==
    /\ At(c, "decide")
    /\ item' = [item EXCEPT ![call[c].item].status = call[c].op]
    /\ End(c)
    /\ UNCHANGED <<campaign, queue>>

SendBack(c) ==
    /\ At(c, "sendBack")
    /\ item' = [item EXCEPT ![call[c].item].status = "open"]
    /\ End(c)
    /\ UNCHANGED <<campaign, queue>>

-----------------------------------------------------------------------------
(* The proposal queue around the campaigns.                                 *)

\* A proposal queued without a review item.
QueuePlain(u, p) ==
    /\ proposal[p].status = "absent"
    /\ proposal' = [proposal EXCEPT ![p].status = "pending", ![p].proposer = u]
    /\ UNCHANGED <<campaign, item, reviewers, signed, call, due>>

\* A requested reviewer signs off, or takes the sign-off back.
StartSignOff(c, u, p, op) ==
    /\ At(c, "idle")
    /\ op \in {"signOff", "takeBack"}
    /\ proposal[p].status = "pending"
    /\ u \in reviewers[p]
    /\ call' = [call EXCEPT ![c] = [Idle EXCEPT !.op = op, !.user = u,
                                                !.proposal = p, !.pc = "sign"]]
    /\ UNCHANGED <<campaign, item, queue>>

Sign(c) ==
    /\ At(c, "sign")
    /\ signed' = [signed EXCEPT ![call[c].proposal] =
                     IF call[c].op = "signOff" THEN @ \cup {call[c].user}
                                               ELSE @ \ {call[c].user}]
    /\ End(c)
    /\ UNCHANGED <<campaign, item, proposal, reviewers, due>>

\* A resolution: an approval waits for the reviewers on the list, and the
\* row is updated later.
StartResolve(c, u, p, op) ==
    /\ At(c, "idle")
    /\ op \in {"approved", "rejected"}
    /\ u \in Publishers
    /\ proposal[p].status # "absent"
    /\ op = "approved" => reviewers[p] \subseteq signed[p]
    /\ call' = [call EXCEPT ![c] = [Idle EXCEPT !.op = op, !.user = u,
                                                !.proposal = p, !.pc = "mark"]]
    /\ UNCHANGED <<campaign, item, queue>>

MarkResolved(c) ==
    /\ At(c, "mark")
    /\ LET p == call[c].proposal
       IN  proposal' = IF proposal[p].status = "pending"
                       THEN [proposal EXCEPT ![p].status = call[c].op]
                       ELSE proposal
    /\ End(c)
    /\ UNCHANGED <<campaign, item, reviewers, signed, due>>

\* The process dies, or a statement fails.
CutOff(c) ==
    /\ Faults
    /\ ~At(c, "idle")
    /\ End(c)
    /\ UNCHANGED <<campaign, item, queue>>

-----------------------------------------------------------------------------
Start(c) ==
    \E u \in Users :
        \/ StartCampaign(c, u)
        \/ \E k \in Campaigns, op \in {"assign", "close"} : StartOnCampaign(c, u, k, op)
        \/ \E i \in Items :
            \/ StartPropose(c, u, i)
            \/ \E p \in Proposals : StartAttach(c, u, i, p)
            \/ \E d \in {"confirmed", "changes_proposed"} : StartComplete(c, u, i, d)
            \/ StartReopen(c, u, i)
        \/ \E p \in Proposals :
            \/ \E op \in {"signOff", "takeBack"} : StartSignOff(c, u, p, op)
            \/ \E op \in {"approved", "rejected"} : StartResolve(c, u, p, op)

Step(c) ==
    \/ Create(c)
    \/ Assign(c)
    \/ Close(c)
    \/ CheckCampaign(c)
    \/ InsertLinked(c)
    \/ SetItem(c)
    \/ Reopen(c)
    \/ AddReviewer(c)
    \/ ListLinked(c)
    \/ Decide(c)
    \/ SendBack(c)
    \/ Sign(c)
    \/ MarkResolved(c)

Next ==
    \/ \E c \in Calls : Start(c) \/ Step(c) \/ CutOff(c)
    \/ \E u \in Users, p \in Proposals : QueuePlain(u, p)

Spec == Init /\ [][Next]_vars

\* Every awaited statement is answered in the end.
FairSpec == Spec /\ \A c \in Calls : WF_vars(Step(c))

-----------------------------------------------------------------------------
(* Properties.  Those that compare rows with each other speak of the        *)
(* moments when no call is under way.                                       *)

Quiet == \A c \in Calls : At(c, "idle")

\* "There is one open campaign per organisation and environment."
OneOpenCampaign ==
    \A k, l \in Campaigns : campaign[k] = "open" /\ campaign[l] = "open" => k = l

\* "confirmed: ... not while linked proposals are pending".
ConfirmedIsSettled ==
    Quiet => \A i \in Items, p \in Proposals :
        proposal[p].item = i /\ proposal[p].status = "pending"
            => item[i].status # "confirmed"

\* "changes_proposed (needs a linked proposal)".
ChangesAreLinked ==
    Quiet => \A i \in Items : item[i].status = "changes_proposed" => LinkedTo(i) # {}

\* The rules the review pages promise: one campaign at a time, and items
\* whose state agrees with the proposals linked to them.
RulesHold ==
    /\ OneOpenCampaign
    /\ ConfirmedIsSettled
    /\ ChangesAreLinked

\* "items left open stay as they are for the record" (closeReviewCampaign).
ItemsStay ==
    \A i \in Items : campaign[CampaignOf[i]] = "closed" => item'[i] = item[i]

\* A proposal "already belongs" to the review item it is linked to, and is
\* not given to another (attachProposalToReviewItem).
LinksStay ==
    \A p \in Proposals :
        proposal[p].item # None => proposal'[p].item = proposal[p].item

\* Nothing that follows rewrites the record: neither the items of a closed
\* campaign nor the item a proposal was made for.
SettledStays == [][ItemsStay /\ LinksStay]_vars

\* A closed campaign's record settles: calls under way at the closing may
\* still touch an item, but no more of them can come, so that from some
\* moment on the items of closed campaigns do not change.
RecordSettles == <>[][ItemsStay]_vars

\* "the reviewer becomes a required reviewer of the proposal, so it can't be
\* approved before they sign off".
ReviewerGates ==
    [][\A p \in Proposals :
          proposal[p].status = "pending" /\ proposal'[p].status = "approved"
              => due[p] \subseteq signed[p]]_vars

\* Nobody is ever asked to review a proposal of their own, whoever links it
\* to whichever item, and however its reviewers are reassigned meanwhile.
NobodyReviewsOwn ==
    \A p \in Proposals : proposal[p].proposer \notin reviewers[p] \cup signed[p]

=============================================================================
