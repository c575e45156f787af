--------------------------- MODULE ProposalQueue ---------------------------
(***************************************************************************)
(* The proposal queue of one tenant (mcp/proposalQueue.ts,                 *)
(* mcp/proposalPipeline.ts, mcp/proposalKinds.ts,                          *)
(* proposals/proposalService.ts): proposals are queued, reviewed, signed   *)
(* off, resolved and, when published by hand, confirmed.                   *)
(*                                                                         *)
(* Every call (an MCP tool call or a web request) awaits the database or   *)
(* PTV several times, and each awaited statement is a transaction of its   *)
(* own; other calls run in between, in this process or in another one.  So *)
(* a call is a little program here: call[c].pc is the statement it awaits  *)
(* next, and each action below is one such statement together with the     *)
(* synchronous code up to the next one.                                    *)
(***************************************************************************)
EXTENDS Naturals

CONSTANTS
    Users,          \* user ids
    Proposals,      \* proposal ids, queued or yet to be
    Calls,          \* the calls made; each is made at most once (bound)
    ServiceUpdates, \* the proposals of kind service_update
    Creations,      \* the proposals whose kind creates an item in PTV
    None,           \* no user, no proposal
    InitialRanks,   \* bound: the ranks members have at the start
    MaxChanges,     \* bound: changes of roles and of the four-eyes setting
    Faults          \* TRUE: calls may be cut off (crash, lost connection)

ASSUME ConstantsAssumption ==
    /\ ServiceUpdates \subseteq Proposals
    /\ Creations \subseteq Proposals \ ServiceUpdates
    /\ None \notin Users
    /\ None \notin Proposals
    /\ InitialRanks \subseteq Nat
    /\ \A r \in InitialRanks : r <= 4
    /\ MaxChanges \in Nat
    /\ Faults \in BOOLEAN

VARIABLES
    role,           \* role[u]: the user's rank in the tenant, 0 for no member
    fourEyes,       \* tenants.require_four_eyes
    row,            \* row[p]: the proposals row
    decision,       \* decision[p][u]: the proposal_reviewers row, "none" if absent
    call,           \* call[c]: the call's local state
    audit,          \* the ResolveProposal and ConfirmManualPublish entries
    inPtv,          \* inPtv[p]: PTV holds the whole change, or the new item
    changes,        \* number of role and setting changes so far
    landed,         \* history: the calls whose write reached PTV
    seen,           \* history: the calls that read PTV and found the change
    approvedOnce,   \* history: approvedOnce[p], who has ever signed p off
    excused         \* history: the calls begun before four-eyes last came on

settings == <<role, fourEyes, changes, excused>>
reviews == <<decision, approvedOnce>>
ptv == <<inPtv, landed>>
vars == <<settings, row, reviews, call, audit, ptv, seen>>

-----------------------------------------------------------------------------
Viewer == 1
Contributor == 2
Approver == 3
Publisher == 4
Ranks == 0..Publisher                   \* a tenant_admin may do as a publisher

Decisions == {"none", "pending", "approved", "changes_requested"}

\* Web requests carry no write API version; an MCP connection may have one.
Vias == {"web", "mcp_read", "mcp_write"}

ResolveOps == {"reject", "approve_and_export", "approve_and_apply"}
Ops == ResolveOps \cup {"none", "queue", "request_review", "sign_off", "confirm"}

Resolutions == {"approved", "rejected", "applied", "failed"}
Statuses == {"absent", "pending"} \cup Resolutions

Steps == {"idle", "insert", "pick", "add", "decide", "fourEyes", "reviewers",
          "reject", "recheck", "read", "adapter", "write", "auditSuccess",
          "auditFailure", "markApproved", "markApplied", "markFailed",
          "checkPtv", "publish", "record", "done"}

Idle == [op |-> "none", user |-> None, proposal |-> None, via |-> "web",
         held |-> {}, moved |-> "none", pc |-> "idle"]

CallRecord ==
    [op : Ops, user : Users \cup {None}, proposal : Proposals \cup {None},
     via : Vias,
     held : SUBSET Users,               \* the reviewers it names or has listed
     moved : Resolutions \cup {"none"}, \* the status its own UPDATE set
     pc : Steps]

Row == [status : Statuses, proposer : Users \cup {None},
        resolver : Users \cup {None}]

TypeOK ==
    /\ role \in [Users -> Ranks]
    /\ fourEyes \in BOOLEAN
    /\ row \in [Proposals -> Row]
    /\ decision \in [Proposals -> [Users -> Decisions]]
    /\ call \in [Calls -> CallRecord]
    /\ audit \subseteq Proposals \X Resolutions
    /\ inPtv \in [Proposals -> BOOLEAN]
    /\ changes \in 0..MaxChanges
    /\ landed \subseteq Calls
    /\ seen \subseteq Calls
    /\ approvedOnce \in [Proposals -> SUBSET Users]
    /\ excused \subseteq Calls

-----------------------------------------------------------------------------
AbsentRow == [status |-> "absent", proposer |-> None, resolver |-> None]
PendingRow(u) == [status |-> "pending", proposer |-> u, resolver |-> None]

\* The server may start on a database that holds pending proposals, with
\* reviewers and sign-offs.
Init ==
    /\ role \in [Users -> InitialRanks]
    /\ fourEyes \in BOOLEAN
    /\ row \in [Proposals -> {AbsentRow} \cup {PendingRow(u) : u \in Users}]
    /\ decision \in [Proposals -> [Users -> Decisions]]
    /\ \A p \in Proposals, u \in Users :
          decision[p][u] # "none" =>
              row[p].status = "pending" /\ row[p].proposer # u
    /\ call = [c \in Calls |-> Idle]
    /\ audit = {}
    /\ inPtv = [p \in Proposals |-> FALSE]
    /\ changes = 0
    /\ landed = {}
    /\ seen = {}
    /\ approvedOnce = [p \in Proposals |->
                          {u \in Users : decision[p][u] = "approved"}]
    /\ excused = {}

Goto(c, step) == call' = [call EXCEPT ![c].pc = step]

At(c, step) == call[c].pc = step

\* The call ends: it has answered, or thrown its error.
End(c) == Goto(c, "done")

Begin(c, op, u, p, via, step) ==
    /\ At(c, "idle")
    /\ call' = [call EXCEPT ![c] =
                  [Idle EXCEPT !.op = op, !.user = u, !.proposal = p,
                               !.via = via, !.pc = step]]

-----------------------------------------------------------------------------
(* Queueing (queueKindProposal): a Contributor's role is checked, the       *)
(* target read and diffed (which may fail), and the row inserted.           *)

StartQueue(c, u) ==
    /\ role[u] >= Contributor
    /\ Begin(c, "queue", u, None, "mcp_read", "insert")
    /\ UNCHANGED <<settings, row, reviews, audit, ptv, seen>>

Insert(c) ==
    /\ At(c, "insert")
    /\ \/ \E p \in Proposals :
            /\ row[p].status = "absent"
            /\ row' = [row EXCEPT ![p] = PendingRow(call[c].user)]
            /\ call' = [call EXCEPT ![c].proposal = p, ![c].pc = "done"]
       \/ /\ End(c)
          /\ UNCHANGED row
    /\ UNCHANGED <<settings, reviews, audit, ptv, seen>>

-----------------------------------------------------------------------------
(* Required reviewers (requestReview, signOffProposal): the pending check   *)
(* is made on a row read earlier than the write it guards.                  *)

StartRequestReview(c, u, p) ==
    /\ role[u] >= Contributor
    /\ row[p].status = "pending"
    /\ row[p].proposer = u \/ role[u] >= Approver
    /\ Begin(c, "request_review", u, p, "web", "pick")
    /\ UNCHANGED <<settings, row, reviews, audit, ptv, seen>>

\* The members list is read; naming nobody suitable is an error.
Pick(c) ==
    /\ At(c, "pick")
    /\ LET p == call[c].proposal
           candidates == {w \in Users : role[w] >= Contributor}
       IN  \/ \E w \in candidates \ {row[p].proposer} :
                call' = [call EXCEPT ![c].held = {w}, ![c].pc = "add"]
           \/ End(c)
    /\ UNCHANGED <<settings, row, reviews, audit, ptv, seen>>

\* Mutant of AddReviewers: ON CONFLICT DO UPDATE.
MutAddReviewers(c) ==
    /\ At(c, "add")
    /\ decision' = [decision EXCEPT ![call[c].proposal] =
           [u \in Users |-> IF u \in call[c].held THEN "pending" ELSE @[u]]]
    /\ End(c)
    /\ UNCHANGED <<settings, row, approvedOnce, audit, ptv, seen>>

\* INSERT ... ON CONFLICT DO NOTHING: a reviewer keeps the decision made.
AddReviewers(c) ==
    /\ At(c, "add")
    /\ LET p == call[c].proposal
       IN  decision' = [decision EXCEPT ![p] =
               [u \in Users |-> IF u \in call[c].held /\ @[u] = "none"
                                THEN "pending" ELSE @[u]]]
    /\ End(c)
    /\ UNCHANGED <<settings, row, approvedOnce, audit, ptv, seen>>

StartSignOff(c, u, p) ==
    /\ role[u] >= Contributor
    /\ row[p].status = "pending"
    /\ Begin(c, "sign_off", u, p, "web", "decide")
    /\ UNCHANGED <<settings, row, reviews, audit, ptv, seen>>

\* Only a requested reviewer's row is updated, whatever the proposal's status.
RecordDecision(c) ==
    /\ At(c, "decide")
    /\ End(c)
    /\ LET p == call[c].proposal
           u == call[c].user
       IN  \/ /\ decision[p][u] # "none"
              /\ \E d \in {"approved", "changes_requested"} :
                   /\ decision' = [decision EXCEPT ![p][u] = d]
                   /\ approvedOnce' = IF d = "approved"
                                      THEN [approvedOnce EXCEPT ![p] = @ \cup {u}]
                                      ELSE approvedOnce
           \/ /\ decision[p][u] = "none"
              /\ UNCHANGED reviews
    /\ UNCHANGED <<settings, row, audit, ptv, seen>>

-----------------------------------------------------------------------------
(* Resolving (resolveProposal): the checks.  The row is read for its kind   *)
(* and proposer only; its status is not looked at here.                     *)

StartResolve(c, u, p, op, via) ==
    /\ op \in ResolveOps
    /\ role[u] >= Approver
    /\ row[p].status # "absent"
    /\ Begin(c, op, u, p, via, IF op = "reject" THEN "reject" ELSE "fourEyes")
    /\ UNCHANGED <<settings, row, reviews, audit, ptv, seen>>

CheckFourEyes(c) ==
    /\ At(c, "fourEyes")
    /\ IF row[call[c].proposal].proposer = call[c].user /\ fourEyes
       THEN End(c)
       ELSE Goto(c, "reviewers")
    /\ UNCHANGED <<settings, row, reviews, audit, ptv, seen>>

Reviewers(p) == {u \in Users : decision[p][u] # "none"}

\* Mutant of Waiting: a reviewer who asked for changes has answered too.
MutWaiting(p) == {u \in Users : decision[p][u] = "pending"}

Waiting(p) == {u \in Reviewers(p) : decision[p][u] # "approved"}

\* What follows the reviewers check: the kind's approveForExport or apply.
\* A connection without a write API version cannot write, and fails at once.
AfterReviewers(c) ==
    LET service == call[c].proposal \in ServiceUpdates
    IN  IF call[c].op = "approve_and_export"
        THEN IF service THEN "recheck" ELSE "markApproved"
        ELSE IF call[c].via # "mcp_write" THEN "markFailed"
        ELSE IF service THEN "recheck" ELSE "read"

CheckReviewers(c) ==
    /\ At(c, "reviewers")
    /\ LET p == call[c].proposal
       IN  IF Waiting(p) # {}
           THEN End(c)
           ELSE call' = [call EXCEPT ![c].held = Reviewers(p),
                                     ![c].pc = AfterReviewers(c)]
    /\ UNCHANGED <<settings, row, reviews, audit, ptv, seen>>

-----------------------------------------------------------------------------
(* Resolving: what the approval does before the row is updated.             *)

\* An error while exporting leaves the proposal pending; one while applying
\* marks it failed.
Fail(c) == Goto(c, IF call[c].op = "approve_and_apply" THEN "markFailed" ELSE "done")

\* proposeChanges asks for the Approver role again.  A web request answers
\* from the role read when it started.
Recheck(c) ==
    /\ At(c, "recheck")
    /\ IF call[c].via = "web" \/ role[call[c].user] >= Approver
       THEN Goto(c, "read")
       ELSE Fail(c)
    /\ UNCHANGED <<settings, row, reviews, audit, ptv, seen>>

\* An update is re-read and re-diffed, which needs the registry's leave to
\* read (its refusal leaves the proposal pending), and what is to be applied
\* is validated.
ReadTarget(c) ==
    /\ At(c, "read")
    /\ \/ /\ call[c].proposal \notin Creations
          /\ role[call[c].user] < Viewer
          /\ End(c)
       \/ /\ call[c].proposal \in Creations \/ role[call[c].user] >= Viewer
          /\ \/ Fail(c)
             \/ Goto(c, IF call[c].op = "approve_and_apply"
                        THEN "adapter" ELSE "markApproved")
    /\ UNCHANGED <<settings, row, reviews, audit, ptv, seen>>

\* The registry refuses a write below Publisher: the proposal stays pending.
\* A missing configuration or credential fails it.
ResolveWriteAdapter(c) ==
    /\ At(c, "adapter")
    /\ \/ role[call[c].user] < Publisher /\ End(c)
       \/ role[call[c].user] >= Publisher /\ (Goto(c, "write") \/ Fail(c))
    /\ UNCHANGED <<settings, row, reviews, audit, ptv, seen>>

\* The write to PTV.  An error does not mean that nothing was written: the
\* answer may be lost, or the second of a service's two requests fail.
WritePtv(c) ==
    /\ At(c, "write")
    /\ LET p == call[c].proposal
       IN  \/ /\ Goto(c, "auditSuccess")
              /\ landed' = landed \cup {c}
              /\ inPtv' = [inPtv EXCEPT ![p] = TRUE]
           \/ /\ Goto(c, "auditFailure")
              /\ UNCHANGED ptv
           \/ /\ Goto(c, "auditFailure")
              /\ landed' = landed \cup {c}
              /\ \E b \in {TRUE, inPtv[p]} : inPtv' = [inPtv EXCEPT ![p] = b]
    /\ UNCHANGED <<settings, row, reviews, audit, seen>>

\* The Success entry is written inside the same try block as the write.
AuditSuccess(c) ==
    /\ At(c, "auditSuccess")
    /\ Goto(c, "markApplied") \/ (Faults /\ Goto(c, "auditFailure"))
    /\ UNCHANGED <<settings, row, reviews, audit, ptv, seen>>

\* Mutant of AuditFailure: a failed write leaves the proposal in the queue.
MutAuditFailureLeaves(c) ==
    /\ At(c, "auditFailure")
    /\ End(c)
    /\ UNCHANGED <<settings, row, reviews, audit, ptv, seen>>

AuditFailure(c) ==
    /\ At(c, "auditFailure")
    /\ Goto(c, "markFailed")
    /\ UNCHANGED <<settings, row, reviews, audit, ptv, seen>>

-----------------------------------------------------------------------------
(* ProposalService.transition: one UPDATE ... WHERE status = from.          *)

Moved(c, p, to, u) ==
    /\ row' = [row EXCEPT ![p].status = to, ![p].resolver = u]
    /\ call' = [call EXCEPT ![c].moved = to, ![c].pc = "record"]

\* Mutant of Transition: no status in the WHERE clause.
MutTransition(c, from, to, u) ==
    Moved(c, call[c].proposal, to, u)

Transition(c, from, to, u) ==
    LET p == call[c].proposal
    IN  \/ row[p].status = from /\ Moved(c, p, to, u)
        \/ row[p].status # from /\ End(c) /\ UNCHANGED row

\* Mutant of Outcome: a failed write is stored as "invalid".
MutOutcome == [reject |-> "rejected", markApproved |-> "approved",
               markApplied |-> "applied", markFailed |-> "invalid"]

\* Where the resolving calls update the row, and to what.
Outcome == [reject |-> "rejected", markApproved |-> "approved",
            markApplied |-> "applied", markFailed |-> "failed"]

MarkResolved(c) ==
    /\ call[c].pc \in DOMAIN Outcome
    /\ Transition(c, "pending", Outcome[call[c].pc], call[c].user)
    /\ UNCHANGED <<settings, reviews, audit, ptv, seen>>

\* The audit entry that follows a successful update.
Record(c) ==
    /\ At(c, "record")
    /\ audit' = audit \cup {<<call[c].proposal, call[c].moved>>}
    /\ End(c)
    /\ UNCHANGED <<settings, row, reviews, ptv, seen>>

-----------------------------------------------------------------------------
(* Confirming a manual publication (confirmManualPublish).                  *)

StartConfirm(c, u, p) ==
    /\ role[u] >= Approver
    /\ row[p].status = "approved"
    /\ Begin(c, "confirm", u, p, "web", "checkPtv")
    /\ UNCHANGED <<settings, row, reviews, audit, ptv, seen>>

\* PTV must hold the whole change, or the new item under the id given.
CheckPtv(c) ==
    /\ At(c, "checkPtv")
    /\ \/ /\ inPtv[call[c].proposal]
          /\ role[call[c].user] >= Viewer
          /\ seen' = seen \cup {c}
          /\ Goto(c, "publish")
       \/ End(c) /\ UNCHANGED seen
    /\ UNCHANGED <<settings, row, reviews, audit, ptv>>

\* Mutant of MarkPublished: whoever confirms becomes the resolver.
MutMarkPublished(c) ==
    /\ At(c, "publish")
    /\ Transition(c, "approved", "applied", call[c].user)
    /\ UNCHANGED <<settings, reviews, audit, ptv, seen>>

MarkPublished(c) ==
    /\ At(c, "publish")
    /\ Transition(c, "approved", "applied", row[call[c].proposal].resolver)
    /\ UNCHANGED <<settings, reviews, audit, ptv, seen>>

-----------------------------------------------------------------------------
(* The surroundings of the queue.                                           *)

\* The process dies, or the database fails a statement of the call.
CutOff(c) ==
    /\ Faults
    /\ call[c].pc \notin {"idle", "done"}
    /\ End(c)
    /\ UNCHANGED <<settings, row, reviews, audit, ptv, seen>>

\* A tenant admin changes or removes a member.
SetRole(u, r) ==
    /\ changes < MaxChanges
    /\ role[u] # r
    /\ role' = [role EXCEPT ![u] = r]
    /\ changes' = changes + 1
    /\ UNCHANGED <<fourEyes, excused, row, reviews, call, audit, ptv, seen>>

SetFourEyes ==
    /\ changes < MaxChanges
    /\ fourEyes' = ~fourEyes
    /\ excused' = IF fourEyes THEN excused
                  ELSE {c \in Calls : ~At(c, "idle")}
    /\ changes' = changes + 1
    /\ UNCHANGED <<role, row, reviews, call, audit, ptv, seen>>

\* People work in PTV's own UI: an exported change is entered, an item
\* edited or removed.
EditPtv(p) ==
    /\ inPtv' = [inPtv EXCEPT ![p] = ~@]
    /\ UNCHANGED <<settings, row, reviews, call, audit, landed, seen>>

-----------------------------------------------------------------------------
Start(c) ==
    \E u \in Users :
        \/ StartQueue(c, u)
        \/ \E p \in Proposals :
            \/ StartRequestReview(c, u, p)
            \/ StartSignOff(c, u, p)
            \/ \E op \in ResolveOps, via \in Vias : StartResolve(c, u, p, op, via)
            \/ StartConfirm(c, u, p)

\* The next statement of a call under way.
Step(c) ==
    \/ Insert(c)
    \/ Pick(c)
    \/ AddReviewers(c)
    \/ RecordDecision(c)
    \/ CheckFourEyes(c)
    \/ CheckReviewers(c)
    \/ Recheck(c)
    \/ ReadTarget(c)
    \/ ResolveWriteAdapter(c)
    \/ WritePtv(c)
    \/ AuditSuccess(c)
    \/ AuditFailure(c)
    \/ MarkResolved(c)
    \/ CheckPtv(c)
    \/ MarkPublished(c)
    \/ Record(c)

Surroundings ==
    \/ \E c \in Calls : CutOff(c)
    \/ \E u \in Users, r \in Ranks : SetRole(u, r)
    \/ SetFourEyes
    \/ \E p \in Proposals : EditPtv(p)

Next ==
    \/ \E c \in Calls : Start(c) \/ Step(c)
    \/ Surroundings

Spec == Init /\ [][Next]_vars

\* Every awaited statement of a call under way is eventually answered.
FairSpec == Spec /\ \A c \in Calls : WF_vars(Step(c))

-----------------------------------------------------------------------------
(* Properties.                                                              *)

\* Call c has itself moved its proposal out of its former status.
HasMoved(c) == call[c].moved # "none"

IsApproval(c) == call[c].op \in {"approve_and_export", "approve_and_apply"}

\* "Two concurrent resolutions cannot both succeed" (transition): however
\* the calls interleave, at most one rejecting or approving call ever moves
\* a proposal, although none of them looks at the status beforehand.
ResolvedOnce ==
    \A c, d \in Calls :
        (/\ HasMoved(c) /\ call[c].op \in ResolveOps
         /\ HasMoved(d) /\ call[d].op \in ResolveOps
         /\ call[c].proposal = call[d].proposal) => c = d

\* The audit trail never claims a resolution the proposal did not get: an
\* entry of resolveProposal or confirmManualPublish is written only after
\* the caller's own update, so it is the proposal's status, or the approval
\* that preceded its publication.
AuditAgrees ==
    \A entry \in audit :
        LET p == entry[1]
            s == entry[2]
        IN  row[p].status = s \/ (s = "approved" /\ row[p].status = "applied")

\* "applied" is never guessed: the call that set it had its own write to
\* PTV answered, or had read PTV and found the change there.
AppliedMeansInPtv ==
    \A p \in Proposals :
        row[p].status = "applied" =>
            \E c \in landed \cup seen :
                call[c].proposal = p /\ call[c].moved = "applied"

\* What the queue says of a resolution is true, whatever calls raced for it:
\* one call made it, the trail names it, and "applied" means what it says.
ResolutionsAreTrue ==
    /\ ResolvedOnce
    /\ AuditAgrees
    /\ AppliedMeansInPtv

\* Nobody resolves a proposal of their own by approving it, except in a
\* call during which the tenant had four-eyes review switched off (the
\* setting is read once, some statements before the row is updated).
FourEyesHeld ==
    \A c \in Calls :
        (/\ IsApproval(c)
         /\ HasMoved(c)
         /\ call[c].user = row[call[c].proposal].proposer)
        => ~fourEyes \/ c \in excused

\* Every reviewer an approval found on the list had signed the proposal
\* off, even if the list or a decision has changed since.
SignOffsGate ==
    \A c \in Calls :
        IsApproval(c) /\ HasMoved(c) =>
            call[c].held \subseteq approvedOnce[call[c].proposal]

\* An approval that moved a proposal had passed both gates: another pair of
\* eyes, and the sign-off of every required reviewer it found.
ApprovalsAreGated ==
    /\ FourEyesHeld
    /\ SignOffsGate

\* Asking a reviewer again, or late, never takes back a decision made: only
\* the reviewer's own sign-off changes it, and never to undecided.
DecisionsKept ==
    [][\A p \in Proposals, u \in Users :
          decision[p][u] \in {"approved", "changes_requested"}
          /\ decision'[p][u] # decision[p][u]
          => /\ decision'[p][u] \in {"approved", "changes_requested"}
             /\ \E c \in Calls : /\ call[c].op = "sign_off"
                                 /\ call[c].user = u
                                 /\ At(c, "decide")]_vars

\* The queue implements what the proposal store promises.
Lifecycle == INSTANCE ProposalLifecycle WITH
    status <- [p \in Proposals |-> row[p].status],
    resolver <- [p \in Proposals |-> row[p].resolver]

RefinesLifecycle == Lifecycle!Spec

\* A write that reached PTV does not leave its proposal in the queue, to be
\* approved and written again, as long as the process and the database stay up.
WriteSettles ==
    \A c \in Calls :
        c \in landed ~>
            \E p \in Proposals : call[c].proposal = p /\ row[p].status # "pending"

\* Every resolution gets its audit entry, as long as nothing is cut off.
ResolutionAudited ==
    \A p \in Proposals, s \in Resolutions :
        row[p].status = s ~> <<p, s>> \in audit

\* Without faults nothing about a resolution is left hanging.
ResolutionsSettle == WriteSettles /\ ResolutionAudited

-----------------------------------------------------------------------------
(* What the repository says of the queue and the code does not do.          *)

\* "Not being allowed to write leaves the proposal pending for a Publisher"
\* (resolveProposal): an apply over a connection that cannot write at all
\* does not close the proposal.
NotAllowedLeavesPending ==
    \A c \in Calls :
        call[c].op = "approve_and_apply" /\ call[c].via # "mcp_write" => ~HasMoved(c)

=============================================================================
