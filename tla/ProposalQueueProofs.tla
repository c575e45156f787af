------------------------ MODULE ProposalQueueProofs ------------------------
(***************************************************************************)
(* What ProposalQueue guarantees for every set of users, proposals and     *)
(* calls.  None of the safety properties is inductive as it stands; the    *)
(* invariant IInv adds what a call under way has already established.      *)
(***************************************************************************)
EXTENDS ProposalQueue, TLAPS

\* The steps of an approving call once it has passed the four-eyes check,
\* and once it has passed the reviewers check.
Reviewed == {"recheck", "read", "adapter", "write", "auditSuccess",
             "auditFailure", "markApproved", "markApplied", "markFailed"}
Unobjected == Reviewed \cup {"reviewers"}

\* A call that has begun on a proposal names a user and a row that exists.
CallsKnown ==
    \A c \in Calls :
        /\ call[c].op # "none" => call[c].user \in Users
        /\ call[c].op \notin {"none", "queue"} =>
              /\ call[c].proposal \in Proposals
              /\ row[call[c].proposal].status # "absent"

\* Which operation a call at a given step is carrying out.
OpAtStep ==
    \A c \in Calls :
        /\ At(c, "idle") => call[c].op = "none"
        /\ ~At(c, "idle") => call[c].op # "none"
        /\ At(c, "insert") => call[c].op = "queue"
        /\ At(c, "decide") => call[c].op = "sign_off"
        /\ At(c, "add") \/ At(c, "pick") => call[c].op = "request_review"
        /\ At(c, "reject") => call[c].op = "reject"
        /\ call[c].pc \in Unobjected \cup {"fourEyes"} => IsApproval(c)
        /\ At(c, "checkPtv") \/ At(c, "publish") => call[c].op = "confirm"
        /\ HasMoved(c) => call[c].pc \in {"record", "done"}
        /\ At(c, "record") => HasMoved(c)
        /\ HasMoved(c) => call[c].op \in ResolveOps \cup {"confirm"}

\* What a call set is still what the row says, or has been published since.
MovedTruthful ==
    \A c \in Calls :
        HasMoved(c) =>
            \/ row[call[c].proposal].status = call[c].moved
            \/ /\ call[c].moved = "approved"
               /\ row[call[c].proposal].status = "applied"

\* Before it sets "applied", a call has written to PTV or read it there.
PtvEvidence ==
    \A c \in Calls :
        /\ At(c, "auditSuccess") \/ At(c, "markApplied") => c \in landed
        /\ At(c, "publish") => c \in seen

\* An approval of one's own proposal past the four-eyes check is excused.
FourEyesPassed ==
    \A c \in Calls :
        (/\ call[c].pc \in Unobjected \/ (IsApproval(c) /\ HasMoved(c))
         /\ call[c].user = row[call[c].proposal].proposer)
        => ~fourEyes \/ c \in excused

\* The reviewers an approval found have all signed off by then.
SignOffsPassed ==
    /\ \A p \in Proposals, u \in Users :
          decision[p][u] = "approved" => u \in approvedOnce[p]
    /\ \A c \in Calls :
          call[c].pc \in Reviewed \/ (IsApproval(c) /\ HasMoved(c)) =>
              call[c].held \subseteq approvedOnce[call[c].proposal]

IInv ==
    /\ TypeOK
    /\ CallsKnown
    /\ OpAtStep
    /\ MovedTruthful
    /\ AuditAgrees
    /\ PtvEvidence
    /\ AppliedMeansInPtv
    /\ FourEyesPassed
    /\ SignOffsPassed
    /\ ResolvedOnce

-----------------------------------------------------------------------------
(* What the updates of a call do to its fields.                             *)

\* Call c goes on to step s, perhaps with other reviewers in hand; no other
\* call changes.
Advances(c, s) ==
    \A d \in Calls :
        /\ call'[d].op = call[d].op
        /\ call'[d].user = call[d].user
        /\ call'[d].proposal = call[d].proposal
        /\ call'[d].moved = call[d].moved
        /\ d # c => call'[d].held = call[d].held
        /\ call'[d].pc = IF d = c THEN s ELSE call[d].pc

\* Goto changes the step of one call, and keeps the type.
LEMMA GotoAdvances ==
    ASSUME TypeOK, NEW c \in Calls, NEW s \in Steps, Goto(c, s)
    PROVE  /\ call' \in [Calls -> CallRecord]
           /\ Advances(c, s)
           /\ call'[c].held = call[c].held
<1>1. call[c] \in CallRecord
  BY DEF TypeOK
<1>2. [call[c] EXCEPT !.pc = s] \in CallRecord
  BY <1>1 DEF CallRecord
<1>3. call' \in [Calls -> CallRecord]
  BY <1>2 DEF Goto, TypeOK
<1>4. Advances(c, s) /\ call'[c].held = call[c].held
  BY DEF TypeOK, CallRecord, Goto, Advances
<1> QED BY <1>3, <1>4

\* The same for an update of the step and the reviewers in hand.
LEMMA HoldAdvances ==
    ASSUME TypeOK, NEW c \in Calls, NEW s \in Steps, NEW h \in SUBSET Users,
           call' = [call EXCEPT ![c].held = h, ![c].pc = s]
    PROVE  /\ call' \in [Calls -> CallRecord]
           /\ Advances(c, s)
           /\ call'[c].held = h
<1>1. call[c] \in CallRecord
  BY DEF TypeOK
<1>2. [call[c] EXCEPT !.held = h, !.pc = s] \in CallRecord
  BY <1>1 DEF CallRecord
<1>3. call' \in [Calls -> CallRecord]
  BY <1>2 DEF TypeOK
<1>4. Advances(c, s) /\ call'[c].held = h
  BY DEF TypeOK, CallRecord, Advances
<1> QED BY <1>3, <1>4

\* A new call has the fields it is begun with.
LEMMA BeginFields ==
    ASSUME TypeOK, NEW c \in Calls, NEW op \in Ops, NEW u \in Users,
           NEW p \in Proposals \cup {None}, NEW via \in Vias, NEW s \in Steps,
           Begin(c, op, u, p, via, s)
    PROVE  /\ call' \in [Calls -> CallRecord]
           /\ \A d \in Calls \ {c} : call'[d] = call[d]
           /\ call'[c].op = op
           /\ call'[c].user = u
           /\ call'[c].proposal = p
           /\ call'[c].moved = "none"
           /\ call'[c].pc = s
<1> DEFINE begun == [Idle EXCEPT !.op = op, !.user = u, !.proposal = p,
                                 !.via = via, !.pc = s]
<1>1. Idle \in CallRecord /\ Idle.moved = "none"
  BY DEF Idle, CallRecord, Ops, Vias, Steps
<1>2. begun \in CallRecord
  BY <1>1 DEF CallRecord
<1>3. /\ begun.op = op /\ begun.user = u /\ begun.proposal = p
      /\ begun.moved = "none" /\ begun.pc = s
  BY <1>1 DEF CallRecord
<1>4. call' = [call EXCEPT ![c] = begun]
  BY DEF Begin
<1> HIDE DEF begun
<1>5. call' \in [Calls -> CallRecord]
  BY <1>2, <1>4 DEF TypeOK
<1>6. call'[c] = begun /\ \A d \in Calls \ {c} : call'[d] = call[d]
  BY <1>4 DEF TypeOK
<1> QED BY <1>3, <1>5, <1>6

\* A row that moves takes its new status and resolver, and keeps its proposer;
\* the call remembers the status it set.
LEMMA MovedFields ==
    ASSUME TypeOK, NEW c \in Calls, NEW p \in Proposals, NEW s \in Resolutions,
           NEW u \in Users \cup {None}, Moved(c, p, s, u)
    PROVE  /\ call' \in [Calls -> CallRecord]
           /\ row' \in [Proposals -> Row]
           /\ \A d \in Calls \ {c} : call'[d] = call[d]
           /\ call'[c].op = call[c].op
           /\ call'[c].user = call[c].user
           /\ call'[c].proposal = call[c].proposal
           /\ call'[c].held = call[c].held
           /\ call'[c].moved = s
           /\ call'[c].pc = "record"
           /\ \A q \in Proposals \ {p} : row'[q] = row[q]
           /\ row'[p].proposer = row[p].proposer
           /\ row'[p].status = s
           /\ row'[p].resolver = u
<1>1. call[c] \in CallRecord /\ row[p] \in Row
  BY DEF TypeOK
<1>2. [call[c] EXCEPT !.moved = s, !.pc = "record"] \in CallRecord
  BY <1>1 DEF CallRecord, Steps
<1>3. [row[p] EXCEPT !.status = s, !.resolver = u] \in Row
  BY <1>1 DEF Row, Statuses
<1>4. call' = [call EXCEPT ![c] = [call[c] EXCEPT !.moved = s, !.pc = "record"]]
  BY DEF Moved
<1>5. row' = [row EXCEPT ![p] = [row[p] EXCEPT !.status = s, !.resolver = u]]
  BY DEF Moved
<1>6. call' \in [Calls -> CallRecord] /\ row' \in [Proposals -> Row]
  BY <1>2, <1>3, <1>4, <1>5 DEF TypeOK
<1>7. /\ \A d \in Calls \ {c} : call'[d] = call[d]
      /\ call'[c] = [call[c] EXCEPT !.moved = s, !.pc = "record"]
  BY <1>4 DEF TypeOK
<1>8. /\ \A q \in Proposals \ {p} : row'[q] = row[q]
      /\ row'[p] = [row[p] EXCEPT !.status = s, !.resolver = u]
  BY <1>5 DEF TypeOK
<1> QED BY <1>1, <1>6, <1>7, <1>8 DEF CallRecord, Row

-----------------------------------------------------------------------------
(* Type correctness.                                                        *)

LEMMA TypeInit == Init => TypeOK
<1> SUFFICES ASSUME Init PROVE TypeOK
  OBVIOUS
<1>1. role \in [Users -> Ranks]
  <2>1. InitialRanks \subseteq Ranks
    BY ConstantsAssumption DEF Ranks, Publisher
  <2> QED BY <2>1 DEF Init
<1>2. row \in [Proposals -> Row]
  BY DEF Init, Row, AbsentRow, PendingRow, Statuses
<1>3. call \in [Calls -> CallRecord]
  BY DEF Init, CallRecord, Idle, Ops, Vias, Steps
<1> QED BY <1>1, <1>2, <1>3, ConstantsAssumption DEF Init, TypeOK

\* Each step keeps every variable's type.
LEMMA TypeStep == IInv /\ [Next]_vars => TypeOK'
<1> SUFFICES ASSUME IInv, [Next]_vars PROVE TypeOK'
  OBVIOUS
<1>0. TypeOK
  BY DEF IInv
<1> USE <1>0
\* A step that only moves a call on leaves the type to call'.
<1>a. ASSUME call' \in [Calls -> CallRecord],
             UNCHANGED <<settings, row, reviews, audit, ptv, seen>>
      PROVE  TypeOK'
  BY <1>a DEF TypeOK, settings, reviews, ptv
<1>b. ASSUME NEW c \in Calls, End(c) PROVE call' \in [Calls -> CallRecord]
  BY <1>b, GotoAdvances DEF End, Steps
<1>1. ASSUME NEW c \in Calls, Start(c) PROVE TypeOK'
  <2>1. ASSUME NEW u \in Users, StartQueue(c, u) PROVE TypeOK'
    BY <2>1, <1>a, BeginFields DEF StartQueue, Ops, Vias, Steps
  <2>2. ASSUME NEW u \in Users, NEW p \in Proposals, StartRequestReview(c, u, p)
        PROVE  TypeOK'
    BY <2>2, <1>a, BeginFields DEF StartRequestReview, Ops, Vias, Steps
  <2>3. ASSUME NEW u \in Users, NEW p \in Proposals, StartSignOff(c, u, p)
        PROVE  TypeOK'
    BY <2>3, <1>a, BeginFields DEF StartSignOff, Ops, Vias, Steps
  <2>4. ASSUME NEW u \in Users, NEW p \in Proposals, NEW op \in ResolveOps,
               NEW via \in Vias, StartResolve(c, u, p, op, via)
        PROVE  TypeOK'
    BY <2>4, <1>a, BeginFields DEF StartResolve, Ops, ResolveOps, Steps
  <2>5. ASSUME NEW u \in Users, NEW p \in Proposals, StartConfirm(c, u, p)
        PROVE  TypeOK'
    BY <2>5, <1>a, BeginFields DEF StartConfirm, Ops, Vias, Steps
  <2> QED BY <1>1, <2>1, <2>2, <2>3, <2>4, <2>5 DEF Start
<1>2. ASSUME NEW c \in Calls, Insert(c) PROVE TypeOK'
  <2>1. CASE End(c) /\ UNCHANGED row
    BY <1>2, <2>1, <1>a, <1>b DEF Insert
  <2>2. CASE \E p \in Proposals :
               /\ row' = [row EXCEPT ![p] = PendingRow(call[c].user)]
               /\ call' = [call EXCEPT ![c].proposal = p, ![c].pc = "done"]
    <3>1. PICK p \in Proposals :
               /\ row' = [row EXCEPT ![p] = PendingRow(call[c].user)]
               /\ call' = [call EXCEPT ![c].proposal = p, ![c].pc = "done"]
      BY <2>2
    <3>2. call[c] \in CallRecord
      BY DEF TypeOK
    <3>3. PendingRow(call[c].user) \in Row
      BY <3>2 DEF CallRecord, Row, PendingRow, Statuses
    <3>4. [call[c] EXCEPT !.proposal = p, !.pc = "done"] \in CallRecord
      BY <3>2 DEF CallRecord, Steps
    <3>5. row' \in [Proposals -> Row] /\ call' \in [Calls -> CallRecord]
      BY <3>1, <3>3, <3>4 DEF TypeOK
    <3> QED BY <1>2, <3>5 DEF Insert, TypeOK, settings, reviews, ptv
  <2> QED BY <1>2, <2>1, <2>2 DEF Insert
<1>3. ASSUME NEW c \in Calls, Pick(c) PROVE TypeOK'
  <2>1. CASE End(c)
    BY <1>3, <2>1, <1>a, <1>b DEF Pick
  <2>2. ASSUME NEW w \in Users, call' = [call EXCEPT ![c].held = {w}, ![c].pc = "add"]
        PROVE  TypeOK'
    <3>1. {w} \in SUBSET Users /\ "add" \in Steps
      BY DEF Steps
    <3>2. call' \in [Calls -> CallRecord]
      BY <2>2, <3>1, HoldAdvances
    <3> QED BY <1>3, <3>2, <1>a DEF Pick
  <2> QED BY <1>3, <2>1, <2>2 DEF Pick
<1>4. ASSUME NEW c \in Calls, AddReviewers(c) PROVE TypeOK'
  <2>1. decision' \in [Proposals -> [Users -> Decisions]]
    BY <1>4 DEF AddReviewers, TypeOK, Decisions
  <2> QED BY <1>4, <1>b, <2>1 DEF AddReviewers, TypeOK, settings, ptv
<1>5. ASSUME NEW c \in Calls, RecordDecision(c) PROVE TypeOK'
  <2>1. call[c].proposal \in Proposals /\ call[c].user \in Users
    BY <1>5 DEF RecordDecision, IInv, CallsKnown, OpAtStep
  <2>2. /\ decision' \in [Proposals -> [Users -> Decisions]]
        /\ approvedOnce' \in [Proposals -> SUBSET Users]
    <3>1. CASE UNCHANGED reviews
      BY <3>1 DEF TypeOK, reviews
    <3>2. ASSUME NEW d \in {"approved", "changes_requested"},
                 decision' = [decision EXCEPT ![call[c].proposal][call[c].user] = d]
          PROVE  decision' \in [Proposals -> [Users -> Decisions]]
      BY <3>2, <2>1 DEF TypeOK, Decisions
    <3>3. ASSUME approvedOnce' = [approvedOnce EXCEPT ![call[c].proposal] =
                                    @ \cup {call[c].user}]
          PROVE  approvedOnce' \in [Proposals -> SUBSET Users]
      BY <3>3, <2>1 DEF TypeOK
    <3> QED BY <1>5, <3>1, <3>2, <3>3 DEF RecordDecision, TypeOK
  <2> QED BY <1>5, <1>b, <2>2 DEF RecordDecision, TypeOK, settings, ptv
<1>6. ASSUME NEW c \in Calls, CheckFourEyes(c) PROVE TypeOK'
  BY <1>6, <1>a, GotoAdvances DEF CheckFourEyes, End, Steps
<1>7. ASSUME NEW c \in Calls, CheckReviewers(c) PROVE TypeOK'
  <2>1. CASE End(c)
    BY <1>7, <2>1, <1>a, <1>b DEF CheckReviewers
  <2>2. CASE call' = [call EXCEPT ![c].held = Reviewers(call[c].proposal),
                                  ![c].pc = AfterReviewers(c)]
    <3>1. Reviewers(call[c].proposal) \in SUBSET Users /\ AfterReviewers(c) \in Steps
      BY DEF Reviewers, AfterReviewers, Steps
    <3> QED BY <1>7, <2>2, <3>1, <1>a, HoldAdvances DEF CheckReviewers
  <2> QED BY <1>7, <2>1, <2>2 DEF CheckReviewers
<1>8. ASSUME NEW c \in Calls, Recheck(c) PROVE TypeOK'
  BY <1>8, <1>a, GotoAdvances DEF Recheck, Fail, Steps
<1>9. ASSUME NEW c \in Calls, ReadTarget(c) PROVE TypeOK'
  BY <1>9, <1>a, <1>b, GotoAdvances DEF ReadTarget, Fail, Steps
<1>10. ASSUME NEW c \in Calls, ResolveWriteAdapter(c) PROVE TypeOK'
  BY <1>10, <1>a, <1>b, GotoAdvances DEF ResolveWriteAdapter, Fail, Steps
<1>11. ASSUME NEW c \in Calls, WritePtv(c) PROVE TypeOK'
  <2>1. call' \in [Calls -> CallRecord]
    BY <1>11, GotoAdvances DEF WritePtv, Steps
  <2>2. landed' \subseteq Calls
    BY <1>11 DEF WritePtv, TypeOK, ptv
  <2>3. inPtv' \in [Proposals -> BOOLEAN]
    <3>1. call[c].proposal \in Proposals
      BY <1>11 DEF WritePtv, At, IInv, CallsKnown, OpAtStep, IsApproval, Unobjected, Reviewed
    <3>2. inPtv' = inPtv \/ \E b \in BOOLEAN : inPtv' = [inPtv EXCEPT ![call[c].proposal] = b]
      BY <1>11, <3>1 DEF WritePtv, ptv, TypeOK
    <3> QED BY <3>1, <3>2 DEF TypeOK
  <2> QED BY <1>11, <2>1, <2>2, <2>3 DEF WritePtv, TypeOK, settings, reviews
<1>12. ASSUME NEW c \in Calls, AuditSuccess(c) PROVE TypeOK'
  BY <1>12, <1>a, GotoAdvances DEF AuditSuccess, Steps
<1>13. ASSUME NEW c \in Calls, AuditFailure(c) PROVE TypeOK'
  BY <1>13, <1>a, GotoAdvances DEF AuditFailure, Steps
\* An UPDATE of the row, by either kind of transition.
<1>c. ASSUME NEW c \in Calls, NEW from \in Statuses, NEW to \in Resolutions,
             NEW u \in Users \cup {None}, call[c].proposal \in Proposals,
             Transition(c, from, to, u),
             UNCHANGED <<settings, reviews, audit, ptv, seen>>
      PROVE  TypeOK'
  <2>1. CASE Moved(c, call[c].proposal, to, u)
    BY <1>c, <2>1, MovedFields DEF TypeOK, settings, reviews, ptv
  <2>2. CASE End(c) /\ UNCHANGED row
    BY <1>c, <2>2, <1>a, <1>b
  <2> QED BY <1>c, <2>1, <2>2 DEF Transition
<1>14. ASSUME NEW c \in Calls, MarkResolved(c) PROVE TypeOK'
  <2>1. /\ call[c].proposal \in Proposals
        /\ call[c].user \in Users
        /\ Outcome[call[c].pc] \in Resolutions
    BY <1>14 DEF MarkResolved, Outcome, Resolutions, At, IInv, CallsKnown, OpAtStep,
                 IsApproval, Unobjected, Reviewed
  <2> QED BY <1>14, <2>1, <1>c DEF MarkResolved, Statuses
<1>15. ASSUME NEW c \in Calls, CheckPtv(c) PROVE TypeOK'
  BY <1>15, <1>b, GotoAdvances DEF CheckPtv, Steps, TypeOK, settings, reviews, ptv
<1>16. ASSUME NEW c \in Calls, MarkPublished(c) PROVE TypeOK'
  <2>1. call[c].proposal \in Proposals
    BY <1>16 DEF MarkPublished, At, IInv, CallsKnown, OpAtStep
  <2>2. row[call[c].proposal].resolver \in Users \cup {None}
    BY <2>1 DEF TypeOK, Row
  <2> QED BY <1>16, <2>1, <2>2, <1>c DEF MarkPublished, Statuses, Resolutions
<1>17. ASSUME NEW c \in Calls, Record(c) PROVE TypeOK'
  <2>1. call[c].proposal \in Proposals /\ call[c].moved \in Resolutions
    <3>1. HasMoved(c) /\ call[c].op \in ResolveOps \cup {"confirm"}
      BY <1>17 DEF Record, At, IInv, OpAtStep
    <3>2. call[c].moved \in Resolutions \cup {"none"}
      BY DEF TypeOK, CallRecord
    <3> QED BY <3>1, <3>2 DEF IInv, CallsKnown, HasMoved, ResolveOps
  <2> QED BY <1>17, <2>1, <1>b DEF Record, TypeOK, settings, reviews, ptv
<1>18. ASSUME NEW c \in Calls, CutOff(c) PROVE TypeOK'
  BY <1>18, <1>a, <1>b DEF CutOff
<1>19. ASSUME NEW u \in Users, NEW r \in Ranks, SetRole(u, r) PROVE TypeOK'
  BY <1>19, ConstantsAssumption DEF SetRole, TypeOK, reviews, ptv
<1>20. ASSUME SetFourEyes PROVE TypeOK'
  BY <1>20, ConstantsAssumption DEF SetFourEyes, TypeOK, reviews, ptv
<1>21. ASSUME NEW p \in Proposals, EditPtv(p) PROVE TypeOK'
  BY <1>21 DEF EditPtv, TypeOK, settings, reviews
<1>22. CASE UNCHANGED vars
  BY <1>22 DEF vars, TypeOK, settings, reviews, ptv
<1> QED
  BY <1>1, <1>2, <1>3, <1>4, <1>5, <1>6, <1>7, <1>8, <1>9, <1>10, <1>11, <1>12, <1>13,
     <1>14, <1>15, <1>16, <1>17, <1>18, <1>19, <1>20, <1>21, <1>22
  DEF Next, Step, Surroundings

-----------------------------------------------------------------------------
(* Steps that leave the rows alone.                                         *)

\* A call that goes on to a step it is entitled to, and at most records its
\* own move, a review decision or a write to PTV, keeps the invariant.
LEMMA QuietStep ==
    ASSUME IInv, TypeOK',
           NEW c \in Calls, NEW s \in Unobjected \cup {"add", "publish", "done"},
           Advances(c, s), ~At(c, "idle"),
           UNCHANGED <<row, fourEyes, excused>>,
           landed \subseteq landed', seen \subseteq seen',
           \A p \in Proposals : approvedOnce[p] \subseteq approvedOnce'[p],
           \A p \in Proposals, u \in Users :
               decision'[p][u] = "approved" => u \in approvedOnce'[p],
           \/ audit' = audit
           \/ /\ HasMoved(c)
              /\ audit' = audit \cup {<<call[c].proposal, call[c].moved>>},
           HasMoved(c) => s = "done" /\ call'[c].held = call[c].held,
           s = "add" => call[c].op = "request_review",
           s = "publish" => call[c].op = "confirm" /\ c \in seen',
           s \in Unobjected =>
               /\ IsApproval(c)
               /\ call[c].user = row[call[c].proposal].proposer =>
                      ~fourEyes \/ c \in excused,
           s \in Reviewed => call'[c].held \subseteq approvedOnce'[call[c].proposal],
           s \in {"auditSuccess", "markApplied"} => c \in landed'
    PROVE  IInv'
<1>1. CallsKnown'
  BY DEF Advances, IInv, CallsKnown
<1>2. OpAtStep'
  BY DEF Advances, IInv, OpAtStep, At, HasMoved, IsApproval, Unobjected, Reviewed
<1>3. MovedTruthful'
  BY DEF Advances, IInv, MovedTruthful, HasMoved
<1>4. AuditAgrees'
  <2> SUFFICES ASSUME NEW e \in audit'
               PROVE  \/ row[e[1]].status = e[2]
                      \/ e[2] = "approved" /\ row[e[1]].status = "applied"
    BY DEF AuditAgrees
  <2>1. CASE e \in audit
    BY <2>1 DEF IInv, AuditAgrees
  <2>2. CASE HasMoved(c) /\ e = <<call[c].proposal, call[c].moved>>
    BY <2>2 DEF IInv, MovedTruthful
  <2> QED BY <2>1, <2>2
<1>5. PtvEvidence'
  BY DEF Advances, IInv, PtvEvidence, At, Unobjected, Reviewed
<1>6. AppliedMeansInPtv'
  <2> SUFFICES ASSUME NEW p \in Proposals, row[p].status = "applied"
               PROVE  \E d \in landed' \cup seen' :
                          call'[d].proposal = p /\ call'[d].moved = "applied"
    BY DEF AppliedMeansInPtv
  <2>1. PICK d \in landed \cup seen : call[d].proposal = p /\ call[d].moved = "applied"
    BY DEF IInv, AppliedMeansInPtv
  <2>2. d \in Calls
    BY <2>1 DEF IInv, TypeOK
  <2> QED BY <2>1, <2>2 DEF Advances
<1>7. FourEyesPassed'
  BY DEF Advances, IInv, FourEyesPassed, HasMoved, IsApproval
<1>8. SignOffsPassed'
  <2> SUFFICES ASSUME NEW d \in Calls,
                      \/ call'[d].pc \in Reviewed
                      \/ IsApproval(d)' /\ HasMoved(d)'
               PROVE  call'[d].held \subseteq approvedOnce'[call'[d].proposal]
    BY DEF SignOffsPassed
  <2>1. IsApproval(d) /\ call[d].proposal \in Proposals
    <3>1. IsApproval(d)
      BY DEF Advances, IInv, OpAtStep, IsApproval, Unobjected
    <3> QED BY <3>1 DEF IInv, CallsKnown, IsApproval
  <2>2. CASE d # c \/ HasMoved(c)
    BY <2>1, <2>2 DEF Advances, IInv, SignOffsPassed, HasMoved, IsApproval, Reviewed
  <2>3. CASE d = c /\ ~HasMoved(c)
    BY <2>3 DEF Advances, HasMoved
  <2> QED BY <2>2, <2>3
<1>9. ResolvedOnce'
  BY DEF Advances, IInv, ResolvedOnce, HasMoved
<1> QED BY <1>1, <1>2, <1>3, <1>4, <1>5, <1>6, <1>7, <1>8, <1>9 DEF IInv

\* A call that begins, on a row that exists or to queue one, keeps it.
LEMMA BeginStep ==
    ASSUME IInv, TypeOK', NEW c \in Calls, NEW op \in Ops \ {"none"}, NEW u \in Users,
           NEW p \in Proposals \cup {None}, NEW via \in Vias, NEW s \in Steps,
           Begin(c, op, u, p, via, s),
           UNCHANGED <<settings, row, reviews, audit, ptv, seen>>,
           op # "queue" => p \in Proposals /\ row[p].status # "absent",
           \/ op = "queue" /\ s = "insert"
           \/ op = "request_review" /\ s = "pick"
           \/ op = "sign_off" /\ s = "decide"
           \/ op = "reject" /\ s = "reject"
           \/ op \in {"approve_and_export", "approve_and_apply"} /\ s = "fourEyes"
           \/ op = "confirm" /\ s = "checkPtv"
    PROVE  IInv'
<1>1. /\ \A d \in Calls \ {c} : call'[d] = call[d]
      /\ call'[c].op = op /\ call'[c].user = u /\ call'[c].proposal = p
      /\ call'[c].moved = "none" /\ call'[c].pc = s
  BY BeginFields DEF IInv
<1>2. ~HasMoved(c)
  BY DEF Begin, IInv, OpAtStep, At
<1>3. CallsKnown'
  BY <1>1 DEF IInv, CallsKnown
<1>4. OpAtStep'
  BY <1>1 DEF IInv, OpAtStep, At, HasMoved, IsApproval, Unobjected, Reviewed, ResolveOps
<1>5. MovedTruthful'
  BY <1>1 DEF IInv, MovedTruthful, HasMoved
<1>6. AuditAgrees'
  BY DEF IInv, AuditAgrees
<1>7. PtvEvidence'
  BY <1>1 DEF IInv, PtvEvidence, At, ptv
<1>8. AppliedMeansInPtv'
  <2> SUFFICES ASSUME NEW q \in Proposals, row[q].status = "applied"
               PROVE  \E d \in landed \cup seen :
                          call'[d].proposal = q /\ call'[d].moved = "applied"
    BY DEF AppliedMeansInPtv, ptv
  <2>1. PICK d \in landed \cup seen : call[d].proposal = q /\ call[d].moved = "applied"
    BY DEF IInv, AppliedMeansInPtv
  <2>2. d \in Calls \ {c}
    BY <2>1, <1>2 DEF IInv, TypeOK, HasMoved
  <2> QED BY <1>1, <2>1, <2>2
<1>9. FourEyesPassed'
  BY <1>1 DEF IInv, FourEyesPassed, HasMoved, IsApproval, Unobjected, Reviewed, settings
<1>10. SignOffsPassed'
  BY <1>1 DEF IInv, SignOffsPassed, HasMoved, IsApproval, Reviewed, reviews
<1>11. ResolvedOnce'
  BY <1>1 DEF IInv, ResolvedOnce, HasMoved
<1> QED BY <1>3, <1>4, <1>5, <1>6, <1>7, <1>8, <1>9, <1>10, <1>11 DEF IInv

-----------------------------------------------------------------------------
(* Steps that change a row.                                                 *)

\* The INSERT that ends a queueing call.
Inserted(c, p) ==
    /\ row' = [row EXCEPT ![p] = PendingRow(call[c].user)]
    /\ call' = [call EXCEPT ![c].proposal = p, ![c].pc = "done"]

\* Inserting a row takes an absent proposal, which nothing speaks of yet.
LEMMA InsertStep ==
    ASSUME IInv, TypeOK', NEW c \in Calls, At(c, "insert"), NEW p \in Proposals,
           row[p].status = "absent",
           Inserted(c, p), UNCHANGED <<settings, reviews, audit, ptv, seen>>
    PROVE  IInv'
<1>1. /\ \A d \in Calls \ {c} : call'[d] = call[d]
      /\ call'[c].op = call[c].op /\ call'[c].user = call[c].user
      /\ call'[c].proposal = p /\ call'[c].moved = call[c].moved
      /\ call'[c].pc = "done"
  BY DEF Inserted, IInv, TypeOK, CallRecord
<1>2. /\ \A q \in Proposals \ {p} : row'[q] = row[q]
      /\ row'[p].status = "pending" /\ row'[p].proposer = call[c].user
  BY DEF Inserted, IInv, TypeOK, PendingRow
<1>3. call[c].op = "queue" /\ ~HasMoved(c)
  BY DEF IInv, OpAtStep, At, ResolveOps
<1>4. CallsKnown'
  BY <1>1, <1>2, <1>3 DEF IInv, CallsKnown
<1>5. OpAtStep'
  BY <1>1, <1>3 DEF IInv, OpAtStep, At, HasMoved, IsApproval, Unobjected, Reviewed
<1>6. MovedTruthful'
  <2> SUFFICES ASSUME NEW d \in Calls \ {c}, HasMoved(d)
               PROVE  row'[call[d].proposal].status = row[call[d].proposal].status
    BY <1>1, <1>3 DEF IInv, MovedTruthful, HasMoved
  <2>1. call[d].proposal \in Proposals \ {p}
    BY DEF IInv, OpAtStep, CallsKnown, ResolveOps
  <2> QED BY <1>2, <2>1
<1>7. AuditAgrees'
  <2> SUFFICES ASSUME NEW e \in audit
               PROVE  \/ row'[e[1]].status = e[2]
                      \/ e[2] = "approved" /\ row'[e[1]].status = "applied"
    BY DEF AuditAgrees
  <2>1. e[1] \in Proposals /\ e[2] \in Resolutions
    BY DEF IInv, TypeOK
  <2>2. e[1] # p
    BY <2>1 DEF IInv, AuditAgrees, Resolutions
  <2> QED BY <1>2, <2>1, <2>2 DEF IInv, AuditAgrees
<1>8. PtvEvidence'
  BY <1>1 DEF IInv, PtvEvidence, At, ptv
<1>9. AppliedMeansInPtv'
  <2> SUFFICES ASSUME NEW q \in Proposals \ {p}, row[q].status = "applied"
               PROVE  \E d \in landed \cup seen :
                          call'[d].proposal = q /\ call'[d].moved = "applied"
    BY <1>2 DEF AppliedMeansInPtv, ptv
  <2>1. PICK d \in landed \cup seen : call[d].proposal = q /\ call[d].moved = "applied"
    BY DEF IInv, AppliedMeansInPtv
  <2>2. d \in Calls \ {c}
    BY <2>1, <1>3 DEF IInv, TypeOK, HasMoved
  <2> QED BY <1>1, <2>1, <2>2
<1>10. FourEyesPassed'
  <2> SUFFICES ASSUME NEW d \in Calls \ {c},
                      call[d].pc \in Unobjected \/ (IsApproval(d) /\ HasMoved(d))
               PROVE  row'[call[d].proposal].proposer = row[call[d].proposal].proposer
    BY <1>1, <1>3 DEF IInv, FourEyesPassed, HasMoved, IsApproval, Unobjected, Reviewed,
                      settings
  <2>1. call[d].proposal \in Proposals \ {p}
    BY DEF IInv, OpAtStep, CallsKnown, IsApproval
  <2> QED BY <1>2, <2>1
<1>11. SignOffsPassed'
  BY <1>1, <1>3 DEF IInv, SignOffsPassed, HasMoved, IsApproval, Reviewed, reviews
<1>12. ResolvedOnce'
  BY <1>1, <1>3 DEF IInv, ResolvedOnce, HasMoved
<1> QED BY <1>4, <1>5, <1>6, <1>7, <1>8, <1>9, <1>10, <1>11, <1>12 DEF IInv

\* The conditional UPDATE: what makes it safe is that the row is still in
\* the status the call takes it from.
LEMMA MoveStep ==
    ASSUME IInv, TypeOK', NEW c \in Calls, NEW p \in Proposals, p = call[c].proposal,
           NEW s \in Resolutions, NEW u \in Users \cup {None}, Moved(c, p, s, u),
           UNCHANGED <<settings, reviews, audit, ptv, seen>>,
           \/ /\ row[p].status = "pending"
              /\ call[c].op \in ResolveOps
              /\ call[c].pc \in Reviewed \cup {"reject"}
              /\ s = "applied" => c \in landed
           \/ /\ row[p].status = "approved"
              /\ s = "applied"
              /\ call[c].op = "confirm"
              /\ c \in seen
    PROVE  IInv'
<1>1. /\ \A d \in Calls \ {c} : call'[d] = call[d]
      /\ call'[c].op = call[c].op /\ call'[c].user = call[c].user
      /\ call'[c].proposal = p /\ call'[c].held = call[c].held
      /\ call'[c].moved = s /\ call'[c].pc = "record"
      /\ \A q \in Proposals \ {p} : row'[q] = row[q]
      /\ row'[p].proposer = row[p].proposer /\ row'[p].status = s
  BY MovedFields DEF IInv
<1>2. s \notin {"absent", "pending", "none"}
  BY DEF Resolutions
<1>3. \A d \in Calls : HasMoved(d) =>
          /\ call[d].proposal \in Proposals
          /\ call[d].proposal = p =>
                 call[d].moved = "approved" /\ row[p].status = "approved" /\ s = "applied"
  <2> SUFFICES ASSUME NEW d \in Calls, HasMoved(d)
               PROVE  /\ call[d].proposal \in Proposals
                      /\ call[d].proposal = p =>
                             /\ call[d].moved = "approved"
                             /\ row[p].status = "approved"
                             /\ s = "applied"
    OBVIOUS
  <2>1. call[d].proposal \in Proposals
    BY DEF IInv, OpAtStep, CallsKnown, ResolveOps
  <2>2. call[d].moved \in Resolutions
    BY DEF IInv, TypeOK, CallRecord, HasMoved
  <2> QED BY <2>1, <2>2 DEF IInv, MovedTruthful, Resolutions
<1>4. CallsKnown'
  BY <1>1, <1>2 DEF IInv, CallsKnown
<1>5. OpAtStep'
  BY <1>1, <1>2 DEF IInv, OpAtStep, At, HasMoved, IsApproval, Unobjected, Reviewed
<1>6. MovedTruthful'
  BY <1>1, <1>3 DEF IInv, MovedTruthful, HasMoved
<1>7. AuditAgrees'
  <2> SUFFICES ASSUME NEW e \in audit
               PROVE  \/ row'[e[1]].status = e[2]
                      \/ e[2] = "approved" /\ row'[e[1]].status = "applied"
    BY DEF AuditAgrees
  <2>1. e[1] \in Proposals /\ e[2] \in Resolutions
    BY DEF IInv, TypeOK
  <2>2. e[1] = p => e[2] = "approved" /\ s = "applied"
    BY <2>1 DEF IInv, AuditAgrees, Resolutions
  <2> QED BY <1>1, <2>1, <2>2 DEF IInv, AuditAgrees
<1>8. PtvEvidence'
  BY <1>1 DEF IInv, PtvEvidence, At, ptv
<1>9. AppliedMeansInPtv'
  <2> SUFFICES ASSUME NEW q \in Proposals, row'[q].status = "applied"
               PROVE  \E d \in landed \cup seen :
                          call'[d].proposal = q /\ call'[d].moved = "applied"
    BY DEF AppliedMeansInPtv, ptv
  <2>1. CASE q = p
    BY <1>1, <2>1
  <2>2. CASE q # p
    <3>1. PICK d \in landed \cup seen : call[d].proposal = q /\ call[d].moved = "applied"
      BY <1>1, <2>2 DEF IInv, AppliedMeansInPtv
    <3>2. d \in Calls \ {c}
      BY <3>1, <2>2 DEF IInv, TypeOK
    <3> QED BY <1>1, <3>1, <3>2
  <2> QED BY <2>1, <2>2
<1>10. FourEyesPassed'
  <2> SUFFICES ASSUME NEW d \in Calls,
                      \/ call'[d].pc \in Unobjected
                      \/ IsApproval(d)' /\ HasMoved(d)',
                      call'[d].user = row'[call'[d].proposal].proposer
               PROVE  ~fourEyes \/ d \in excused
    BY DEF FourEyesPassed, settings
  <2>1. IsApproval(d) /\ call[d].proposal \in Proposals
    BY <1>1 DEF IInv, OpAtStep, CallsKnown, IsApproval, Unobjected, Reviewed
  <2>2. call[d].pc \in Unobjected \/ HasMoved(d)
    BY <1>1, <2>1 DEF IInv, OpAtStep, IsApproval, Unobjected, At, HasMoved
  <2> QED BY <1>1, <2>1, <2>2 DEF IInv, FourEyesPassed
<1>11. SignOffsPassed'
  <2> SUFFICES ASSUME NEW d \in Calls,
                      \/ call'[d].pc \in Reviewed
                      \/ IsApproval(d)' /\ HasMoved(d)'
               PROVE  call[d].held \subseteq approvedOnce[call[d].proposal]
    BY <1>1 DEF SignOffsPassed, IInv, reviews
  <2>1. CASE d = c
    BY <1>1, <2>1 DEF IInv, SignOffsPassed, OpAtStep, IsApproval, Reviewed, At
  <2>2. CASE d # c
    BY <1>1, <2>2 DEF IInv, SignOffsPassed, IsApproval, HasMoved
  <2> QED BY <2>1, <2>2
<1>12. ResolvedOnce'
  <2> SUFFICES ASSUME NEW d \in Calls, NEW e \in Calls, d # e,
                      HasMoved(d)', call'[d].op \in ResolveOps,
                      HasMoved(e)', call'[e].op \in ResolveOps,
                      call'[d].proposal = call'[e].proposal
               PROVE  FALSE
    BY DEF ResolvedOnce
  <2>1. CASE d # c /\ e # c
    BY <1>1, <2>1 DEF IInv, ResolvedOnce, HasMoved
  <2>2. CASE d = c \/ e = c
    BY <1>1, <1>3, <2>2 DEF HasMoved, ResolveOps
  <2> QED BY <2>1, <2>2
<1> QED BY <1>4, <1>5, <1>6, <1>7, <1>8, <1>9, <1>10, <1>11, <1>12 DEF IInv

-----------------------------------------------------------------------------
(* The invariant.                                                           *)

LEMMA InvInit == Init => IInv
<1> SUFFICES ASSUME Init PROVE IInv
  OBVIOUS
<1>1. \A c \in Calls : call[c].op = "none" /\ call[c].moved = "none" /\ call[c].pc = "idle"
  BY DEF Init, Idle
<1>2. \A p \in Proposals : row[p].status \in {"absent", "pending"}
  BY DEF Init, AbsentRow, PendingRow
<1> QED
  BY <1>1, <1>2, TypeInit
  DEF Init, IInv, CallsKnown, OpAtStep, MovedTruthful, AuditAgrees, PtvEvidence,
      AppliedMeansInPtv, FourEyesPassed, SignOffsPassed, ResolvedOnce, At, HasMoved,
      IsApproval, Unobjected, Reviewed

\* An approving call goes on within the steps it has reached, or ends.
LEMMA PlainStep ==
    ASSUME IInv, TypeOK', NEW c \in Calls, NEW s \in Reviewed \cup {"done"}, Goto(c, s),
           ~At(c, "idle"),
           UNCHANGED <<settings, row, reviews, audit>>,
           landed \subseteq landed', seen \subseteq seen',
           s # "done" => call[c].pc \in Reviewed,
           s \in {"auditSuccess", "markApplied"} => c \in landed'
    PROVE  IInv'
<1>1. s \in Steps
  BY DEF Reviewed, Steps
<1>2. Advances(c, s) /\ call'[c].held = call[c].held
  BY <1>1, GotoAdvances DEF IInv
<1>3. HasMoved(c) => s = "done"
  BY DEF IInv, OpAtStep, Reviewed
<1>4. /\ UNCHANGED <<fourEyes, excused, decision, approvedOnce>>
      /\ \A p \in Proposals, u \in Users :
             decision'[p][u] = "approved" => u \in approvedOnce'[p]
  BY DEF settings, reviews, IInv, SignOffsPassed
<1>5. s \in Unobjected =>
          /\ IsApproval(c)
          /\ call[c].user = row[call[c].proposal].proposer => ~fourEyes \/ c \in excused
  BY DEF Unobjected, Reviewed, IInv, OpAtStep, FourEyesPassed
<1>6. s \in Reviewed => call'[c].held \subseteq approvedOnce'[call[c].proposal]
  BY <1>2, <1>4 DEF Reviewed, IInv, SignOffsPassed
<1> QED BY <1>2, <1>3, <1>4, <1>5, <1>6, QuietStep DEF Unobjected, Reviewed

LEMMA InvStep == IInv /\ [Next]_vars => IInv'
<1> SUFFICES ASSUME IInv, [Next]_vars PROVE IInv'
  OBVIOUS
<1>0. TypeOK'
  BY TypeStep
<1> USE <1>0
<1>1. ASSUME NEW c \in Calls, Start(c) PROVE IInv'
  <2>1. ASSUME NEW u \in Users, StartQueue(c, u) PROVE IInv'
    BY <2>1, BeginStep DEF StartQueue, Ops, Vias, Steps
  <2>2. ASSUME NEW u \in Users, NEW p \in Proposals, StartRequestReview(c, u, p)
        PROVE  IInv'
    BY <2>2, BeginStep DEF StartRequestReview, Ops, Vias, Steps
  <2>3. ASSUME NEW u \in Users, NEW p \in Proposals, StartSignOff(c, u, p)
        PROVE  IInv'
    BY <2>3, BeginStep DEF StartSignOff, Ops, Vias, Steps
  <2>4. ASSUME NEW u \in Users, NEW p \in Proposals, NEW op \in ResolveOps,
               NEW via \in Vias, StartResolve(c, u, p, op, via)
        PROVE  IInv'
    <3>1. CASE op = "reject"
      BY <2>4, <3>1, BeginStep DEF StartResolve, Ops, ResolveOps, Steps
    <3>2. CASE op # "reject"
      <4>1. op \in {"approve_and_export", "approve_and_apply"} /\ op \in Ops \ {"none"}
        BY <3>2 DEF ResolveOps, Ops
      <4>2. Begin(c, op, u, p, via, "fourEyes") /\ "fourEyes" \in Steps
        BY <2>4, <3>2 DEF StartResolve, Steps
      <4> QED BY <2>4, <4>1, <4>2, BeginStep DEF StartResolve
    <3> QED BY <3>1, <3>2
  <2>5. ASSUME NEW u \in Users, NEW p \in Proposals, StartConfirm(c, u, p)
        PROVE  IInv'
    BY <2>5, BeginStep DEF StartConfirm, Ops, Vias, Steps
  <2> QED BY <1>1, <2>1, <2>2, <2>3, <2>4, <2>5 DEF Start
\* Any call may end, whatever it was doing, if nothing else changes.
<1>e. ASSUME NEW c \in Calls, ~At(c, "idle"), End(c),
             UNCHANGED <<settings, row, reviews, audit, ptv, seen>>
      PROVE  IInv'
  BY <1>e, PlainStep DEF End, ptv
<1>2. ASSUME NEW c \in Calls, Insert(c) PROVE IInv'
  <2>1. ASSUME NEW p \in Proposals, row[p].status = "absent", Inserted(c, p)
        PROVE  IInv'
    BY <1>2, <2>1, InsertStep DEF Insert
  <2>2. CASE End(c) /\ UNCHANGED row
    BY <1>2, <2>2, <1>e DEF Insert, At
  <2> QED BY <1>2, <2>1, <2>2 DEF Insert, Inserted
<1>3. ASSUME NEW c \in Calls, Pick(c) PROVE IInv'
  <2>1. CASE End(c)
    BY <1>3, <2>1, <1>e DEF Pick, At
  <2>2. ASSUME NEW w \in Users, call' = [call EXCEPT ![c].held = {w}, ![c].pc = "add"]
        PROVE  IInv'
    <3>1. {w} \in SUBSET Users /\ "add" \in Steps
      BY DEF Steps
    <3>2. Advances(c, "add")
      BY <2>2, <3>1, HoldAdvances DEF IInv
    <3>3. ~At(c, "idle") /\ call[c].op = "request_review" /\ ~HasMoved(c)
      BY <1>3 DEF Pick, At, IInv, OpAtStep
    <3>4. UNCHANGED <<row, fourEyes, excused, landed, seen, audit, decision, approvedOnce>>
      BY <1>3 DEF Pick, settings, reviews, ptv
    <3>5. "add" \notin Unobjected /\ "add" \notin Reviewed
      BY DEF Unobjected, Reviewed
    <3> HIDE <2>2
    <3> QED BY <3>2, <3>3, <3>4, <3>5, QuietStep DEF IInv, SignOffsPassed
  <2> QED BY <1>3, <2>1, <2>2 DEF Pick
\* Ending together with a review decision or an audit entry.
<1>d. ASSUME NEW c \in Calls, ~At(c, "idle"), End(c),
             UNCHANGED <<settings, row, ptv, seen>>,
             \A p \in Proposals : approvedOnce[p] \subseteq approvedOnce'[p],
             \A p \in Proposals, u \in Users :
                 decision'[p][u] = "approved" => u \in approvedOnce'[p],
             \/ audit' = audit
             \/ /\ HasMoved(c)
                /\ audit' = audit \cup {<<call[c].proposal, call[c].moved>>}
      PROVE  IInv'
  <2>1. Advances(c, "done") /\ call'[c].held = call[c].held
    BY <1>d, GotoAdvances DEF End, Steps, IInv
  <2>2. "done" \notin Unobjected /\ "done" \notin Reviewed
    BY DEF Unobjected, Reviewed
  <2>3. UNCHANGED <<row, fourEyes, excused, landed, seen>>
    BY <1>d DEF settings, ptv
  <2> QED BY <1>d, <2>1, <2>2, <2>3, QuietStep
<1>4. ASSUME NEW c \in Calls, AddReviewers(c) PROVE IInv'
  <2>1. \A p \in Proposals, u \in Users :
            decision'[p][u] = "approved" => u \in approvedOnce'[p]
    <3>1. \A p \in Proposals, u \in Users :
              decision'[p][u] = decision[p][u] \/ decision'[p][u] = "pending"
      BY <1>4 DEF AddReviewers, IInv, TypeOK
    <3> QED BY <1>4, <3>1 DEF AddReviewers, IInv, SignOffsPassed
  <2> QED BY <1>4, <2>1, <1>d DEF AddReviewers, At
<1>5. ASSUME NEW c \in Calls, RecordDecision(c) PROVE IInv'
  <2> DEFINE q == call[c].proposal
             v == call[c].user
  <2>1. q \in Proposals /\ v \in Users
    BY <1>5 DEF RecordDecision, IInv, CallsKnown, OpAtStep
  <2>2. ~At(c, "idle") /\ End(c) /\ UNCHANGED <<settings, row, audit, ptv, seen>>
    BY <1>5 DEF RecordDecision, At
  <2>3. CASE UNCHANGED reviews
    BY <2>2, <2>3, <1>e
  <2>4. ASSUME NEW d \in {"approved", "changes_requested"},
               decision' = [decision EXCEPT ![q][v] = d],
               approvedOnce' = IF d = "approved"
                               THEN [approvedOnce EXCEPT ![q] = @ \cup {v}]
                               ELSE approvedOnce
        PROVE  IInv'
    <3>1. \A p \in Proposals : approvedOnce[p] \subseteq approvedOnce'[p]
      BY <2>1, <2>4 DEF IInv, TypeOK
    <3>2. \A p \in Proposals, u \in Users :
              decision'[p][u] = "approved" => u \in approvedOnce'[p]
      <4> TAKE p \in Proposals, u \in Users
      <4>1. CASE p = q /\ u = v
        BY <2>1, <2>4, <4>1 DEF IInv, TypeOK
      <4>2. CASE ~(p = q /\ u = v)
        <5>1. decision'[p][u] = decision[p][u]
          BY <2>1, <2>4, <4>2 DEF IInv, TypeOK
        <5> QED BY <3>1, <5>1 DEF IInv, SignOffsPassed
      <4> QED BY <4>1, <4>2
    <3> QED BY <2>2, <3>1, <3>2, <1>d
  <2> QED BY <1>5, <2>3, <2>4 DEF RecordDecision

<1>6. ASSUME NEW c \in Calls, CheckFourEyes(c) PROVE IInv'
  <2>1. CASE End(c)
    BY <1>6, <2>1, <1>e DEF CheckFourEyes, At
  <2>2. CASE Goto(c, "reviewers") /\ ~(row[call[c].proposal].proposer = call[c].user /\ fourEyes)
    <3>1. Advances(c, "reviewers")
      BY <2>2, GotoAdvances DEF IInv, Steps
    <3>2. ~At(c, "idle") /\ IsApproval(c) /\ ~HasMoved(c)
      BY <1>6 DEF CheckFourEyes, At, IInv, OpAtStep
    <3>3. UNCHANGED <<row, fourEyes, excused, landed, seen, audit, decision, approvedOnce>>
      BY <1>6 DEF CheckFourEyes, settings, reviews, ptv
    <3>4. "reviewers" \in Unobjected /\ "reviewers" \notin Reviewed
      BY DEF Unobjected, Reviewed
    <3> QED BY <2>2, <3>1, <3>2, <3>3, <3>4, QuietStep DEF IInv, SignOffsPassed
  <2> QED BY <1>6, <2>1, <2>2 DEF CheckFourEyes
<1>7. ASSUME NEW c \in Calls, CheckReviewers(c) PROVE IInv'
  <2> DEFINE q == call[c].proposal
  <2>1. CASE End(c)
    BY <1>7, <2>1, <1>e DEF CheckReviewers, At
  <2>2. CASE /\ Waiting(q) = {}
             /\ call' = [call EXCEPT ![c].held = Reviewers(q), ![c].pc = AfterReviewers(c)]
    <3>1. PICK s \in {"recheck", "markApproved", "markFailed", "read"} : s = AfterReviewers(c)
      BY DEF AfterReviewers
    <3>2. Reviewers(q) \in SUBSET Users /\ s \in Steps /\ s \in Reviewed /\ s \in Unobjected
      BY DEF Reviewers, Steps, Reviewed, Unobjected
    <3>3. Advances(c, s) /\ call'[c].held = Reviewers(q)
      BY <2>2, <3>1, <3>2, HoldAdvances DEF IInv
    <3>4. /\ ~At(c, "idle") /\ IsApproval(c) /\ ~HasMoved(c) /\ q \in Proposals
          /\ call[c].user = row[q].proposer => ~fourEyes \/ c \in excused
      <4>1. call[c].pc = "reviewers"
        BY <1>7 DEF CheckReviewers, At
      <4>2. IsApproval(c) /\ ~HasMoved(c)
        BY <4>1 DEF IInv, OpAtStep, Unobjected
      <4>3. call[c].user = row[q].proposer => ~fourEyes \/ c \in excused
        BY <4>1 DEF IInv, FourEyesPassed, Unobjected
      <4> QED BY <4>1, <4>2, <4>3 DEF At, IInv, CallsKnown, IsApproval
    <3>5. UNCHANGED <<row, fourEyes, excused, landed, seen, audit, decision, approvedOnce>>
      BY <1>7 DEF CheckReviewers, settings, reviews, ptv
    <3>6. call'[c].held \subseteq approvedOnce'[q]
      BY <2>2, <3>3, <3>4, <3>5 DEF Waiting, Reviewers, IInv, SignOffsPassed
    <3>7. s \notin {"add", "publish", "auditSuccess", "markApplied"}
      BY <3>1
    <3> HIDE <2>2 DEF q
    <3> QED BY <3>2, <3>3, <3>4, <3>5, <3>6, <3>7, QuietStep DEF IInv, SignOffsPassed, q
  <2> QED BY <1>7, <2>1, <2>2 DEF CheckReviewers
<1>8. ASSUME NEW c \in Calls, Recheck(c) PROVE IInv'
  <2>1. PICK s \in {"read", "markFailed", "done"} : Goto(c, s)
    BY <1>8 DEF Recheck, Fail
  <2> QED BY <1>8, <2>1, PlainStep DEF Recheck, At, Reviewed, ptv
<1>9. ASSUME NEW c \in Calls, ReadTarget(c) PROVE IInv'
  <2>1. PICK s \in {"adapter", "markApproved", "markFailed", "done"} : Goto(c, s)
    BY <1>9 DEF ReadTarget, Fail, End
  <2> QED BY <1>9, <2>1, PlainStep DEF ReadTarget, At, Reviewed, ptv
<1>10. ASSUME NEW c \in Calls, ResolveWriteAdapter(c) PROVE IInv'
  <2>1. PICK s \in {"write", "markFailed", "done"} : Goto(c, s)
    BY <1>10 DEF ResolveWriteAdapter, Fail, End
  <2> QED BY <1>10, <2>1, PlainStep DEF ResolveWriteAdapter, At, Reviewed, ptv
<1>11. ASSUME NEW c \in Calls, WritePtv(c) PROVE IInv'
  <2>1. PICK s \in {"auditSuccess", "auditFailure"} :
            /\ Goto(c, s)
            /\ landed \subseteq landed'
            /\ s = "auditSuccess" => c \in landed'
    BY <1>11 DEF WritePtv, ptv
  <2> QED BY <1>11, <2>1, PlainStep DEF WritePtv, At, Reviewed
<1>12. ASSUME NEW c \in Calls, AuditSuccess(c) PROVE IInv'
  <2>1. PICK s \in {"markApplied", "auditFailure"} : Goto(c, s)
    BY <1>12 DEF AuditSuccess
  <2>2. c \in landed
    BY <1>12 DEF AuditSuccess, IInv, PtvEvidence
  <2> QED BY <1>12, <2>1, <2>2, PlainStep DEF AuditSuccess, At, Reviewed, ptv
<1>13. ASSUME NEW c \in Calls, AuditFailure(c) PROVE IInv'
  BY <1>13, PlainStep DEF AuditFailure, At, Reviewed, ptv
<1>14. ASSUME NEW c \in Calls, MarkResolved(c) PROVE IInv'
  <2> DEFINE q == call[c].proposal
             s == Outcome[call[c].pc]
  <2>1. /\ call[c].pc \in {"reject", "markApproved", "markApplied", "markFailed"}
        /\ s \in Resolutions
        /\ s = "applied" => call[c].pc = "markApplied"
    BY <1>14 DEF MarkResolved, Outcome, Resolutions
  <2>2. call[c].op \in ResolveOps
    BY <2>1 DEF IInv, OpAtStep, At, Unobjected, Reviewed, IsApproval, ResolveOps
  <2>3. q \in Proposals /\ call[c].user \in Users
    BY <2>2 DEF IInv, CallsKnown, ResolveOps
  <2>4. s = "applied" => c \in landed
    BY <2>1 DEF IInv, PtvEvidence, At
  <2>5. CASE row[q].status = "pending" /\ Moved(c, q, s, call[c].user)
    <3> HIDE DEF s
    <3> QED BY <1>14, <2>1, <2>2, <2>3, <2>4, <2>5, MoveStep DEF MarkResolved, Reviewed
  <2>6. CASE End(c) /\ UNCHANGED row
    BY <1>14, <2>1, <2>6, <1>e DEF MarkResolved, At
  <2> QED BY <1>14, <2>5, <2>6 DEF MarkResolved, Transition
<1>15. ASSUME NEW c \in Calls, CheckPtv(c) PROVE IInv'
  <2>1. CASE End(c) /\ UNCHANGED seen
    BY <1>15, <2>1, <1>e DEF CheckPtv, At
  <2>2. CASE Goto(c, "publish") /\ seen' = seen \cup {c}
    <3>1. Advances(c, "publish")
      BY <2>2, GotoAdvances DEF IInv, Steps
    <3>2. ~At(c, "idle") /\ call[c].op = "confirm" /\ ~HasMoved(c)
      BY <1>15 DEF CheckPtv, At, IInv, OpAtStep
    <3>3. UNCHANGED <<row, fourEyes, excused, landed, audit, decision, approvedOnce>>
      BY <1>15 DEF CheckPtv, settings, reviews, ptv
    <3>4. "publish" \notin Unobjected /\ "publish" \notin Reviewed
      BY DEF Unobjected, Reviewed
    <3> QED BY <2>2, <3>1, <3>2, <3>3, <3>4, QuietStep DEF IInv, SignOffsPassed
  <2> QED BY <1>15, <2>1, <2>2 DEF CheckPtv
<1>16. ASSUME NEW c \in Calls, MarkPublished(c) PROVE IInv'
  <2> DEFINE q == call[c].proposal
  <2>1. q \in Proposals /\ call[c].op = "confirm" /\ c \in seen
    BY <1>16 DEF MarkPublished, At, IInv, CallsKnown, OpAtStep, PtvEvidence
  <2>2. row[q].resolver \in Users \cup {None} /\ "applied" \in Resolutions
    BY <2>1 DEF IInv, TypeOK, Row, Resolutions
  <2>3. CASE row[q].status = "approved" /\ Moved(c, q, "applied", row[q].resolver)
    BY <1>16, <2>1, <2>2, <2>3, MoveStep DEF MarkPublished
  <2>4. CASE End(c) /\ UNCHANGED row
    BY <1>16, <2>4, <1>e DEF MarkPublished, At
  <2> QED BY <1>16, <2>3, <2>4 DEF MarkPublished, Transition
<1>17. ASSUME NEW c \in Calls, Record(c) PROVE IInv'
  <2>1. HasMoved(c) /\ ~At(c, "idle")
    BY <1>17 DEF Record, At, IInv, OpAtStep
  <2>2. UNCHANGED <<decision, approvedOnce>>
    BY <1>17 DEF Record, reviews
  <2> QED BY <1>17, <2>1, <2>2, <1>d DEF Record, IInv, SignOffsPassed
<1>18. ASSUME NEW c \in Calls, CutOff(c) PROVE IInv'
  BY <1>18, <1>e DEF CutOff, At
\* What the surroundings change is nothing the invariant speaks of, except
\* the four-eyes setting.
<1>s. ASSUME UNCHANGED <<row, reviews, call, audit, landed, seen>>,
             \/ UNCHANGED <<fourEyes, excused>>
             \/ fourEyes' = FALSE
             \/ \A c \in Calls : ~At(c, "idle") => c \in excused'
      PROVE  IInv'
  <2>1. UNCHANGED <<row, decision, approvedOnce, call, audit, landed, seen>>
    BY <1>s DEF reviews
  <2>2. /\ CallsKnown' /\ OpAtStep' /\ MovedTruthful' /\ AuditAgrees' /\ PtvEvidence'
        /\ AppliedMeansInPtv' /\ SignOffsPassed' /\ ResolvedOnce'
    BY <2>1 DEF IInv, CallsKnown, OpAtStep, MovedTruthful, AuditAgrees, PtvEvidence,
                AppliedMeansInPtv, SignOffsPassed, ResolvedOnce, At, HasMoved, IsApproval
  <2>3. FourEyesPassed'
    BY <1>s, <2>1 DEF IInv, FourEyesPassed, OpAtStep, HasMoved, IsApproval, At, Unobjected, Reviewed
  <2> QED BY <2>2, <2>3 DEF IInv
<1>19. ASSUME NEW u \in Users, NEW r \in Ranks, SetRole(u, r) PROVE IInv'
  BY <1>19, <1>s DEF SetRole, ptv
<1>20. ASSUME SetFourEyes PROVE IInv'
  <2>1. fourEyes \in BOOLEAN
    BY DEF IInv, TypeOK
  <2> QED BY <1>20, <2>1, <1>s DEF SetFourEyes, ptv
<1>21. ASSUME NEW p \in Proposals, EditPtv(p) PROVE IInv'
  BY <1>21, <1>s DEF EditPtv, settings
<1>22. CASE UNCHANGED vars
  BY <1>22, <1>s DEF vars, settings, ptv
<1> QED
  BY <1>1, <1>2, <1>3, <1>4, <1>5, <1>6, <1>7, <1>8, <1>9, <1>10, <1>11, <1>12, <1>13,
     <1>14, <1>15, <1>16, <1>17, <1>18, <1>19, <1>20, <1>21, <1>22
  DEF Next, Step, Surroundings

\* The inductive invariant holds of every behaviour.
LEMMA Invariant == Spec => []IInv
<1> QED BY InvInit, InvStep, PTL DEF Spec

-----------------------------------------------------------------------------
(* The theorems.                                                            *)

\* Every variable keeps its type: no call ever stores a status, decision or
\* step the code does not know.
THEOREM TypeCorrect == Spec => []TypeOK
<1>1. IInv => TypeOK
  BY DEF IInv
<1> QED BY <1>1, Invariant, PTL

\* However many calls resolve a proposal at once, at most one of them moves it.
THEOREM ResolvedAtMostOnce == Spec => []ResolvedOnce
<1>1. IInv => ResolvedOnce
  BY DEF IInv
<1> QED BY <1>1, Invariant, PTL

\* The audit trail never claims a resolution the proposal did not get.
THEOREM AuditTruthful == Spec => []AuditAgrees
<1>1. IInv => AuditAgrees
  BY DEF IInv
<1> QED BY <1>1, Invariant, PTL

\* An applied proposal was written to PTV, or found there.
THEOREM AppliedIsInPtv == Spec => []AppliedMeansInPtv
<1>1. IInv => AppliedMeansInPtv
  BY DEF IInv
<1> QED BY <1>1, Invariant, PTL

\* Nobody approves a proposal of their own unless four-eyes was off meanwhile.
THEOREM FourEyesIsHeld == Spec => []FourEyesHeld
<1>1. IInv => FourEyesHeld
  BY DEF IInv, FourEyesPassed, FourEyesHeld
<1> QED BY <1>1, Invariant, PTL

\* The reviewers an approval found had all signed off.
THEOREM SignOffsAreGate == Spec => []SignOffsGate
<1>1. IInv => SignOffsGate
  BY DEF IInv, SignOffsPassed, SignOffsGate
<1> QED BY <1>1, Invariant, PTL

\* A resolution is made once, is in the trail as it was made, and says
\* "applied" only of what PTV has taken.
THEOREM ResolutionsTrue == Spec => []ResolutionsAreTrue
<1>1. IInv => ResolutionsAreTrue
  BY DEF IInv, ResolutionsAreTrue
<1> QED BY <1>1, Invariant, PTL

\* No approval moves a proposal without having passed both of its gates.
THEOREM ApprovalsGated == Spec => []ApprovalsAreGated
<1>1. IInv => FourEyesHeld
  BY DEF IInv, FourEyesPassed, FourEyesHeld
<1>2. IInv => SignOffsGate
  BY DEF IInv, SignOffsPassed, SignOffsGate
<1> QED BY <1>1, <1>2, Invariant, PTL DEF ApprovalsAreGated

\* Only a reviewer's own sign-off changes a decision made, and never to
\* undecided.
THEOREM DecisionsAreKept == Spec => DecisionsKept
<1> DEFINE Kept == \A p \in Proposals, u \in Users :
          decision[p][u] \in {"approved", "changes_requested"}
          /\ decision'[p][u] # decision[p][u]
          => /\ decision'[p][u] \in {"approved", "changes_requested"}
             /\ \E c \in Calls : /\ call[c].op = "sign_off"
                                 /\ call[c].user = u
                                 /\ At(c, "decide")
<1>1. IInv /\ [Next]_vars => [Kept]_vars
  <2> SUFFICES ASSUME IInv, Next, NEW p \in Proposals, NEW u \in Users,
                      decision[p][u] \in {"approved", "changes_requested"},
                      decision'[p][u] # decision[p][u]
               PROVE  /\ decision'[p][u] \in {"approved", "changes_requested"}
                      /\ \E c \in Calls : /\ call[c].op = "sign_off"
                                          /\ call[c].user = u
                                          /\ At(c, "decide")
    OBVIOUS
  <2>1. \E c \in Calls : AddReviewers(c) \/ RecordDecision(c)
    <3>1. \A c \in Calls : ~Start(c)
      BY DEF Start, StartQueue, StartRequestReview, StartSignOff, StartResolve,
             StartConfirm, reviews
    <3>2. ~Surroundings
      BY DEF Surroundings, CutOff, SetRole, SetFourEyes, EditPtv, reviews
    <3>3. \A c \in Calls : Step(c) => AddReviewers(c) \/ RecordDecision(c)
      BY DEF Step, Insert, Pick, CheckFourEyes, CheckReviewers, Recheck, ReadTarget,
             ResolveWriteAdapter, WritePtv, AuditSuccess, AuditFailure, MarkResolved,
             CheckPtv, MarkPublished, Record, reviews
    <3> QED BY <3>1, <3>2, <3>3 DEF Next
  <2>2. ASSUME NEW c \in Calls, AddReviewers(c) PROVE FALSE
    BY <2>2 DEF AddReviewers, IInv, TypeOK
  <2>3. ASSUME NEW c \in Calls, RecordDecision(c)
        PROVE  /\ decision'[p][u] \in {"approved", "changes_requested"}
               /\ call[c].op = "sign_off" /\ call[c].user = u /\ At(c, "decide")
    <3>1. call[c].op = "sign_off" /\ At(c, "decide") /\ call[c].proposal \in Proposals
      BY <2>3 DEF RecordDecision, IInv, OpAtStep, CallsKnown
    <3>2. PICK d \in {"approved", "changes_requested"} :
              decision' = [decision EXCEPT ![call[c].proposal][call[c].user] = d]
      BY <2>3 DEF RecordDecision, reviews
    <3>3. call[c].user = u /\ decision'[p][u] = d
      BY <3>1, <3>2 DEF IInv, TypeOK
    <3> QED BY <3>1, <3>3
  <2> QED BY <2>1, <2>2, <2>3
<1> QED BY <1>1, Invariant, PTL DEF Spec, DecisionsKept

\* The only ways a row changes.
RowInserted(p, u) ==
    /\ row[p].status = "absent"
    /\ row' = [row EXCEPT ![p] = PendingRow(u)]
RowMoved(p, from, to, u) ==
    /\ row[p].status = from
    /\ row' = [row EXCEPT ![p].status = to, ![p].resolver = u]

LEMMA RowStep ==
    ASSUME IInv, [Next]_vars
    PROVE  \/ UNCHANGED row
           \/ \E p \in Proposals, u \in Users : RowInserted(p, u)
           \/ \E p \in Proposals, u \in Users, s \in Resolutions :
                  RowMoved(p, "pending", s, u)
           \/ \E p \in Proposals : RowMoved(p, "approved", "applied", row[p].resolver)
<1> DEFINE Goal == \/ UNCHANGED row
                   \/ \E p \in Proposals, u \in Users : RowInserted(p, u)
                   \/ \E p \in Proposals, u \in Users, s \in Resolutions :
                          RowMoved(p, "pending", s, u)
                   \/ \E p \in Proposals :
                          RowMoved(p, "approved", "applied", row[p].resolver)
<1>1. ASSUME NEW c \in Calls, Start(c) PROVE UNCHANGED row
  BY <1>1 DEF Start, StartQueue, StartRequestReview, StartSignOff, StartResolve, StartConfirm
<1>2. CASE Surroundings
  BY <1>2 DEF Surroundings, CutOff, SetRole, SetFourEyes, EditPtv
<1>3. CASE UNCHANGED vars
  BY <1>3 DEF vars
<1>4. ASSUME NEW c \in Calls, Insert(c) PROVE Goal
  <2>1. call[c].user \in Users
    BY <1>4 DEF Insert, At, IInv, CallsKnown, OpAtStep
  <2> QED BY <1>4, <2>1 DEF Insert, RowInserted
<1>5. ASSUME NEW c \in Calls, MarkResolved(c) PROVE Goal
  <2>1. /\ call[c].proposal \in Proposals /\ call[c].user \in Users
        /\ Outcome[call[c].pc] \in Resolutions
    BY <1>5 DEF MarkResolved, Outcome, Resolutions, At, IInv, CallsKnown, OpAtStep,
                IsApproval, Unobjected, Reviewed
  <2> QED BY <1>5, <2>1 DEF MarkResolved, Transition, Moved, RowMoved
<1>6. ASSUME NEW c \in Calls, MarkPublished(c) PROVE Goal
  <2>1. call[c].proposal \in Proposals
    BY <1>6 DEF MarkPublished, At, IInv, CallsKnown, OpAtStep
  <2> QED BY <1>6, <2>1 DEF MarkPublished, Transition, Moved, RowMoved
<1>7. ASSUME NEW c \in Calls, Step(c), ~Insert(c), ~MarkResolved(c), ~MarkPublished(c)
      PROVE  UNCHANGED row
  BY <1>7 DEF Step, Pick, AddReviewers, RecordDecision, CheckFourEyes, CheckReviewers,
              Recheck, ReadTarget, ResolveWriteAdapter, WritePtv, AuditSuccess,
              AuditFailure, CheckPtv, Record
<1> QED BY <1>1, <1>2, <1>3, <1>4, <1>5, <1>6, <1>7 DEF Next

\* A proposal nobody has resolved names no resolver.
Unresolved ==
    \A p \in Proposals :
        row[p].status \in {"absent", "pending"} => row[p].resolver = None

LEMMA UnresolvedInvariant == Spec => []Unresolved
<1>1. Init => Unresolved
  BY DEF Init, Unresolved, AbsentRow, PendingRow
<1>2. IInv /\ Unresolved /\ [Next]_vars => Unresolved'
  <2> SUFFICES ASSUME IInv, Unresolved, [Next]_vars PROVE Unresolved'
    OBVIOUS
  <2>1. CASE UNCHANGED row
    BY <2>1 DEF Unresolved
  <2>2. ASSUME NEW p \in Proposals, NEW u \in Users, RowInserted(p, u)
        PROVE  Unresolved'
    BY <2>2 DEF RowInserted, PendingRow, Unresolved, IInv, TypeOK
  <2>3. ASSUME NEW p \in Proposals, NEW u, NEW s \in Resolutions, NEW from,
               RowMoved(p, from, s, u)
        PROVE  Unresolved'
    BY <2>3 DEF RowMoved, Unresolved, IInv, TypeOK, Row, Resolutions
  <2> QED BY <2>1, <2>2, <2>3, RowStep DEF Resolutions
<1> QED BY <1>1, <1>2, Invariant, PTL DEF Spec

\* The queue implements the proposal store's promise: a proposal leaves
\* pending once, in one user's name, and only an exported one moves again.
THEOREM ImplementsLifecycle == Spec => RefinesLifecycle
<1> DEFINE statusOf == [p \in Proposals |-> row[p].status]
           resolverOf == [p \in Proposals |-> row[p].resolver]
<1>1. Init => Lifecycle!Init
  BY DEF Init, Lifecycle!Init, AbsentRow, PendingRow
<1>2. IInv /\ Unresolved /\ [Next]_vars => [Lifecycle!Next]_(Lifecycle!lifecycleVars)
  <2> SUFFICES ASSUME IInv, Unresolved, [Next]_vars
               PROVE  Lifecycle!Next \/ UNCHANGED <<statusOf, resolverOf>>
    BY DEF Lifecycle!lifecycleVars
  <2>1. CASE UNCHANGED row
    BY <2>1
  <2>2. ASSUME NEW p \in Proposals, NEW u \in Users, RowInserted(p, u)
        PROVE  Lifecycle!Queue(p)
    <3>1. /\ row[p].status = "absent" /\ row[p].resolver = None
          /\ \A q \in Proposals \ {p} : row'[q] = row[q]
          /\ row'[p].status = "pending" /\ row'[p].resolver = None
      BY <2>2 DEF RowInserted, IInv, TypeOK, PendingRow, Unresolved
    <3> QED BY <3>1 DEF Lifecycle!Queue
  <2>3. ASSUME NEW p \in Proposals, NEW u \in Users, NEW s \in Resolutions,
               RowMoved(p, "pending", s, u)
        PROVE  Lifecycle!Resolve(p, u, s)
    <3>1. /\ row[p].status = "pending"
          /\ \A q \in Proposals \ {p} : row'[q] = row[q]
          /\ row'[p].status = s /\ row'[p].resolver = u
      BY <2>3 DEF RowMoved, IInv, TypeOK, Row
    <3> QED BY <3>1 DEF Lifecycle!Resolve
  <2>4. ASSUME NEW p \in Proposals, RowMoved(p, "approved", "applied", row[p].resolver)
        PROVE  Lifecycle!Publish(p)
    <3>1. /\ row[p].status = "approved"
          /\ \A q \in Proposals \ {p} : row'[q] = row[q]
          /\ row'[p].status = "applied" /\ row'[p].resolver = row[p].resolver
      BY <2>4 DEF RowMoved, IInv, TypeOK, Row
    <3> QED BY <3>1 DEF Lifecycle!Publish
  <2> QED BY <2>1, <2>2, <2>3, <2>4, RowStep
          DEF Lifecycle!Next, Lifecycle!Resolutions, Resolutions
<1> QED BY <1>1, <1>2, Invariant, UnresolvedInvariant, PTL
        DEF Spec, RefinesLifecycle, Lifecycle!Spec

=============================================================================
