-------------------------- MODULE GovernanceProofs --------------------------
(***************************************************************************)
(* Proofs about the workflows that decide on credit: two of them and the   *)
(* four together, with what ApplicationProofs proves of the other two.     *)
(*                                                                         *)
(* CreditReview, for any number of users and requests: a decision rests on *)
(* the newest assessment, which was submitted, and is not taken by the     *)
(* analyst, as long as no save has gone over a case that had changed.  The *)
(* conditional UPDATE compares a status and a revision.  That this says    *)
(* anything about the analyst, the assessments and the decisions is the    *)
(* invariant: until a save goes over a change, a revision is never used    *)
(* twice, so a request that holds the current one holds the current case,  *)
(* and what it read after the case is still the newest.                    *)
(*                                                                         *)
(* Committee, for any number of members, requests and votes: a decision    *)
(* has the votes of a quorum, and what a request tallied is what the votes *)
(* recommend until one of them is written.                                 *)
(***************************************************************************)
EXTENDS MCGovernance, ApplicationProofs, FiniteSetTheorems, SequenceTheorems, TLAPS

(* What a deciding request has read is what the case still says. *)
Current(r) ==
  reviews[r].seen.revision = case.revision =>
    /\ reviews[r].seen = case
    /\ reviews[r].pc = "ready" =>
         /\ reviews[r].version = Len(assessments)
         /\ reviews[r].previous = Len(decisions)
         /\ reviews[r].op = "decide" => assessments[Len(assessments)]

Held(r) ==
  reviews[r].pc # "idle" =>
    /\ reviews[r].seen.revision <= case.revision
    /\ Current(r)

(* A request that decides was allowed to by the case it loaded. *)
Allowed(r) ==
  reviews[r].pc # "idle" /\ reviews[r].op = "decide" =>
    /\ reviews[r].user \in Users
    /\ reviews[r].seen.status = "pending_approval"
    /\ reviews[r].seen.analyst # reviews[r].user
    /\ reviews[r].seen.reviewer \in {Nobody, reviews[r].user}

HeldInv    == ~overtaken => \A r \in ReviewRequests : Held(r)
AllowedInv == \A r \in ReviewRequests : Allowed(r)

ReviewInv == ReviewTypeOK /\ HeldInv /\ AllowedInv

-----------------------------------------------------------------------------
(* A move leads to a status. *)
LEMMA TargetsAreStatuses ==
  \A s \in ReviewStatuses : ReviewTransitions[s] \subseteq ReviewStatuses
BY DEF ReviewTransitions, ReviewStatuses

LEMMA NoReviewType == NoReview \in Review /\ NoReview.pc = "idle"
BY DEF NoReview, Review

(* How a commit of request r leaves the case and the tables. *)
Recorded(r) ==
  /\ reviews' = [reviews EXCEPT ![r] = NoReview]
  /\ commits' = commits + 1
  /\ case' \in CaseRow
  /\ overtaken' \in BOOLEAN /\ (overtaken => overtaken')
  /\ assessments' \in Seq(BOOLEAN) /\ decisions' \in Seq(DecisionRow)
  /\ \/ overtaken'
     \/ case'.revision > case.revision
     \/ case' = case /\ assessments' = assessments /\ Len(decisions') = Len(decisions)

(* Every commit is of this form. *)
LEMMA MoveRaises ==
  ASSUME ReviewTypeOK, NEW r \in ReviewRequests, reviews[r].pc # "idle",
         NEW target, MoveCase(reviews[r].seen, target)
  PROVE  /\ Unmoved(reviews[r].seen)
         /\ case' = [case EXCEPT !.status = target, !.revision = case.revision + 1]
         /\ case' \in CaseRow /\ case'.revision > case.revision
<1>1. case \in CaseRow /\ reviews[r].seen \in CaseRow
  BY DEF ReviewTypeOK
<1>2. target \in ReviewStatuses
  BY <1>1, TargetsAreStatuses DEF MoveCase, CaseRow
<1>3. case.revision = reviews[r].seen.revision /\ case.revision \in Nat
  BY <1>1 DEF MoveCase, Unmoved, CaseRow
<1>4. /\ Unmoved(reviews[r].seen)
      /\ case' = [case EXCEPT !.status = target, !.revision = case.revision + 1]
  BY <1>3 DEF MoveCase
<1>5. case' \in CaseRow
  <2>1. case' = [status |-> target, revision |-> case.revision + 1, cycle |-> case.cycle,
                 analyst |-> case.analyst, reviewer |-> case.reviewer]
    BY <1>1, <1>4 DEF CaseRow
  <2>2. /\ case.revision + 1 \in Nat /\ case.cycle \in Nat
        /\ case.analyst \in Users /\ case.reviewer \in Users \cup {Nobody}
    BY <1>1 DEF CaseRow
  <2> QED BY <1>2, <2>1, <2>2 DEF CaseRow
<1>6. case'.revision > case.revision
  BY <1>1, <1>3, <1>4 DEF CaseRow
<1> QED
  BY <1>4, <1>5, <1>6

Committing(r) ==
  \/ SubmitAssessment(r) \/ SaveAssessment(r) \/ SubmitForApproval(r) \/ Decide(r)
  \/ Assign(r) \/ Resume(r) \/ Reopen(r) \/ SettleCondition(r)

LEMMA CommitsRecord ==
  ASSUME ReviewInv, NEW r \in ReviewRequests, Committing(r)
  PROVE  Recorded(r)
<1> USE DEF ReviewInv
<1> DEFINE seen == reviews[r].seen
<1>1. /\ reviews[r].pc # "idle"
      /\ Written(r)
  BY DEF Committing, SubmitAssessment, SaveAssessment, SubmitForApproval, Decide,
         Assign, Resume, Reopen, SettleCondition, Ready
<1>2. /\ case \in CaseRow /\ seen \in CaseRow
      /\ case.revision \in Nat /\ seen.revision \in Nat /\ seen.cycle \in Nat
      /\ assessments \in Seq(BOOLEAN) /\ decisions \in Seq(DecisionRow)
      /\ overtaken \in BOOLEAN
  BY <1>1 DEF ReviewTypeOK, CaseRow
<1> HIDE DEF seen
<1>3. CASE SubmitAssessment(r)
  <2>1. case' = [case EXCEPT !.status = "in_review", !.revision = case.revision + 2]
    BY <1>3, <1>2 DEF SubmitAssessment, Unmoved, seen
  <2>2. case' \in CaseRow /\ case'.revision > case.revision
    <3>1. case' = [status |-> "in_review", revision |-> case.revision + 2,
                   cycle |-> case.cycle, analyst |-> case.analyst,
                   reviewer |-> case.reviewer]
      BY <1>2, <2>1 DEF CaseRow
    <3>2. /\ case.revision + 2 \in Nat /\ case.cycle \in Nat
          /\ case.analyst \in Users /\ case.reviewer \in Users \cup {Nobody}
          /\ case.revision + 2 > case.revision
      BY <1>2 DEF CaseRow
    <3>3. "in_review" \in ReviewStatuses
      BY DEF ReviewStatuses, ReviewTransitions
    <3> QED BY <3>1, <3>2, <3>3 DEF CaseRow
  <2>3. assessments' \in Seq(BOOLEAN) /\ UNCHANGED <<decisions, overtaken>>
    BY <1>3, <1>2 DEF SubmitAssessment
  <2> QED BY <1>1, <1>2, <2>2, <2>3 DEF Recorded, Written
<1>4. CASE SaveAssessment(r)
  <2>1. /\ case' = [case EXCEPT !.revision = seen.revision + 1]
        /\ overtaken' = (overtaken \/ ~Unmoved(seen))
        /\ UNCHANGED decisions
    BY <1>4 DEF SaveAssessment, seen
  <2>2. case' \in CaseRow /\ case'.revision = seen.revision + 1
    BY <2>1, <1>2 DEF CaseRow
  <2>3. assessments' \in Seq(BOOLEAN)
    <3>1. PICK submit \in IF seen.status = "in_review" THEN BOOLEAN ELSE {FALSE} :
            assessments' = Append(assessments, submit)
      BY <1>4 DEF SaveAssessment, seen
    <3>2. submit \in BOOLEAN
      BY <3>1
    <3> QED BY <1>2, <3>1, <3>2
  <2>4. overtaken' \/ case'.revision > case.revision
    <3>1. CASE Unmoved(seen)
      BY <3>1, <2>2, <1>2 DEF Unmoved
    <3>2. CASE ~Unmoved(seen)
      BY <3>2, <2>1
    <3> QED BY <3>1, <3>2
  <2> QED BY <1>1, <1>2, <2>1, <2>2, <2>3, <2>4 DEF Recorded, Written
<1>5. CASE SubmitForApproval(r)
  BY <1>5, <1>1, <1>2, MoveRaises DEF SubmitForApproval, Recorded, Written
<1>6. CASE Decide(r)
  <2>1. case' \in CaseRow /\ case'.revision > case.revision
    BY <1>6, <1>1, MoveRaises DEF Decide
  <2>2. decisions' \in Seq(DecisionRow)
    <3>1. PICK target \in ReviewTransitions["pending_approval"], condition \in {"none", "open"} :
            decisions' = Append(decisions,
              [assessment |-> reviews[r].version, previous |-> reviews[r].previous,
               cycle |-> seen.cycle, actor |-> reviews[r].user,
               target |-> target, condition |-> condition])
      BY <1>6 DEF Decide, seen
    <3>2. target \in ReviewStatuses
      BY <3>1, TargetsAreStatuses DEF ReviewStatuses, ReviewTransitions
    <3>3. /\ reviews[r].version \in Nat /\ reviews[r].previous \in Nat
          /\ reviews[r].user \in Users
      BY <1>6, <1>1 DEF ReviewTypeOK, Review, AllowedInv, Allowed, Decide, Ready
    <3> QED BY <3>1, <3>2, <3>3, <1>2 DEF DecisionRow
  <2> QED BY <1>1, <1>2, <1>6, <2>1, <2>2 DEF Decide, Recorded, Written
<1>7. CASE Assign(r)
  <2>1. PICK analyst \in Users, reviewer \in Users \cup {Nobody} :
          case' = [case EXCEPT !.analyst = analyst, !.reviewer = reviewer,
                               !.revision = case.revision + 1]
    BY <1>7, <1>2 DEF Assign, Unmoved, seen
  <2>2. case' = [status |-> case.status, revision |-> case.revision + 1,
                 cycle |-> case.cycle, analyst |-> analyst, reviewer |-> reviewer]
    BY <1>2, <2>1 DEF CaseRow
  <2>3. /\ case.status \in ReviewStatuses /\ case.cycle \in Nat
        /\ case.revision + 1 \in Nat /\ case.revision + 1 > case.revision
    BY <1>2 DEF CaseRow
  <2>4. case' \in CaseRow /\ case'.revision > case.revision
    BY <2>1, <2>2, <2>3 DEF CaseRow
  <2> QED BY <1>1, <1>2, <1>7, <2>4 DEF Assign, Recorded, Written
<1>8. CASE Resume(r)
  BY <1>8, <1>1, <1>2, MoveRaises DEF Resume, Recorded, Written
<1>9. CASE Reopen(r)
  <2>1. case' = [case EXCEPT !.status = "in_review", !.revision = case.revision + 1,
                             !.cycle = seen.cycle + 1]
    BY <1>9, <1>2 DEF Reopen, Unmoved, seen
  <2>2. case' = [status |-> "in_review", revision |-> case.revision + 1,
                 cycle |-> seen.cycle + 1, analyst |-> case.analyst,
                 reviewer |-> case.reviewer]
    BY <1>2, <2>1 DEF CaseRow
  <2>3. /\ case.analyst \in Users /\ case.reviewer \in Users \cup {Nobody}
        /\ seen.cycle + 1 \in Nat
        /\ case.revision + 1 \in Nat /\ case.revision + 1 > case.revision
    BY <1>2 DEF CaseRow
  <2>4. "in_review" \in ReviewStatuses
    BY DEF ReviewStatuses, ReviewTransitions
  <2>5. case' \in CaseRow /\ case'.revision > case.revision
    BY <2>2, <2>3, <2>4 DEF CaseRow
  <2> QED BY <1>1, <1>2, <1>9, <2>5 DEF Reopen, Recorded, Written
<1>10. CASE SettleCondition(r)
  <2>1. PICK d \in DOMAIN decisions, outcome \in {"completed", "waived"} :
          decisions' = [decisions EXCEPT ![d].condition = outcome]
    BY <1>10 DEF SettleCondition
  <2>2. [decisions[d] EXCEPT !.condition = outcome] \in DecisionRow
    <3> DEFINE old == decisions[d]
    <3>1. old \in DecisionRow
      BY <1>2, <2>1
    <3> HIDE DEF old
    <3>2. [old EXCEPT !.condition = outcome] =
            [assessment |-> old.assessment, previous |-> old.previous,
             cycle |-> old.cycle, actor |-> old.actor, target |-> old.target,
             condition |-> outcome]
      BY <3>1 DEF DecisionRow
    <3>3. [old EXCEPT !.condition = outcome] \in DecisionRow
      BY <3>1, <3>2, <2>1 DEF DecisionRow
    <3> QED BY <3>3 DEF old
  <2>3. decisions' \in Seq(DecisionRow) /\ Len(decisions') = Len(decisions)
    BY <1>2, <2>1, <2>2
  <2> QED BY <1>1, <1>2, <1>10, <2>3 DEF SettleCondition, Recorded, Written
<1> QED
  BY <1>3, <1>4, <1>5, <1>6, <1>7, <1>8, <1>9, <1>10 DEF Committing

(* A commit keeps the invariant: the revision has gone up, or nothing that *)
(* anybody has read has changed.                                           *)
LEMMA RecordedKeeps ==
  ASSUME ReviewInv, NEW r \in ReviewRequests, Recorded(r)
  PROVE  ReviewInv'
<1> USE DEF ReviewInv
<1>1. /\ reviews'[r] = NoReview
      /\ \A q \in ReviewRequests : q # r => reviews'[q] = reviews[q]
      /\ reviews' \in [ReviewRequests -> Review]
  BY NoReviewType DEF Recorded, ReviewTypeOK
<1>2. ReviewTypeOK'
  BY <1>1, NoReviewType DEF Recorded, ReviewTypeOK
<1>3. AllowedInv'
  BY <1>1, NoReviewType DEF AllowedInv, Allowed
<1>4. HeldInv'
  <2> SUFFICES ASSUME ~overtaken', NEW q \in ReviewRequests, q # r,
                      reviews[q].pc # "idle"
               PROVE  Held(q)'
    BY <1>1, NoReviewType DEF HeldInv, Held
  <2>1. reviews'[q] = reviews[q] /\ Held(q) /\ reviews[q].seen \in CaseRow
    BY <1>1 DEF HeldInv, Recorded, ReviewTypeOK
  <2>2. /\ reviews[q].seen.revision <= case.revision
        /\ reviews[q].seen.revision \in Nat /\ case.revision \in Nat /\ case'.revision \in Nat
    BY <2>1, <1>2 DEF Held, CaseRow, ReviewTypeOK
  <2>3. CASE case'.revision > case.revision
    <3>1. reviews[q].seen.revision <= case'.revision /\ reviews[q].seen.revision # case'.revision
      BY <2>2, <2>3
    <3> QED BY <2>1, <3>1 DEF Held, Current
  <2>4. CASE case' = case /\ assessments' = assessments /\ Len(decisions') = Len(decisions)
    BY <2>1, <2>4 DEF Held, Current
  <2> QED BY <2>3, <2>4 DEF Recorded
<1> QED BY <1>2, <1>3, <1>4

-----------------------------------------------------------------------------
(* Reading: a load takes the case as it is, and the newest rows are read   *)
(* while the case, if it has not changed, is the one that was loaded.      *)
LEMMA LoadKeeps ==
  ASSUME ReviewInv, NEW r \in ReviewRequests, NEW u \in Users,
         NEW op \in {"save", "submit", "decide", "assign", "resume", "reopen", "condition"},
         LoadCase(r, op, u)
  PROVE  ReviewInv'
<1> USE DEF ReviewInv
<1> DEFINE row == [NoReview EXCEPT !.pc = "loaded", !.op = op, !.seen = case,
                                   !.user = IF op = "decide" THEN u ELSE Nobody]
<1>1. case \in CaseRow /\ case.revision \in Nat
  BY DEF ReviewTypeOK, CaseRow
<1>2. /\ row \in Review /\ row.pc = "loaded" /\ row.op = op /\ row.seen = case
      /\ op = "decide" => row.user = u
  BY <1>1 DEF NoReview, Review
<1> HIDE DEF row
<1>3. /\ reviews'[r] = row
      /\ \A q \in ReviewRequests : q # r => reviews'[q] = reviews[q]
      /\ reviews' \in [ReviewRequests -> Review]
      /\ UNCHANGED <<case, assessments, decisions, overtaken, commits>>
  BY <1>2 DEF LoadCase, row, ReviewTypeOK
<1>4. ReviewTypeOK'
  BY <1>1, <1>2, <1>3 DEF ReviewTypeOK
<1>5. AllowedInv'
  BY <1>2, <1>3 DEF LoadCase, Permitted, AllowedInv, Allowed
<1>6. HeldInv'
  BY <1>1, <1>2, <1>3 DEF HeldInv, Held, Current
<1> QED BY <1>4, <1>5, <1>6

LEMMA ReadKeeps ==
  ASSUME ReviewInv, NEW r \in ReviewRequests, ReadLatest(r)
  PROVE  ReviewInv'
<1> USE DEF ReviewInv
<1> DEFINE row == [reviews[r] EXCEPT !.pc = "ready", !.version = Len(assessments),
                                     !.previous = Len(decisions)]
<1>1. /\ reviews[r] \in Review /\ reviews[r].pc = "loaded"
      /\ Len(assessments) \in Nat /\ Len(decisions) \in Nat
  BY DEF ReviewTypeOK, ReadLatest
<1>2. /\ row \in Review /\ row.pc = "ready" /\ row.op = reviews[r].op
      /\ row.seen = reviews[r].seen /\ row.user = reviews[r].user
      /\ row.version = Len(assessments) /\ row.previous = Len(decisions)
  BY <1>1 DEF Review
<1>3. reviews' = [reviews EXCEPT ![r] = row]
  BY DEF ReadLatest, ReviewTypeOK
<1> HIDE DEF row
<1>4. /\ reviews'[r] = row
      /\ \A q \in ReviewRequests : q # r => reviews'[q] = reviews[q]
      /\ reviews' \in [ReviewRequests -> Review]
      /\ UNCHANGED <<case, assessments, decisions, overtaken, commits>>
  BY <1>2, <1>3 DEF ReadLatest, ReviewTypeOK
<1>5. ReviewTypeOK'
  BY <1>1, <1>2, <1>4 DEF ReviewTypeOK
<1>6. AllowedInv'
  BY <1>1, <1>2, <1>4 DEF AllowedInv, Allowed
<1>7. HeldInv'
  <2> SUFFICES ASSUME ~overtaken, NEW q \in ReviewRequests PROVE Held(q)'
    BY <1>4 DEF HeldInv
  <2>1. Held(q) /\ Held(r)
    BY DEF HeldInv
  <2>2. CASE q # r
    BY <1>4, <2>1, <2>2 DEF Held, Current
  <2>3. CASE q = r
    BY <1>1, <1>2, <1>4, <2>1, <2>3 DEF Held, Current, ReadLatest
  <2> QED BY <2>2, <2>3
<1> QED BY <1>5, <1>6, <1>7

LEMMA AbandonKeeps ==
  ASSUME ReviewInv, NEW r \in ReviewRequests, AbandonReview(r)
  PROVE  ReviewInv'
<1> USE DEF ReviewInv
<1>1. /\ reviews'[r] = NoReview
      /\ \A q \in ReviewRequests : q # r => reviews'[q] = reviews[q]
      /\ reviews' \in [ReviewRequests -> Review]
      /\ UNCHANGED <<case, assessments, decisions, overtaken, commits>>
  BY NoReviewType DEF AbandonReview, ReviewTypeOK
<1>2. ReviewTypeOK'
  BY <1>1, NoReviewType DEF ReviewTypeOK
<1>3. AllowedInv'
  BY <1>1, NoReviewType DEF AllowedInv, Allowed
<1>4. HeldInv'
  BY <1>1, NoReviewType DEF HeldInv, Held, Current
<1> QED BY <1>2, <1>3, <1>4

(* ReviewInv is inductive. *)
LEMMA ReviewInvInit == ReviewInit => ReviewInv
<1> SUFFICES ASSUME ReviewInit PROVE ReviewInv
  OBVIOUS
<1>1. "draft" \in ReviewStatuses
  BY DEF ReviewStatuses, ReviewTransitions
<1>2. case \in CaseRow
  BY <1>1 DEF ReviewInit, CaseRow
<1>3. ReviewTypeOK
  <2>1. reviews \in [ReviewRequests -> Review]
    BY NoReviewType DEF ReviewInit
  <2>2. assessments \in Seq(BOOLEAN) /\ decisions \in Seq(DecisionRow)
    BY DEF ReviewInit
  <2> QED BY <1>2, <2>1, <2>2, NoReviewType DEF ReviewInit, ReviewTypeOK
<1>4. HeldInv /\ AllowedInv
  BY NoReviewType DEF ReviewInit, HeldInv, Held, AllowedInv, Allowed
<1> QED BY <1>3, <1>4 DEF ReviewInv

LEMMA ReviewInvNext == ReviewInv /\ [ReviewNext]_reviewVars => ReviewInv'
<1> SUFFICES ASSUME ReviewInv, [ReviewNext]_reviewVars PROVE ReviewInv'
  OBVIOUS
<1>1. CASE UNCHANGED reviewVars
  BY <1>1 DEF ReviewInv, ReviewTypeOK, HeldInv, Held, Current, AllowedInv, Allowed,
              reviewVars
<1>2. ASSUME NEW r \in ReviewRequests, ReviewStep(r) PROVE ReviewInv'
  <2>1. CASE Committing(r)
    BY <2>1, CommitsRecord, RecordedKeeps
  <2> QED BY <1>2, <2>1, LoadKeeps, ReadKeeps, AbandonKeeps DEF ReviewStep, Committing
<1> QED BY <1>1, <1>2 DEF ReviewNext

(* The rows of a case and what its requests hold keep their types. *)
THEOREM ReviewInvariant == ReviewSpec => []ReviewInv
BY ReviewInvInit, ReviewInvNext, PTL DEF ReviewSpec

THEOREM ReviewTyped == ReviewSpec => []ReviewTypeOK
<1>1. ReviewInv => ReviewTypeOK
  BY DEF ReviewInv
<1> QED BY <1>1, ReviewInvariant, PTL

-----------------------------------------------------------------------------
(* Only Decide adds a decision, and it decides the case as it is. *)
LEMMA OnlyDecides ==
  ASSUME ReviewInv, [ReviewNext]_reviewVars, Decided
  PROVE  \E r \in ReviewRequests : Decide(r)
<1>1. Len(decisions) \in Nat
  BY DEF ReviewInv, ReviewTypeOK
<1>2. ~UNCHANGED decisions
  BY <1>1 DEF Decided
<1>3. PICK r \in ReviewRequests : ReviewStep(r)
  BY <1>2 DEF ReviewNext, reviewVars
<1>4. ~SettleCondition(r)
  <2> SUFFICES ASSUME SettleCondition(r) PROVE FALSE
    OBVIOUS
  <2>1. PICK d \in DOMAIN decisions, outcome \in {"completed", "waived"} :
          decisions' = [decisions EXCEPT ![d].condition = outcome]
    BY DEF SettleCondition
  <2>2. Len(decisions') = Len(decisions)
    BY <2>1 DEF ReviewInv, ReviewTypeOK
  <2> QED BY <1>1, <2>2 DEF Decided
<1> QED
  BY <1>2, <1>3, <1>4 DEF ReviewStep, LoadCase, ReadLatest, SubmitAssessment,
     SaveAssessment, SubmitForApproval, Assign, Resume, Reopen, AbandonReview

LEMMA DecidesWhatIs ==
  ASSUME ReviewInv, [ReviewNext]_reviewVars, Decided, ~overtaken
  PROVE  /\ Latest.previous = Len(decisions)
         /\ Latest.assessment = Len(assessments)
         /\ assessments[Latest.assessment]
         /\ Latest.actor # case.analyst
         /\ case.reviewer \in {Nobody, Latest.actor}
<1> USE DEF ReviewInv
<1>1. PICK r \in ReviewRequests : Decide(r)
  BY OnlyDecides
<1>2. reviews[r].pc = "ready" /\ reviews[r].op = "decide" /\ Unmoved(reviews[r].seen)
  BY <1>1 DEF Decide, Ready, MoveCase
<1>3. /\ reviews[r].seen = case
      /\ reviews[r].version = Len(assessments)
      /\ reviews[r].previous = Len(decisions)
      /\ assessments[Len(assessments)]
  BY <1>2 DEF HeldInv, Held, Current, Unmoved
<1>4. reviews[r].user # case.analyst /\ case.reviewer \in {Nobody, reviews[r].user}
  BY <1>2, <1>3 DEF AllowedInv, Allowed
<1>5. PICK new : /\ decisions' = Append(decisions, new)
                 /\ new.assessment = reviews[r].version
                 /\ new.previous = reviews[r].previous
                 /\ new.actor = reviews[r].user
  BY <1>1 DEF Decide
<1>6. Latest = new
  BY <1>5 DEF Latest, ReviewTypeOK
<1> QED BY <1>3, <1>4, <1>5, <1>6

(* A decision rests on the newest assessment, which was submitted, and     *)
(* follows the newest decision, however many requests work on the case.    *)
THEOREM Ordered == ReviewSpec => DecisionsInOrder
<1>1. ReviewInv /\ [ReviewNext]_reviewVars =>
        [Decided /\ ~overtaken =>
           /\ Latest.previous = Len(decisions)
           /\ Latest.assessment = Len(assessments)
           /\ assessments[Latest.assessment]]_reviewVars
  BY DecidesWhatIs
<1> QED BY <1>1, ReviewInvariant, PTL DEF ReviewSpec, DecisionsInOrder

(* The analyst of a case does not decide it, and neither does anybody else *)
(* than its reviewer when it has one.                                      *)
THEOREM Separated == ReviewSpec => DutiesSeparated
<1>1. ReviewInv /\ [ReviewNext]_reviewVars =>
        [Decided /\ ~overtaken =>
           Latest.actor # case.analyst /\ case.reviewer \in {Nobody, Latest.actor}]_reviewVars
  BY DecidesWhatIs
<1> QED BY <1>1, ReviewInvariant, PTL DEF ReviewSpec, DutiesSeparated

-----------------------------------------------------------------------------
(* The committee: a member has one vote. *)
OneVoteEach ==
  \A v, w \in DOMAIN votes : votes[v].member = votes[w].member => v = w

(* A request that decides has found a quorum, and what it found holds until *)
(* a vote is written.                                                       *)
Deciding(c) ==
  callers[c].pc = "decide" =>
    /\ callers[c].decision \in Decisions
    /\ Len(votes) >= Quorum
    /\ callers[c].tallied => callers[c].decision = Recommendation(votes)

DecidedInv ==
  item # PendingItem =>
    /\ Len(votes) >= Quorum
    /\ ~collided /\ ~recast =>
         /\ item.decision = Recommendation(votes)
         /\ item.status = "deferred" <=> item.decision = "defer"

DecidingInv == \A c \in CommitteeCalls : Deciding(c)

CommitteeInv == CommitteeTypeOK /\ OneVoteEach /\ DecidingInv /\ DecidedInv

-----------------------------------------------------------------------------
LEMMA RecommendationIsDecision ==
  \A ballots : Recommendation(ballots) \in Decisions
BY DEF Recommendation, Decisions

LEMMA NoCallerType == NoCaller \in Caller /\ NoCaller.pc = "idle"
BY DEF NoCaller, Caller, MeetingStatuses, Ballot, NoVote, Item, PendingItem

(* The fields of a request. *)
LEMMA CallerFields ==
  ASSUME NEW k \in Caller
  PROVE  /\ k.pc \in {"idle", "open", "close", "vote", "insert", "update", "item", "decide"}
         /\ k.status \in MeetingStatuses /\ k.row \in Nat /\ k.vote \in Ballot
         /\ k.item \in Item /\ k.decision \in Decisions \cup {"none"}
         /\ k.tallied \in BOOLEAN
BY DEF Caller

(* A request that does not decide, and writes nothing but its own record    *)
(* and the meeting, leaves the rest as it was.                              *)
LEMMA QuietKeeps ==
  ASSUME CommitteeInv, NEW c \in CommitteeCalls, NEW k \in Caller,
         callers' = [callers EXCEPT ![c] = k],
         k.pc # "decide",
         k.pc = "update" => k.row \in DOMAIN votes /\ k.vote \in Vote,
         meeting' \in MeetingStatuses,
         UNCHANGED <<votes, item, recast, collided>>
  PROVE  CommitteeInv'
<1>1. CommitteeTypeOK'
  BY DEF CommitteeInv, CommitteeTypeOK
<1>2. OneVoteEach'
  BY DEF CommitteeInv, OneVoteEach
<1>3. DecidingInv'
  BY DEF CommitteeInv, DecidingInv, Deciding, CommitteeTypeOK
<1>4. DecidedInv'
  BY DEF CommitteeInv, DecidedInv
<1> QED BY <1>1, <1>2, <1>3, <1>4 DEF CommitteeInv

LEMMA LoadMeetingKeeps ==
  ASSUME CommitteeInv, NEW c \in CommitteeCalls, NEW op \in {"open", "close"},
         LoadMeeting(c, op)
  PROVE  CommitteeInv'
<1> DEFINE k == [NoCaller EXCEPT !.pc = op, !.status = meeting]
<1>1. k \in Caller /\ k.pc = op
  BY NoCallerType DEF CommitteeInv, CommitteeTypeOK, Caller, NoCaller
<1>2. callers' = [callers EXCEPT ![c] = k] /\ UNCHANGED <<meeting, votes, item, recast, collided>>
  BY DEF LoadMeeting
<1> HIDE DEF k
<1>3. meeting' \in MeetingStatuses
  BY <1>2 DEF CommitteeInv, CommitteeTypeOK
<1> QED BY <1>1, <1>2, <1>3, QuietKeeps

LEMMA MeetingKeeps ==
  ASSUME CommitteeInv, NEW c \in CommitteeCalls, OpenMeeting(c) \/ CloseMeeting(c)
  PROVE  CommitteeInv'
<1>1. meeting' \in MeetingStatuses
  BY DEF OpenMeeting, CloseMeeting, Changed, CommitteeInv, CommitteeTypeOK, MeetingStatuses
<1>2. callers' = [callers EXCEPT ![c] = NoCaller] /\ UNCHANGED <<votes, item, recast, collided>>
  BY DEF OpenMeeting, CloseMeeting, Return
<1> QED BY <1>1, <1>2, NoCallerType, QuietKeeps

LEMMA LeaveKeeps ==
  ASSUME CommitteeInv, NEW c \in CommitteeCalls, LeaveCommittee(c)
  PROVE  CommitteeInv'
<1>1. meeting' \in MeetingStatuses
  BY DEF LeaveCommittee, CommitteeInv, CommitteeTypeOK
<1>2. callers' = [callers EXCEPT ![c] = NoCaller] /\ UNCHANGED <<votes, item, recast, collided>>
  BY DEF LeaveCommittee, Return
<1> QED BY <1>1, <1>2, NoCallerType, QuietKeeps

LEMMA LoadForVoteKeeps ==
  ASSUME CommitteeInv, NEW c \in CommitteeCalls, NEW member \in Members,
         LoadForVote(c, member)
  PROVE  CommitteeInv'
<1> DEFINE k == [NoCaller EXCEPT !.pc = "vote", !.vote.member = member]
<1>1. k \in Caller /\ k.pc = "vote"
  <2>1. NoCaller.vote \in Ballot
    BY NoCallerType, CallerFields
  <2>2. [NoCaller.vote EXCEPT !.member = member] \in Ballot
    BY <2>1 DEF Ballot
  <2> QED BY <2>2, NoCallerType DEF Caller, NoCaller
<1>2. callers' = [callers EXCEPT ![c] = k] /\ UNCHANGED <<meeting, votes, item, recast, collided>>
  BY DEF LoadForVote
<1> HIDE DEF k
<1>3. meeting' \in MeetingStatuses
  BY <1>2 DEF CommitteeInv, CommitteeTypeOK
<1> QED BY <1>1, <1>2, <1>3, QuietKeeps

LEMMA FindVoteKeeps ==
  ASSUME CommitteeInv, NEW c \in CommitteeCalls, FindVote(c)
  PROVE  CommitteeInv'
<1>1. meeting' \in MeetingStatuses /\ UNCHANGED <<votes, item, recast, collided>>
  BY DEF FindVote, CommitteeInv, CommitteeTypeOK
<1>2. callers[c] \in Caller
  BY DEF CommitteeInv, CommitteeTypeOK
<1>3. CASE callers' = [callers EXCEPT ![c].pc = "insert"]
  <2> DEFINE k == [callers[c] EXCEPT !.pc = "insert"]
  <2>1. k \in Caller /\ k.pc = "insert"
    BY <1>2 DEF Caller
  <2>2. callers' = [callers EXCEPT ![c] = k]
    BY <1>3
  <2> HIDE DEF k
  <2> QED BY <1>1, <2>1, <2>2, QuietKeeps
<1>4. ASSUME NEW v \in VotesOf(callers[c].vote.member),
             callers' = [callers EXCEPT ![c].pc = "update", ![c].row = v, ![c].vote = votes[v]]
      PROVE  CommitteeInv'
  <2> DEFINE k == [callers[c] EXCEPT !.pc = "update", !.row = v, !.vote = votes[v]]
  <2>1. v \in DOMAIN votes /\ v \in Nat /\ votes[v] \in Vote
    BY LenProperties DEF VotesOf, CommitteeInv, CommitteeTypeOK
  <2>2. votes[v] \in Ballot
    BY <2>1, WeightsAssumption DEF Vote, Ballot
  <2>3. k \in Caller /\ k.pc = "update" /\ k.row = v /\ k.vote = votes[v]
    BY <1>2, <2>1, <2>2 DEF Caller
  <2>4. callers' = [callers EXCEPT ![c] = k]
    BY <1>4
  <2> HIDE DEF k
  <2> QED BY <1>1, <2>1, <2>3, <2>4, QuietKeeps
<1> QED BY <1>3, <1>4 DEF FindVote

LEMMA LoadItemKeeps ==
  ASSUME CommitteeInv, NEW c \in CommitteeCalls, LoadItem(c)
  PROVE  CommitteeInv'
<1> DEFINE k == [NoCaller EXCEPT !.pc = "item", !.item = item]
<1>1. k \in Caller /\ k.pc = "item"
  BY NoCallerType DEF CommitteeInv, CommitteeTypeOK, Caller, NoCaller
<1>2. callers' = [callers EXCEPT ![c] = k] /\ UNCHANGED <<meeting, votes, item, recast, collided>>
  BY DEF LoadItem
<1> HIDE DEF k
<1>3. meeting' \in MeetingStatuses
  BY <1>2 DEF CommitteeInv, CommitteeTypeOK
<1> QED BY <1>1, <1>2, <1>3, QuietKeeps

-----------------------------------------------------------------------------
(* A vote that is written: no decision that was tallied before it counts.  *)
LEMMA RevoteKeeps ==
  ASSUME CommitteeInv, NEW c \in CommitteeCalls, Revote(c),
         votes' \in Seq(Vote), Len(votes') >= Len(votes), OneVoteEach',
         UNCHANGED <<meeting, item, collided>>
  PROVE  CommitteeInv'
<1>1. /\ callers \in [CommitteeCalls -> Caller]
      /\ callers' = [d \in CommitteeCalls |->
           IF d = c THEN NoCaller ELSE [callers[d] EXCEPT !.tallied = FALSE]]
      /\ recast' = TRUE
  BY DEF Revote, CommitteeInv, CommitteeTypeOK
<1>2. Len(votes) \in Nat /\ Len(votes') \in Nat
      /\ DOMAIN votes = 1 .. Len(votes) /\ DOMAIN votes' = 1 .. Len(votes')
  BY LenProperties DEF CommitteeInv, CommitteeTypeOK
<1>3. ASSUME NEW d \in CommitteeCalls
      PROVE  /\ callers'[d] \in Caller
             /\ callers'[d].pc = "update" =>
                  callers'[d].row \in DOMAIN votes' /\ callers'[d].vote \in Vote
             /\ Deciding(d)'
  <2>1. CASE d = c
    BY <1>1, <2>1, NoCallerType DEF Deciding
  <2>2. CASE d # c
    <3>1. callers'[d] = [callers[d] EXCEPT !.tallied = FALSE] /\ callers[d] \in Caller
      BY <1>1, <2>2
    <3>2. /\ callers'[d] \in Caller /\ ~callers'[d].tallied
          /\ callers'[d].pc = callers[d].pc /\ callers'[d].row = callers[d].row
          /\ callers'[d].vote = callers[d].vote
          /\ callers'[d].decision = callers[d].decision
      BY <3>1 DEF Caller
    <3>3. callers[d].pc = "update" => callers[d].row \in DOMAIN votes' /\ callers[d].vote \in Vote
      BY <1>2 DEF CommitteeInv, CommitteeTypeOK
    <3>4. Deciding(d)
      BY DEF CommitteeInv, DecidingInv
    <3> QED BY <1>2, <3>2, <3>3, <3>4, QuorumAssumption DEF Deciding
  <2> QED BY <2>1, <2>2
<1>4. callers' \in [CommitteeCalls -> Caller]
  BY <1>1, <1>3
<1>5. CommitteeTypeOK'
  BY <1>1, <1>3, <1>4 DEF CommitteeInv, CommitteeTypeOK
<1>6. DecidingInv'
  BY <1>3 DEF DecidingInv
<1>7. DecidedInv'
  BY <1>1, <1>2, QuorumAssumption DEF CommitteeInv, DecidedInv
<1> QED BY <1>5, <1>6, <1>7 DEF CommitteeInv

LEMMA InsertVoteKeeps ==
  ASSUME CommitteeInv, NEW c \in CommitteeCalls, InsertVote(c)
  PROVE  CommitteeInv'
<1>1. PICK vote \in Vote : /\ vote.member = callers[c].vote.member
                           /\ votes' = Append(votes, vote)
  BY DEF InsertVote
<1>2. votes \in Seq(Vote) /\ OneVoteEach
  BY DEF CommitteeInv, CommitteeTypeOK
<1>3. /\ votes' \in Seq(Vote) /\ Len(votes') = Len(votes) + 1 /\ Len(votes) \in Nat
      /\ \A v \in 1 .. Len(votes) : votes'[v] = votes[v]
      /\ votes'[Len(votes) + 1] = vote
      /\ DOMAIN votes = 1 .. Len(votes) /\ DOMAIN votes' = 1 .. Len(votes) + 1
  BY <1>1, <1>2
<1>4. \A v \in 1 .. Len(votes) : votes[v].member # vote.member
  BY <1>1, <1>3 DEF InsertVote, VotesOf
<1>5. OneVoteEach'
  BY <1>2, <1>3, <1>4 DEF OneVoteEach
<1>6. Len(votes') >= Len(votes) /\ Revote(c) /\ UNCHANGED <<meeting, item, collided>>
  BY <1>3 DEF InsertVote
<1> QED BY <1>3, <1>5, <1>6, RevoteKeeps

LEMMA UpdateVoteKeeps ==
  ASSUME CommitteeInv, NEW c \in CommitteeCalls, UpdateVote(c)
  PROVE  CommitteeInv'
<1> DEFINE seen == callers[c].vote
           row  == callers[c].row
           e(kind, weight) ==
             [votes[row] EXCEPT !.kind = Changed(seen.kind, kind, votes[row].kind),
                                !.weight = Changed(seen.weight, weight, votes[row].weight)]
<1>1. PICK kind \in VoteKinds, weight \in Weights : votes' = [votes EXCEPT ![row] = e(kind, weight)]
  BY DEF UpdateVote
<1>2. votes \in Seq(Vote) /\ OneVoteEach
  BY DEF CommitteeInv, CommitteeTypeOK
<1>3. Len(votes) \in Nat /\ DOMAIN votes = 1 .. Len(votes) /\ votes \in [1 .. Len(votes) -> Vote]
  BY <1>2, LenProperties
<1>4. row \in 1 .. Len(votes)
  BY <1>3 DEF UpdateVote, Is, CommitteeInv, CommitteeTypeOK
<1>5. e(kind, weight) \in Vote /\ e(kind, weight).member = votes[row].member
  <2>1. votes[row] \in Vote
    BY <1>3, <1>4
  <2>2. Changed(seen.kind, kind, votes[row].kind) \in VoteKinds
    BY <2>1 DEF Vote, Changed
  <2>3. Changed(seen.weight, weight, votes[row].weight) \in Weights
    BY <2>1 DEF Vote, Changed
  <2> HIDE DEF seen
  <2> QED BY <2>1, <2>2, <2>3 DEF Vote
<1> HIDE DEF e
<1>6. /\ votes' \in Seq(Vote) /\ Len(votes') = Len(votes)
      /\ \A v \in 1 .. Len(votes) : votes'[v] = IF v = row THEN e(kind, weight) ELSE votes[v]
  BY <1>1, <1>2, <1>4, <1>5, ExceptSeq
<1>7. DOMAIN votes' = 1 .. Len(votes)
  BY <1>6, LenProperties
<1>8. \A v \in 1 .. Len(votes) : votes'[v].member = votes[v].member
  BY <1>5, <1>6
<1>9. OneVoteEach'
  BY <1>2, <1>3, <1>7, <1>8 DEF OneVoteEach
<1>10. Len(votes') >= Len(votes) /\ Revote(c) /\ UNCHANGED <<meeting, item, collided>>
  BY <1>3, <1>6 DEF UpdateVote
<1> QED BY <1>6, <1>9, <1>10, RevoteKeeps

-----------------------------------------------------------------------------
LEMMA TallyKeeps ==
  ASSUME CommitteeInv, NEW c \in CommitteeCalls, Tally(c)
  PROVE  CommitteeInv'
<1> DEFINE k == [callers[c] EXCEPT !.pc = "decide", !.decision = Recommendation(votes),
                                   !.tallied = TRUE]
<1>1. callers[c] \in Caller /\ Recommendation(votes) \in Decisions
  BY RecommendationIsDecision DEF CommitteeInv, CommitteeTypeOK
<1>2. k \in Caller /\ k.pc = "decide" /\ k.decision = Recommendation(votes)
  BY <1>1 DEF Caller
<1>3. callers' = [callers EXCEPT ![c] = k] /\ UNCHANGED <<meeting, votes, item, recast, collided>>
  BY DEF Tally
<1>4. Len(votes) >= Quorum
  BY DEF Tally, QuorumMet
<1> HIDE DEF k
<1>5. CommitteeTypeOK' /\ OneVoteEach'
  BY <1>2, <1>3 DEF CommitteeInv, CommitteeTypeOK, OneVoteEach
<1>6. DecidedInv'
  BY <1>3 DEF CommitteeInv, DecidedInv
<1>7. DecidingInv'
  <2> SUFFICES ASSUME NEW d \in CommitteeCalls PROVE Deciding(d)'
    BY DEF DecidingInv
  <2>1. CASE d = c
    <3>1. callers'[d] = k
      BY <1>3, <2>1 DEF CommitteeInv, CommitteeTypeOK
    <3> QED BY <1>1, <1>2, <1>3, <1>4, <3>1 DEF Deciding
  <2>2. CASE d # c
    BY <1>3, <2>2 DEF CommitteeInv, CommitteeTypeOK, DecidingInv, Deciding
  <2> QED BY <2>1, <2>2
<1> QED BY <1>5, <1>6, <1>7 DEF CommitteeInv

LEMMA FinalizeKeeps ==
  ASSUME CommitteeInv, NEW c \in CommitteeCalls, Finalize(c)
  PROVE  CommitteeInv'
<1> DEFINE seen     == callers[c].item
           chosen == callers[c].decision
           left   == IF chosen = "defer" THEN "deferred" ELSE "decided"
<1>1. /\ callers' = [callers EXCEPT ![c] = NoCaller]
      /\ item' = DecidedItem(seen, chosen)
      /\ collided' = (collided \/ item # seen)
      /\ recast' = ~callers[c].tallied
      /\ UNCHANGED <<meeting, votes>>
  BY DEF Finalize, Return
<1>2. callers[c] \in Caller /\ callers \in [CommitteeCalls -> Caller] /\ item \in Item
  BY DEF CommitteeInv, CommitteeTypeOK
<1>3. /\ chosen \in Decisions
      /\ Len(votes) >= Quorum
      /\ callers[c].tallied => chosen = Recommendation(votes)
  BY DEF Finalize, Is, CommitteeInv, DecidingInv, Deciding
<1>4. item' \in Item
  BY <1>1, <1>2, <1>3 DEF DecidedItem, Changed, Item
<1>5. CommitteeTypeOK'
  <2>1. collided' \in BOOLEAN /\ recast' \in BOOLEAN
    BY <1>1, <1>2 DEF CommitteeInv, CommitteeTypeOK
  <2>2. meeting' \in MeetingStatuses /\ votes' \in Seq(Vote)
    BY <1>1 DEF CommitteeInv, CommitteeTypeOK
  <2>3. callers' \in [CommitteeCalls -> Caller]
    BY <1>1, <1>2, NoCallerType
  <2>4. \A d \in CommitteeCalls : callers'[d].pc = "update" =>
          callers'[d].row \in DOMAIN votes' /\ callers'[d].vote \in Vote
    BY <1>1, <1>2, NoCallerType DEF CommitteeInv, CommitteeTypeOK
  <2> QED BY <1>4, <2>1, <2>2, <2>3, <2>4 DEF CommitteeTypeOK
<1>6. OneVoteEach'
  BY <1>1 DEF CommitteeInv, OneVoteEach
<1>7. DecidingInv'
  BY <1>1, <1>2, NoCallerType DEF CommitteeInv, DecidingInv, Deciding
<1>8. DecidedInv'
  <2> SUFFICES ASSUME ~collided', ~recast'
               PROVE  /\ item'.decision = Recommendation(votes)
                      /\ item'.status = "deferred" <=> item'.decision = "defer"
    BY <1>1, <1>3 DEF DecidedInv
  <2>1. item = seen /\ callers[c].tallied
    BY <1>1
  <2>2. item' = [status |-> left, decision |-> chosen]
    BY <1>1, <1>2, <2>1 DEF DecidedItem, Changed, Item
  <2> QED BY <1>3, <2>1, <2>2
<1> QED BY <1>5, <1>6, <1>7, <1>8 DEF CommitteeInv

-----------------------------------------------------------------------------
LEMMA CommitteeInvInit == CommitteeInit => CommitteeInv
<1> SUFFICES ASSUME CommitteeInit PROVE CommitteeInv
  OBVIOUS
<1>1. CommitteeTypeOK
  <2>1. votes \in Seq(Vote)
    BY EmptySeq DEF CommitteeInit
  <2>2. item \in Item
    BY DEF CommitteeInit, Item, PendingItem
  <2>3. callers \in [CommitteeCalls -> Caller] /\ \A c \in CommitteeCalls : callers[c].pc = "idle"
    BY NoCallerType DEF CommitteeInit
  <2> QED BY <2>1, <2>2, <2>3 DEF CommitteeInit, CommitteeTypeOK, MeetingStatuses
<1>2. OneVoteEach
  BY DEF CommitteeInit, OneVoteEach
<1>3. DecidingInv /\ DecidedInv
  BY NoCallerType DEF CommitteeInit, DecidingInv, Deciding, DecidedInv
<1> QED BY <1>1, <1>2, <1>3 DEF CommitteeInv

LEMMA CommitteeInvNext == CommitteeInv /\ [CommitteeNext]_committeeVars => CommitteeInv'
<1> SUFFICES ASSUME CommitteeInv, [CommitteeNext]_committeeVars PROVE CommitteeInv'
  OBVIOUS
<1>1. CASE UNCHANGED committeeVars
  BY <1>1 DEF committeeVars, CommitteeInv, CommitteeTypeOK, OneVoteEach, DecidingInv,
              Deciding, DecidedInv
<1>2. ASSUME NEW c \in CommitteeCalls, CommitteeStep(c) PROVE CommitteeInv'
  BY <1>2, LoadMeetingKeeps, MeetingKeeps, LoadForVoteKeeps, FindVoteKeeps,
     InsertVoteKeeps, UpdateVoteKeeps, LoadItemKeeps, TallyKeeps, FinalizeKeeps,
     LeaveKeeps DEF CommitteeStep
<1> QED BY <1>1, <1>2 DEF CommitteeNext

THEOREM CommitteeInvariant == CommitteeSpec => []CommitteeInv
BY CommitteeInvInit, CommitteeInvNext, PTL DEF CommitteeSpec

(* As many members have voted as there are votes. *)
LEMMA VotersCounted ==
  ASSUME CommitteeTypeOK, OneVoteEach
  PROVE  Cardinality({votes[v].member : v \in DOMAIN votes}) = Len(votes)
<1> DEFINE S == 1 .. Len(votes)
           T == {votes[v].member : v \in S}
           f == [v \in S |-> votes[v].member]
<1>1. Len(votes) \in Nat /\ DOMAIN votes = S
  BY LenProperties DEF CommitteeTypeOK
<1>2. IsFiniteSet(S) /\ Cardinality(S) = Len(votes)
  <2>1. 1 \in Int /\ Len(votes) \in Int
    BY <1>1
  <2>2. /\ IsFiniteSet(1 .. Len(votes))
        /\ Cardinality(1 .. Len(votes)) = IF 1 > Len(votes) THEN 0 ELSE Len(votes) - 1 + 1
    BY ONLY <2>1, FS_Interval, Zenon
  <2> QED BY <1>1, <2>2
<1>3. f \in Surjection(S, T)
  BY DEF Surjection
<1>4. f \in Injection(S, T)
  BY <1>1 DEF Injection, IsInjective, OneVoteEach
<1> HIDE DEF S, T, f
<1>5. Cardinality(T) = Cardinality(S)
  BY <1>2, <1>3, <1>4, FS_Surjection
<1> USE DEF S, T, f
<1> QED BY <1>1, <1>2, <1>5

(* A decision of the committee has the votes of a quorum of distinct        *)
(* members, and is what they recommend until a vote is written again, for   *)
(* any number of members, of requests and of overlapping votes.             *)
THEOREM DecisionsFollow == CommitteeSpec => []DecisionFollowsVotes
<1>1. CommitteeInv => DecisionFollowsVotes
  BY VotersCounted DEF CommitteeInv, DecidedInv, DecisionFollowsVotes
<1> QED BY <1>1, CommitteeInvariant, PTL

-----------------------------------------------------------------------------
(* The composition.  A step of one workflow leaves the tables of the       *)
(* others alone, so the composition implements the specification of each.  *)
LEMMA GovernanceParts ==
  GovernanceSpec => Spec /\ ReviewSpec /\ DocumentsSpec /\ CommitteeSpec
<1>1. GovernanceInit => Init /\ ReviewInit /\ DocumentsInit /\ CommitteeInit
  BY DEF GovernanceInit
<1>2. [GovernanceNext]_governance =>
        [Next]_vars /\ [ReviewNext]_reviewVars /\ [DocumentsNext]_docVars
          /\ [CommitteeNext]_committeeVars
  <2>1. ASSUME GovernanceNext
        PROVE  [Next]_vars /\ [ReviewNext]_reviewVars /\ [DocumentsNext]_docVars
                 /\ [CommitteeNext]_committeeVars
    BY <2>1, Zenon DEF GovernanceNext
  <2>2. ASSUME UNCHANGED governance
        PROVE  UNCHANGED <<vars, reviewVars, docVars, committeeVars>>
    BY <2>2 DEF governance
  <2> QED BY <2>1, <2>2
<1> QED BY <1>1, <1>2, PTL
        DEF GovernanceSpec, Spec, ReviewSpec, DocumentsSpec, CommitteeSpec

(* Every row and every request of the four workflows keeps its type, for   *)
(* any number of users, requests, documents and members.                   *)
THEOREM GovernanceTyped == GovernanceSpec => []GovernanceTypeOK
<1>1. CommitteeInv => CommitteeTypeOK
  BY DEF CommitteeInv
<1> QED BY <1>1, GovernanceParts, TypeCorrect, ReviewTyped, DocumentsTyped,
           CommitteeInvariant, PTL DEF GovernanceTypeOK

(* What the four workflows promise holds of the composition that is        *)
(* model-checked: no money before the review, the figures and the files    *)
(* behind the documents, the committee's decision behind its votes, and    *)
(* the decisions on a case in order and by someone else than its analyst.  *)
THEOREM GovernanceSafe ==
  GovernanceSpec =>
    /\ [](/\ ReviewPrecedesMoney /\ RollbackStaysInHistory /\ PeriodIsBacked
          /\ FilesBehindRows /\ NewestIsCurrent /\ DecisionFollowsVotes)
    /\ DecisionsInOrder
    /\ DutiesSeparated
BY GovernanceParts, ReviewFirst, RollbackInHistory, PeriodBacked, FilesKept,
   NewestCurrent, DecisionsFollow, Ordered, Separated, PTL
=============================================================================
