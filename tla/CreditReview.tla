---------------------------- MODULE CreditReview ----------------------------
(***************************************************************************)
(* One credit review case: services/credit_reviews/service.py behind the   *)
(* API threads of routes/credit_reviews.py.                                *)
(*                                                                         *)
(* A request loads the case, checks its status and its people, reads the   *)
(* newest assessment and decision, and writes in one commit.  Every status *)
(* change and every assignment is an UPDATE that asks for the status and   *)
(* the revision that were loaded.  The one exception is an assessment      *)
(* saved without a status change: its revision is written unconditionally. *)
(***************************************************************************)
EXTENDS Naturals, Sequences

CONSTANTS
  Users,           \* members of the tenant who hold every review permission
  ReviewRequests,  \* concurrent API requests on the case
  Nobody,          \* None
  MaxCommits       \* bound: commits to the case

ASSUME NobodyAssumption  == Nobody \notin Users
ASSUME CommitsAssumption == MaxCommits \in Nat

VARIABLES
  case,         \* the row of credit_review_cases
  assessments,  \* credit_review_assessments by version: was it submitted
  decisions,    \* credit_review_decisions in the order of their ids
  reviews,      \* each request: what it has read
  (* History: *)
  overtaken,    \* an unconditional save went over a case that had changed
  commits

reviewVars == <<case, assessments, decisions, reviews, overtaken, commits>>

-----------------------------------------------------------------------------
(* ALLOWED_TRANSITIONS *)
ReviewTransitions ==
  [ draft                 |-> {"in_review"},
    in_review             |-> {"pending_approval"},
    pending_approval      |-> {"approved", "declined", "deferred",
                               "returned_for_revision"},
    returned_for_revision |-> {"in_review"},
    deferred              |-> {"in_review"},
    approved              |-> {"in_review"},
    declined              |-> {"in_review"} ]

ReviewStatuses == DOMAIN ReviewTransitions
FinalStatuses  == {"approved", "declined"}

CaseRow  == [status : ReviewStatuses, revision : Nat, cycle : Nat,
             analyst : Users, reviewer : Users \cup {Nobody}]
DecisionRow == [assessment : Nat, previous : Nat, cycle : Nat, actor : Users,
             target : ReviewStatuses,
             condition : {"none", "open", "completed", "waived"}]
Review   == [pc : {"idle", "loaded", "ready"},
             op : {"none", "save", "submit", "decide", "assign", "resume",
                   "reopen", "condition"},
             user : Users \cup {Nobody}, seen : CaseRow \cup {Nobody},
             version : Nat, previous : Nat]

NoReview == [pc |-> "idle", op |-> "none", user |-> Nobody, seen |-> Nobody,
             version |-> 0, previous |-> 0]

ReviewTypeOK ==
  /\ case \in CaseRow
  /\ assessments \in Seq(BOOLEAN)
  /\ decisions \in Seq(DecisionRow)
  /\ reviews \in [ReviewRequests -> Review]
  /\ \A r \in ReviewRequests : reviews[r].pc # "idle" => reviews[r].seen \in CaseRow
  /\ overtaken \in BOOLEAN
  /\ commits \in Nat

(* create_case: the creator is the analyst. *)
ReviewInit ==
  /\ case \in [status : {"draft"}, revision : {1}, cycle : {1},
               analyst : Users, reviewer : {Nobody}]
  /\ assessments = <<>>
  /\ decisions = <<>>
  /\ reviews = [r \in ReviewRequests |-> NoReview]
  /\ overtaken = FALSE
  /\ commits = 0

-----------------------------------------------------------------------------
(* What a request may do is decided on the case it has loaded. *)
Permitted(op, c, u) ==
  \/ /\ op = "save" /\ c.analyst = u
     /\ c.status \in {"draft", "in_review", "returned_for_revision"}
  \/ op = "submit" /\ c.analyst = u /\ c.status = "in_review"
  \/ /\ op = "decide" /\ c.status = "pending_approval"
     /\ c.analyst # u /\ c.reviewer \in {Nobody, u}
  \/ op = "assign" /\ c.status \notin FinalStatuses
  \/ op = "resume" /\ c.analyst = u /\ c.status \in {"deferred", "returned_for_revision"}
  \/ op = "reopen" /\ c.status \in FinalStatuses
  \/ op = "condition" /\ \E d \in DOMAIN decisions : decisions[d].condition = "open"

LoadCase(r, op, u) ==
  /\ reviews[r].pc = "idle"
  /\ Permitted(op, case, u)
  /\ reviews' = [reviews EXCEPT ![r] =
       [NoReview EXCEPT !.pc = "loaded", !.op = op, !.seen = case,
                        !.user = IF op = "decide" THEN u ELSE Nobody]]
  /\ UNCHANGED <<case, assessments, decisions, overtaken, commits>>

(* _latest_assessment and _latest_decision; submit and decide require that *)
(* the newest assessment was submitted.                                    *)
ReadLatest(r) ==
  /\ reviews[r].pc = "loaded"
  /\ reviews[r].op \in {"save", "submit", "decide"}
  /\ reviews[r].op # "save" =>
       assessments # <<>> /\ assessments[Len(assessments)]
  /\ reviews' = [reviews EXCEPT ![r].pc = "ready",
                                ![r].version = Len(assessments),
                                ![r].previous = Len(decisions)]
  /\ UNCHANGED <<case, assessments, decisions, overtaken, commits>>

-----------------------------------------------------------------------------
(* Commits.  Unmoved is the WHERE clause of the conditional UPDATE; when   *)
(* it fails the request is refused, as Abandon has it.                     *)
Unmoved(seen) == case.status = seen.status /\ case.revision = seen.revision

Ready(r, op) == reviews[r].pc = "ready" /\ reviews[r].op = op

Written(r) ==
  /\ commits < MaxCommits
  /\ commits' = commits + 1
  /\ reviews' = [reviews EXCEPT ![r] = NoReview]

(* Mutant: the status is assigned, not moved from what was loaded. *)
MoveCaseAnyhow(seen, target) ==
  /\ target \in ReviewTransitions[seen.status]
  /\ case' = [case EXCEPT !.status = target, !.revision = seen.revision + 1]

(* _transition *)
MoveCase(seen, target) ==
  /\ Unmoved(seen)
  /\ target \in ReviewTransitions[seen.status]
  /\ case' = [case EXCEPT !.status = target, !.revision = seen.revision + 1]

(* A submitted assessment that brings the case into review: the flush that *)
(* follows the conditional UPDATE raises the revision once more.           *)
SubmitAssessment(r) ==
  LET seen == reviews[r].seen IN
  /\ Ready(r, "save")
  /\ reviews[r].version = Len(assessments)
  /\ seen.status # "in_review"
  /\ Unmoved(seen)
  /\ case' = [case EXCEPT !.status = "in_review", !.revision = seen.revision + 2]
  /\ assessments' = Append(assessments, TRUE)
  /\ Written(r)
  /\ UNCHANGED <<decisions, overtaken>>

(* Any other save.  The version is unique, the revision is not checked. *)
SaveAssessment(r) ==
  LET seen == reviews[r].seen IN
  /\ Ready(r, "save")
  /\ reviews[r].version = Len(assessments)
  /\ case' = [case EXCEPT !.revision = seen.revision + 1]
  /\ \E submit \in IF seen.status = "in_review" THEN BOOLEAN ELSE {FALSE} :
       assessments' = Append(assessments, submit)
  /\ overtaken' = (overtaken \/ ~Unmoved(seen))
  /\ Written(r)
  /\ UNCHANGED decisions

SubmitForApproval(r) ==
  /\ Ready(r, "submit")
  /\ MoveCase(reviews[r].seen, "pending_approval")
  /\ Written(r)
  /\ UNCHANGED <<assessments, decisions, overtaken>>

(* decide: the decision names the assessment and the decision that were    *)
(* read, and a conditional approval opens a condition.                     *)
Decide(r) ==
  /\ Ready(r, "decide")
  /\ \E target \in ReviewTransitions["pending_approval"], condition \in {"none", "open"} :
       /\ condition = "open" => target = "approved"
       /\ MoveCase(reviews[r].seen, target)
       /\ decisions' = Append(decisions,
            [assessment |-> reviews[r].version, previous |-> reviews[r].previous,
             cycle |-> reviews[r].seen.cycle, actor |-> reviews[r].user,
             target |-> target, condition |-> condition])
  /\ Written(r)
  /\ UNCHANGED <<assessments, overtaken>>

(* Mutant: an assignment leaves the revision as it is. *)
AssignInPlace(r) ==
  /\ reviews[r].pc = "loaded" /\ reviews[r].op = "assign"
  /\ Unmoved(reviews[r].seen)
  /\ \E analyst \in Users, reviewer \in Users \cup {Nobody} :
       /\ analyst # reviewer
       /\ case' = [case EXCEPT !.analyst = analyst, !.reviewer = reviewer]
  /\ Written(r)
  /\ UNCHANGED <<assessments, decisions, overtaken>>

Assign(r) ==
  /\ reviews[r].pc = "loaded" /\ reviews[r].op = "assign"
  /\ Unmoved(reviews[r].seen)
  /\ \E analyst \in Users, reviewer \in Users \cup {Nobody} :
       /\ analyst # reviewer
       /\ case' = [case EXCEPT !.analyst = analyst, !.reviewer = reviewer,
                               !.revision = reviews[r].seen.revision + 1]
  /\ Written(r)
  /\ UNCHANGED <<assessments, decisions, overtaken>>

Resume(r) ==
  /\ reviews[r].pc = "loaded" /\ reviews[r].op = "resume"
  /\ MoveCase(reviews[r].seen, "in_review")
  /\ Written(r)
  /\ UNCHANGED <<assessments, decisions, overtaken>>

Reopen(r) ==
  LET seen == reviews[r].seen IN
  /\ reviews[r].pc = "loaded" /\ reviews[r].op = "reopen"
  /\ Unmoved(seen)
  /\ case' = [case EXCEPT !.status = "in_review", !.revision = seen.revision + 1,
                          !.cycle = seen.cycle + 1]
  /\ Written(r)
  /\ UNCHANGED <<assessments, decisions, overtaken>>

(* update_condition: its UPDATE asks for an open condition. *)
SettleCondition(r) ==
  /\ reviews[r].pc = "loaded" /\ reviews[r].op = "condition"
  /\ \E d \in DOMAIN decisions, outcome \in {"completed", "waived"} :
       /\ decisions[d].condition = "open"
       /\ decisions' = [decisions EXCEPT ![d].condition = outcome]
  /\ Written(r)
  /\ UNCHANGED <<case, assessments, overtaken>>

(* A conflict, a check that refuses, an error or a lost connection. *)
AbandonReview(r) ==
  /\ reviews[r].pc # "idle"
  /\ reviews' = [reviews EXCEPT ![r] = NoReview]
  /\ UNCHANGED <<case, assessments, decisions, overtaken, commits>>

ReviewStep(r) ==
  \/ \E op \in {"save", "submit", "decide", "assign", "resume", "reopen", "condition"},
        u \in Users : LoadCase(r, op, u)
  \/ ReadLatest(r)
  \/ SubmitAssessment(r) \/ SaveAssessment(r) \/ SubmitForApproval(r) \/ Decide(r)
  \/ Assign(r) \/ Resume(r) \/ Reopen(r) \/ SettleCondition(r)
  \/ AbandonReview(r)

ReviewNext == \E r \in ReviewRequests : ReviewStep(r)

ReviewSpec == ReviewInit /\ [][ReviewNext]_reviewVars

-----------------------------------------------------------------------------
(* Properties *)

Decided == Len(decisions') > Len(decisions)
Latest  == decisions'[Len(decisions')]

(* A decision rests on the newest assessment, which was submitted, and     *)
(* follows the newest decision, whatever requests it overlapped, until an  *)
(* unconditional save of an assessment brings back an old revision.        *)
DecisionsInOrder ==
  [][Decided /\ ~overtaken =>
       /\ Latest.previous = Len(decisions)
       /\ Latest.assessment = Len(assessments)
       /\ assessments[Latest.assessment]]_reviewVars

(* A case is never decided by the analyst it is assigned to at that        *)
(* moment, nor past the reviewer it is assigned to, although assignments   *)
(* overlap with decisions (with the same exception).                       *)
DutiesSeparated ==
  [][Decided /\ ~overtaken =>
       Latest.actor # case.analyst /\ case.reviewer \in {Nobody, Latest.actor}]_reviewVars
=============================================================================
