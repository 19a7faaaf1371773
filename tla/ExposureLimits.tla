--------------------------- MODULE ExposureLimits ---------------------------
(***************************************************************************)
(* One portfolio exposure limit and its breach: create_limit,              *)
(* update_limit, evaluate_limits and acknowledge_breach of                 *)
(* services/portfolio_risk.py behind the API threads of its routes.        *)
(*                                                                         *)
(* An evaluation measures the exposure, reads the breach and commits; an   *)
(* acknowledgement decides on the breach it has loaded.  A commit writes   *)
(* the columns that differ from what was loaded, whatever they are now.    *)
(***************************************************************************)
EXTENDS Naturals

CONSTANTS
  RiskRequests, \* concurrent API requests
  MaxEpisodes   \* bound: changes of the exposure or of the limit

ASSUME EpisodesAssumption == MaxEpisodes \in Nat

VARIABLES
  limit,     \* is_active
  exposure,  \* external: how the exposures in scope stand to the threshold
  breach,    \* the row of portfolio_exposure_breaches
  risk,      \* each request
  (* History: *)
  crossed,   \* a request committed over a breach that had changed
  episodes

riskVars == <<limit, exposure, breach, risk, crossed, episodes>>

Exposures == {"within", "over", "unknown"}
Breach    == [status : {"none", "open", "acknowledged", "resolved"},
              answered : BOOLEAN, settled : BOOLEAN]
RiskCall  == [pc : {"idle", "measure", "read", "commit", "acknowledge"},
              over : BOOLEAN, seen : Breach]

NoBreach   == [status |-> "none", answered |-> FALSE, settled |-> FALSE]
NoRiskCall == [pc |-> "idle", over |-> FALSE, seen |-> NoBreach]

RiskTypeOK ==
  /\ limit \in BOOLEAN
  /\ exposure \in Exposures
  /\ breach \in Breach
  /\ risk \in [RiskRequests -> RiskCall]
  /\ crossed \in BOOLEAN
  /\ episodes \in Nat

(* create_limit *)
RiskInit ==
  /\ limit = TRUE
  /\ exposure = "unknown"
  /\ breach = NoBreach
  /\ risk = [r \in RiskRequests |-> NoRiskCall]
  /\ crossed = FALSE
  /\ episodes = 0

-----------------------------------------------------------------------------
(* Imports change the exposures, update_limit the threshold and is_active. *)
ExposureChanges ==
  /\ episodes < MaxEpisodes
  /\ episodes' = episodes + 1
  /\ exposure' \in Exposures
  /\ UNCHANGED <<limit, breach, risk, crossed>>

UpdateLimit ==
  /\ episodes < MaxEpisodes
  /\ episodes' = episodes + 1
  /\ limit' \in BOOLEAN
  /\ exposure' \in Exposures
  /\ UNCHANGED <<breach, risk, crossed>>

(* evaluate_limits: the active limits, *)
LoadLimit(r) ==
  /\ risk[r].pc = "idle" /\ limit
  /\ risk' = [risk EXCEPT ![r].pc = "measure"]
  /\ UNCHANGED <<limit, exposure, breach, crossed, episodes>>

(* limit_utilization, *)
Measure(r) ==
  /\ risk[r].pc = "measure" /\ exposure # "unknown"
  /\ risk' = [risk EXCEPT ![r].pc = "read", ![r].over = (exposure = "over")]
  /\ UNCHANGED <<limit, exposure, breach, crossed, episodes>>

(* the breach, *)
ReadBreach(r) ==
  /\ risk[r].pc = "read"
  /\ risk' = [risk EXCEPT ![r].pc = "commit", ![r].seen = breach]
  /\ UNCHANGED <<limit, exposure, breach, crossed, episodes>>

Column(old, new, stored) == IF new = old THEN stored ELSE new

(* A row is written where it differs from the copy that was loaded. *)
WrittenOver(seen, new) ==
  [status   |-> Column(seen.status, new.status, breach.status),
   answered |-> Column(seen.answered, new.answered, breach.answered),
   settled  |-> Column(seen.settled, new.settled, breach.settled)]

(* Mutant: a reopened breach keeps its acknowledgement. *)
EvaluatedKeeping(seen, over) ==
  CASE over /\ seen.status \in {"none", "resolved"} ->
         [seen EXCEPT !.status = "open", !.settled = FALSE]
    [] ~over /\ seen.status \in {"open", "acknowledged"} ->
         [seen EXCEPT !.status = "resolved", !.settled = TRUE]
    [] OTHER -> seen

(* What the evaluation makes of the breach it has read. *)
Evaluated(seen, over) ==
  CASE over /\ seen.status \in {"none", "resolved"} ->
         [status |-> "open", answered |-> FALSE, settled |-> FALSE]
    [] ~over /\ seen.status \in {"open", "acknowledged"} ->
         [seen EXCEPT !.status = "resolved", !.settled = TRUE]
    [] OTHER -> seen

(* and the commit; a second row for the limit is refused. *)
CommitEvaluation(r) ==
  LET seen == risk[r].seen IN
  /\ risk[r].pc = "commit"
  /\ risk[r].over /\ seen.status = "none" => breach.status = "none"
  /\ breach' = WrittenOver(seen, Evaluated(seen, risk[r].over))
  /\ crossed' = (crossed \/ breach # seen)
  /\ risk' = [risk EXCEPT ![r] = NoRiskCall]
  /\ UNCHANGED <<limit, exposure, episodes>>

(* acknowledge_breach refuses a breach that is resolved; an acknowledged   *)
(* one may be acknowledged again.                                          *)
LoadBreach(r) ==
  /\ risk[r].pc = "idle"
  /\ breach.status \in {"open", "acknowledged"}
  /\ risk' = [risk EXCEPT ![r] = [NoRiskCall EXCEPT !.pc = "acknowledge", !.seen = breach]]
  /\ UNCHANGED <<limit, exposure, breach, crossed, episodes>>

(* Who, when and why always differ from what was loaded. *)
CommitAcknowledgement(r) ==
  /\ risk[r].pc = "acknowledge"
  /\ breach' = [breach EXCEPT !.status = Column(risk[r].seen.status, "acknowledged", @),
                              !.answered = TRUE]
  /\ crossed' = (crossed \/ breach # risk[r].seen)
  /\ risk' = [risk EXCEPT ![r] = NoRiskCall]
  /\ UNCHANGED <<limit, exposure, episodes>>

(* The exposure cannot be calculated, a commit is refused, the process dies. *)
AbandonRisk(r) ==
  /\ risk[r].pc # "idle"
  /\ risk' = [risk EXCEPT ![r] = NoRiskCall]
  /\ UNCHANGED <<limit, exposure, breach, crossed, episodes>>

RiskStep(r) ==
  \/ LoadLimit(r) \/ Measure(r) \/ ReadBreach(r) \/ CommitEvaluation(r)
  \/ LoadBreach(r) \/ CommitAcknowledgement(r)
  \/ AbandonRisk(r)

RiskNext == ExposureChanges \/ UpdateLimit \/ \E r \in RiskRequests : RiskStep(r)

RiskSpec == RiskInit /\ [][RiskNext]_riskVars

-----------------------------------------------------------------------------
(* Properties *)

(* An open breach is unanswered, an acknowledged one is answered, and only *)
(* a resolved one is settled: an acknowledgement never carries over to the *)
(* next episode and is never left on a breach that is over, until a        *)
(* request commits over a breach that changed after it was loaded.         *)
AnswersFitBreach ==
  ~crossed =>
    /\ breach.status \in {"none", "open"} => ~breach.answered
    /\ breach.status = "acknowledged" => breach.answered
    /\ breach.settled <=> breach.status = "resolved"
=============================================================================
