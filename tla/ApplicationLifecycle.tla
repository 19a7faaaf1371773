------------------------ MODULE ApplicationLifecycle ------------------------
(***************************************************************************)
(* The lifecycle of one credit application and the approvals that drive    *)
(* it: services/lifecycle (state_machine.py, service.py) and               *)
(* services/approvals (workflow.py, service.py) behind the API threads of  *)
(* routes/applications.py and routes/approvals.py.                         *)
(*                                                                         *)
(* A request loads the application, validates its move against the status  *)
(* it loaded, and writes the status and a history entry in one commit.     *)
(* Requests interleave between those steps.  An approval inserts its       *)
(* decision in a further commit.                                           *)
(***************************************************************************)
EXTENDS Naturals

CONSTANTS
  Requests,   \* concurrent API requests on the application
  None,
  MaxMoves    \* bound: committed status changes

ASSUME BoundAssumption == MaxMoves \in Nat

Statuses == {"draft", "submitted", "documents_pending", "under_ai_analysis",
             "analyst_review", "senior_analyst_review", "credit_committee",
             "approved", "conditionally_approved", "rejected", "disbursed",
             "monitoring", "closed", "cancelled"}

TerminalStatuses == {"closed", "cancelled"}

ASSUME NoneAssumption == None \notin Statuses

(* ALLOWED_TRANSITIONS *)
AllowedTransitions ==
  [ draft                  |-> {"submitted", "cancelled"},
    submitted              |-> {"documents_pending", "under_ai_analysis", "cancelled"},
    documents_pending      |-> {"under_ai_analysis", "submitted", "cancelled"},
    under_ai_analysis      |-> {"analyst_review", "documents_pending", "cancelled"},
    analyst_review         |-> {"senior_analyst_review", "documents_pending",
                                "rejected", "cancelled"},
    senior_analyst_review  |-> {"credit_committee", "analyst_review",
                                "rejected", "cancelled"},
    credit_committee       |-> {"approved", "conditionally_approved", "rejected",
                                "senior_analyst_review", "cancelled"},
    approved               |-> {"disbursed", "cancelled"},
    conditionally_approved |-> {"approved", "disbursed", "rejected", "cancelled"},
    rejected               |-> {"analyst_review", "closed"},
    disbursed              |-> {"monitoring", "closed"},
    monitoring             |-> {"closed"},
    closed                 |-> {},
    cancelled              |-> {} ]

CanTransition(from, to) == to \in AllowedTransitions[from]

Actions     == {"approve", "reject", "request_changes", "escalate", "hold", "comment"}
EntryPoints == {"submitted", "documents_pending", "under_ai_analysis"}

NextPipelineStatus(current) ==
  CASE current \in EntryPoints             -> "analyst_review"
    [] current = "analyst_review"          -> "senior_analyst_review"
    [] current = "senior_analyst_review"   -> "credit_committee"
    [] current = "credit_committee"        -> "approved"
    [] OTHER                               -> None

TargetStatus(action, current) ==
  CASE action \in {"approve", "escalate"} -> NextPipelineStatus(current)
    [] action = "reject"                  -> "rejected"
    [] action = "request_changes"         -> "documents_pending"
    [] OTHER                              -> None

VARIABLES
  status,     \* applications.status
  cameFrom,   \* from_status of the last history entry that moved into a status
  req,        \* each request: what it loaded and what it is about to commit
  decision,   \* the last row of approval_decisions
  (* History: *)
  visited,    \* the statuses the application has ever had
  moves

vars == <<status, cameFrom, req, decision, visited, moves>>

Request  == [pc : {"idle", "move", "rollback", "undo", "decide"},
             loaded : Statuses \cup {None}, target : Statuses \cup {None},
             action : Actions \cup {None}]
Decision == [action : Actions \cup {None}, from : Statuses \cup {None},
             target : Statuses \cup {None}, to : Statuses \cup {None}]

Idle       == [pc |-> "idle", loaded |-> None, target |-> None, action |-> None]
NoDecision == [action |-> None, from |-> None, target |-> None, to |-> None]

TypeOK ==
  /\ status \in Statuses
  /\ cameFrom \in [Statuses -> Statuses \cup {None}]
  /\ req \in [Requests -> Request]
  /\ \A r \in Requests :
       /\ req[r].pc # "idle" => req[r].loaded # None
       /\ req[r].pc \in {"move", "undo"} => req[r].target # None
  /\ decision \in Decision
  /\ visited \subseteq Statuses
  /\ moves \in Nat

(* create_application *)
Init ==
  /\ status = "draft"
  /\ cameFrom = [s \in Statuses |-> None]
  /\ req = [r \in Requests |-> Idle]
  /\ decision = NoDecision
  /\ visited = {"draft"}
  /\ moves = 0

-----------------------------------------------------------------------------
(* POST submit, transition and cancel: load, validate; a refused move is a *)
(* 409 and changes nothing.                                                *)
LoadMove(r, to) ==
  /\ req[r].pc = "idle"
  /\ CanTransition(status, to)
  /\ req' = [req EXCEPT ![r] = [pc |-> "move", loaded |-> status,
                                target |-> to, action |-> None]]
  /\ UNCHANGED <<status, cameFrom, decision, visited, moves>>

(* Mutant: the decision moves the application without the state machine. *)
LoadDecisionUnchecked(r, action) ==
  /\ req[r].pc = "idle"
  /\ LET to == TargetStatus(action, status)
     IN req' = [req EXCEPT ![r] = [pc     |-> IF to # None THEN "move" ELSE "decide",
                                   loaded |-> status, target |-> to,
                                   action |-> action]]
  /\ UNCHANGED <<status, cameFrom, decision, visited, moves>>

(* submit_decision: a refused move is not an error, the decision follows. *)
LoadDecision(r, action) ==
  /\ req[r].pc = "idle"
  /\ LET to    == TargetStatus(action, status)
         legal == to # None /\ CanTransition(status, to)
     IN req' = [req EXCEPT ![r] = [pc     |-> IF legal THEN "move" ELSE "decide",
                                   loaded |-> status,
                                   target |-> IF legal THEN to ELSE None,
                                   action |-> action]]
  /\ UNCHANGED <<status, cameFrom, decision, visited, moves>>

(* The commit of a new status with its history entry. *)
Move(r) ==
  /\ moves < MaxMoves
  /\ moves' = moves + 1
  /\ status' = req[r].target
  /\ cameFrom' = [cameFrom EXCEPT ![req[r].target] = req[r].loaded]
  /\ visited' = visited \cup {req[r].target}
  /\ UNCHANGED decision

CommitMove(r) ==
  /\ req[r].pc = "move"
  /\ Move(r)
  /\ req' = [req EXCEPT ![r] = IF @.action = None THEN Idle
                               ELSE [@ EXCEPT !.pc = "decide"]]

(* to_status is read from the application again, after the commits of the  *)
(* transition, of its audit record and of its notification.                *)
InsertDecision(r) ==
  /\ req[r].pc = "decide"
  /\ decision' = [action |-> req[r].action, from |-> req[r].loaded,
                  target |-> req[r].target,
                  to |-> IF req[r].target = None THEN None ELSE status]
  /\ req' = [req EXCEPT ![r] = Idle]
  /\ UNCHANGED <<status, cameFrom, visited, moves>>

-----------------------------------------------------------------------------
(* POST rollback: load the application, then its history, then commit. *)
LoadRollback(r) ==
  /\ req[r].pc = "idle"
  /\ req' = [req EXCEPT ![r] = [pc |-> "rollback", loaded |-> status,
                                target |-> None, action |-> None]]
  /\ UNCHANGED <<status, cameFrom, decision, visited, moves>>

(* Mutants: a missing entry is not refused; the status to return to is     *)
(* taken from the transition table.                                        *)
ReadHistoryUnchecked(r) ==
  /\ req[r].pc = "rollback"
  /\ req' = [req EXCEPT ![r].pc = "undo", ![r].target = cameFrom[req[r].loaded]]
  /\ UNCHANGED <<status, cameFrom, decision, visited, moves>>

ReadHistoryFromTable(r) ==
  /\ req[r].pc = "rollback"
  /\ \E previous \in Statuses :
       /\ CanTransition(previous, req[r].loaded)
       /\ req' = [req EXCEPT ![r].pc = "undo", ![r].target = previous]
  /\ UNCHANGED <<status, cameFrom, decision, visited, moves>>

ReadHistory(r) ==
  /\ req[r].pc = "rollback"
  /\ LET previous == cameFrom[req[r].loaded] IN
     req' = [req EXCEPT ![r] = IF previous = None THEN Idle
                               ELSE [@ EXCEPT !.pc = "undo", !.target = previous]]
  /\ UNCHANGED <<status, cameFrom, decision, visited, moves>>

CommitRollback(r) ==
  /\ req[r].pc = "undo"
  /\ Move(r)
  /\ req' = [req EXCEPT ![r] = Idle]

(* The process dies, or a later step of the request raises. *)
Abandon(r) ==
  /\ req[r].pc # "idle"
  /\ req' = [req EXCEPT ![r] = Idle]
  /\ UNCHANGED <<status, cameFrom, decision, visited, moves>>

Step(r) ==
  \/ \E to \in Statuses : LoadMove(r, to)
  \/ \E action \in Actions : LoadDecision(r, action)
  \/ CommitMove(r) \/ InsertDecision(r)
  \/ LoadRollback(r) \/ ReadHistory(r) \/ CommitRollback(r)
  \/ Abandon(r)

Next == \E r \in Requests : Step(r)

Spec == Init /\ [][Next]_vars

-----------------------------------------------------------------------------
(* Properties *)

(* Money goes out only on applications that went through the review: what  *)
(* was ever disbursed or monitored was approved before, what was approved  *)
(* was before the credit committee, and so on down the pipeline, whatever  *)
(* requests, approvals and rollbacks interleave.                           *)
ReviewPrecedesMoney ==
  /\ visited \cap {"disbursed", "monitoring"} # {}
       => visited \cap {"approved", "conditionally_approved"} # {}
  /\ visited \cap {"approved", "conditionally_approved"} # {}
       => "credit_committee" \in visited
  /\ "credit_committee" \in visited => "senior_analyst_review" \in visited
  /\ "senior_analyst_review" \in visited => "analyst_review" \in visited
  /\ "analyst_review" \in visited => "under_ai_analysis" \in visited

(* A rollback never takes the application to a status it has not had. *)
RollbackStaysInHistory ==
  \A r \in Requests : req[r].pc = "undo" => req[r].target \in visited

(* Statements of the documentation and the comments *)

(* "Terminal statuses cannot transition further (except via explicit       *)
(* rollback)"                                                              *)
TerminalIsFinal ==
  [][status' # status /\ status \in TerminalStatuses
        => \E r \in Requests : req[r].pc = "undo" /\ req'[r].pc = "idle"]_vars
=============================================================================
