------------------------- MODULE ApplicationProofs --------------------------
(***************************************************************************)
(* Theorems about the application and its documents: ApplicationLifecycle, *)
(* for every set of concurrent requests and every number of moves, and     *)
(* Documents, for every set of documents and of requests.                  *)
(***************************************************************************)
EXTENDS ApplicationLifecycle, Documents, TLAPS

USE NoDocAssumption, VersionsAssumption

(* Where the table lets an application come from, for the statuses the     *)
(* review properties name.                                                 *)
LEMMA Predecessors ==
  ASSUME NEW from \in Statuses, NEW to \in Statuses, CanTransition(from, to)
  PROVE  /\ to = "monitoring" => from = "disbursed"
         /\ to = "disbursed" => from \in {"approved", "conditionally_approved"}
         /\ to = "approved" => from \in {"credit_committee", "conditionally_approved"}
         /\ to = "conditionally_approved" => from = "credit_committee"
         /\ to = "credit_committee" => from = "senior_analyst_review"
         /\ to = "senior_analyst_review" => from \in {"analyst_review", "credit_committee"}
         /\ to = "analyst_review" => from \in {"under_ai_analysis",
                                               "senior_analyst_review", "rejected"}
         /\ to = "rejected" => from \in {"analyst_review", "senior_analyst_review",
                                         "credit_committee", "conditionally_approved"}
  BY DEF CanTransition, AllowedTransitions, Statuses

-----------------------------------------------------------------------------
(* Types *)

LEMMA IdleFacts ==
  /\ Idle \in Request /\ Idle.pc = "idle"
  /\ NoDecision \in Decision
  BY DEF Idle, Request, NoDecision, Decision

LEMMA TargetType ==
  ASSUME NEW action \in Actions, NEW s \in Statuses
  PROVE  TargetStatus(action, s) \in Statuses \cup {None}
  BY DEF TargetStatus, NextPipelineStatus, Statuses, EntryPoints

(* The two actions that commit a status, by what they have in common. *)
Committed(r) ==
  /\ req[r].pc \in {"move", "undo"}
  /\ Move(r)
  /\ req' \in [Requests -> Request]
  /\ \A q \in Requests : q # r => req'[q] = req[q]
  /\ req'[r].pc # "idle" => req'[r].pc = "decide" /\ req'[r].loaded = req[r].loaded

LEMMA CommitsCommit ==
  ASSUME TypeOK, NEW r \in Requests, CommitMove(r) \/ CommitRollback(r)
  PROVE  Committed(r)
<1>1. req[r] \in Request /\ req[r].loaded # None /\ req[r].target # None
  BY DEF TypeOK, CommitMove, CommitRollback
<1>2. [req[r] EXCEPT !.pc = "decide"] \in Request
      /\ [req[r] EXCEPT !.pc = "decide"].pc = "decide"
      /\ [req[r] EXCEPT !.pc = "decide"].loaded = req[r].loaded
  BY <1>1 DEF Request
<1>3. req' = [req EXCEPT ![r] = Idle]
      \/ req' = [req EXCEPT ![r] = [req[r] EXCEPT !.pc = "decide"]]
  BY DEF CommitMove, CommitRollback
<1>4. /\ req[r].pc \in {"move", "undo"} /\ Move(r)
  BY DEF CommitMove, CommitRollback
<1>5. /\ req' \in [Requests -> Request]
      /\ \A q \in Requests : q # r => req'[q] = req[q]
  BY <1>2, <1>3, IdleFacts DEF TypeOK
<1>6. req'[r] = Idle \/ req'[r] = [req[r] EXCEPT !.pc = "decide"]
  BY <1>3 DEF TypeOK
<1> QED BY <1>2, <1>4, <1>5, <1>6, IdleFacts DEF Committed

(* Every variable keeps its type. *)
THEOREM TypeCorrect == Spec => []TypeOK
<1>1. Init => TypeOK
  BY IdleFacts, BoundAssumption DEF Init, TypeOK, Statuses
<1>2. TypeOK /\ [Next]_vars => TypeOK'
  <2> SUFFICES ASSUME TypeOK, [Next]_vars PROVE TypeOK'
    OBVIOUS
  <2>1. ASSUME NEW r \in Requests, NEW to \in Statuses, LoadMove(r, to) PROVE TypeOK'
    BY <2>1, NoneAssumption DEF LoadMove, TypeOK, Request
  <2>2. ASSUME NEW r \in Requests, NEW action \in Actions, LoadDecision(r, action)
        PROVE  TypeOK'
    <3> DEFINE to == TargetStatus(action, status)
               legal == to # None /\ CanTransition(status, to)
               new == [pc     |-> IF legal THEN "move" ELSE "decide",
                       loaded |-> status,
                       target |-> IF legal THEN to ELSE None,
                       action |-> action]
    <3>1. /\ to \in Statuses \cup {None}
          /\ status \in Statuses /\ status # None
      BY TargetType, NoneAssumption DEF TypeOK
    <3>2. legal => to # None
      OBVIOUS
    <3>3. req' = [req EXCEPT ![r] = new]
      BY <2>2 DEF LoadDecision
    <3> HIDE DEF to, legal
    <3>4. new \in Request
      BY <3>1 DEF Request
    <3>5. new.loaded # None /\ (new.pc \in {"move", "undo"} => new.target # None)
      BY <3>1, <3>2
    <3> HIDE DEF new
    <3> QED BY <2>2, <3>3, <3>4, <3>5 DEF LoadDecision, TypeOK
  <2>3. ASSUME NEW r \in Requests, CommitMove(r) \/ CommitRollback(r) PROVE TypeOK'
    <3>1. Committed(r)
      BY <2>3, CommitsCommit
    <3>2. req[r].loaded \in Statuses /\ req[r].target \in Statuses
      BY <3>1 DEF Committed, TypeOK, Request
    <3>3. \A q \in Requests : /\ req'[q].pc # "idle" => req'[q].loaded # None
                              /\ req'[q].pc \in {"move", "undo"} => req'[q].target # None
      BY <3>1, <3>2, NoneAssumption DEF Committed, TypeOK
    <3>4. /\ status' \in Statuses /\ visited' \subseteq Statuses /\ moves' \in Nat
          /\ cameFrom' \in [Statuses -> Statuses \cup {None}] /\ decision' = decision
      BY <3>1, <3>2 DEF Committed, Move, TypeOK
    <3> QED BY <3>1, <3>3, <3>4 DEF Committed, TypeOK
  <2>4. ASSUME NEW r \in Requests, InsertDecision(r) PROVE TypeOK'
    <3>1. req[r] \in Request /\ status \in Statuses
      BY DEF TypeOK
    <3>2. decision' \in Decision
      BY <2>4, <3>1 DEF InsertDecision, Decision, Request
    <3> QED BY <2>4, <3>2, IdleFacts DEF InsertDecision, TypeOK
  <2>5. ASSUME NEW r \in Requests, LoadRollback(r) PROVE TypeOK'
    BY <2>5, NoneAssumption DEF LoadRollback, TypeOK, Request
  <2>6. ASSUME NEW r \in Requests, ReadHistory(r) PROVE TypeOK'
    <3> DEFINE previous == cameFrom[req[r].loaded]
               undo == [req[r] EXCEPT !.pc = "undo", !.target = previous]
    <3>1. req[r] \in Request /\ req[r].loaded \in Statuses
      BY <2>6 DEF ReadHistory, TypeOK, Request
    <3>2. previous \in Statuses \cup {None}
      BY <3>1 DEF TypeOK
    <3>3. undo \in Request /\ undo.target = previous /\ undo.loaded = req[r].loaded
      BY <3>1, <3>2 DEF Request
    <3>4. CASE previous = None
      BY <2>6, <3>4, IdleFacts DEF ReadHistory, TypeOK
    <3>5. CASE previous # None
      <4> HIDE DEF previous, undo
      <4>1. req' = [req EXCEPT ![r] = undo]
        BY <2>6, <3>5 DEF ReadHistory, undo, previous
      <4> QED BY <2>6, <3>1, <3>3, <3>5, <4>1, NoneAssumption DEF ReadHistory, TypeOK
    <3> QED BY <3>4, <3>5
  <2>7. ASSUME NEW r \in Requests, Abandon(r) PROVE TypeOK'
    BY <2>7, IdleFacts DEF Abandon, TypeOK
  <2>8. CASE UNCHANGED vars
    BY <2>8 DEF vars, TypeOK
  <2> QED BY <2>1, <2>2, <2>3, <2>4, <2>5, <2>6, <2>7, <2>8 DEF Next, Step
<1> QED BY <1>1, <1>2, PTL DEF Spec

-----------------------------------------------------------------------------
(* The review precedes the money.  That is not inductive: a commit writes  *)
(* the target chosen for the status its request loaded, long ago.  It      *)
(* stays right because whatever a request has loaded the application has   *)
(* been, and because a rollback returns to a status of the history.        *)
RequestInv(r) ==
  /\ req[r].pc # "idle" => req[r].loaded \in visited
  /\ req[r].pc = "move" => CanTransition(req[r].loaded, req[r].target)
  /\ req[r].pc = "undo" => req[r].target \in visited

PrecedenceInv ==
  /\ status \in visited
  /\ \A s \in Statuses : cameFrom[s] # None => cameFrom[s] \in visited
  /\ \A r \in Requests : RequestInv(r)
  /\ "rejected" \in visited => "analyst_review" \in visited
  /\ ReviewPrecedesMoney

(* A status the table allows after a visited one keeps the order.          *)
LEMMA VisitKeepsOrder ==
  ASSUME TypeOK, PrecedenceInv, NEW from \in visited, NEW to \in Statuses,
         CanTransition(from, to), visited' = visited \cup {to}
  PROVE  /\ "rejected" \in visited' => "analyst_review" \in visited'
         /\ ReviewPrecedesMoney'
<1>1. from \in Statuses
  BY DEF TypeOK
<1> DEFINE Funded   == visited \cap {"disbursed", "monitoring"} # {}
           Approved == visited \cap {"approved", "conditionally_approved"} # {}
<1>2. CASE to \in {"disbursed", "monitoring"}
  <2>1. Approved
    BY <1>1, <1>2, Predecessors DEF PrecedenceInv, ReviewPrecedesMoney
  <2> QED BY <1>2, <2>1 DEF PrecedenceInv, ReviewPrecedesMoney
<1>3. CASE to \in {"approved", "conditionally_approved"}
  <2>1. "credit_committee" \in visited
    BY <1>1, <1>3, Predecessors DEF PrecedenceInv, ReviewPrecedesMoney
  <2> QED BY <1>3, <2>1 DEF PrecedenceInv, ReviewPrecedesMoney
<1>4. CASE to \in {"credit_committee", "senior_analyst_review"}
  <2>1. "analyst_review" \in visited
    BY <1>1, <1>4, Predecessors DEF PrecedenceInv, ReviewPrecedesMoney
  <2>2. to = "credit_committee" => "senior_analyst_review" \in visited
    BY <1>1, Predecessors
  <2> QED BY <1>4, <2>1, <2>2 DEF PrecedenceInv, ReviewPrecedesMoney
<1>5. CASE to = "analyst_review"
  <2>1. "under_ai_analysis" \in visited
    BY <1>1, <1>5, Predecessors DEF PrecedenceInv, ReviewPrecedesMoney
  <2> QED BY <1>5, <2>1 DEF PrecedenceInv, ReviewPrecedesMoney
<1>6. CASE to = "rejected"
  <2>1. "analyst_review" \in visited
    BY <1>1, <1>6, Predecessors DEF PrecedenceInv, ReviewPrecedesMoney
  <2> QED BY <1>6, <2>1 DEF PrecedenceInv, ReviewPrecedesMoney
<1>7. CASE to \notin {"disbursed", "monitoring", "approved", "conditionally_approved",
                      "credit_committee", "senior_analyst_review", "analyst_review",
                      "rejected"}
  BY <1>7 DEF PrecedenceInv, ReviewPrecedesMoney
<1> QED BY <1>2, <1>3, <1>4, <1>5, <1>6, <1>7

LEMMA PrecedenceStep == TypeOK /\ PrecedenceInv /\ [Next]_vars => PrecedenceInv'
<1> SUFFICES ASSUME TypeOK, PrecedenceInv, [Next]_vars PROVE PrecedenceInv'
  OBVIOUS
<1>1. ASSUME NEW r \in Requests, UNCHANGED <<status, cameFrom, visited>>,
             \A q \in Requests : q # r => req'[q] = req[q], RequestInv(r)'
      PROVE  PrecedenceInv'
  <2>1. ASSUME NEW q \in Requests PROVE RequestInv(q)'
    BY <1>1, <2>1 DEF PrecedenceInv, RequestInv
  <2> QED BY <1>1, <2>1 DEF PrecedenceInv, ReviewPrecedesMoney
<1>2. ASSUME NEW r \in Requests, NEW to \in Statuses, LoadMove(r, to) PROVE PrecedenceInv'
  <2>1. RequestInv(r)'
    BY <1>2 DEF LoadMove, RequestInv, PrecedenceInv, TypeOK
  <2> QED BY <1>1, <1>2, <2>1 DEF LoadMove, TypeOK
<1>3. ASSUME NEW r \in Requests, NEW action \in Actions, LoadDecision(r, action)
      PROVE  PrecedenceInv'
  <2> DEFINE to == TargetStatus(action, status)
             legal == to # None /\ CanTransition(status, to)
  <2>1. /\ req'[r].loaded = status /\ visited' = visited
        /\ req'[r].pc = IF legal THEN "move" ELSE "decide"
        /\ req'[r].target = IF legal THEN to ELSE None
    BY <1>3 DEF LoadDecision, TypeOK
  <2> HIDE DEF to
  <2>2. RequestInv(r)'
    BY <2>1 DEF RequestInv, PrecedenceInv
  <2> QED BY <1>1, <1>3, <2>2 DEF LoadDecision, TypeOK
<1>4. ASSUME NEW r \in Requests, CommitMove(r) \/ CommitRollback(r) PROVE PrecedenceInv'
  <2>1. Committed(r)
    BY <1>4, CommitsCommit
  <2>2. PICK from \in Statuses, to \in Statuses :
          from = req[r].loaded /\ to = req[r].target
    BY <2>1 DEF Committed, TypeOK, Request
  <2>3. /\ status' = to /\ visited' = visited \cup {to} /\ from \in visited
        /\ cameFrom' = [cameFrom EXCEPT ![to] = from]
    BY <2>1, <2>2 DEF Committed, Move, PrecedenceInv, RequestInv
  <2>4. \A s \in Statuses : cameFrom'[s] # None => cameFrom'[s] \in visited'
    BY <2>3 DEF PrecedenceInv, TypeOK
  <2>5. ASSUME NEW q \in Requests PROVE RequestInv(q)'
    <3>1. CASE q = r
      BY <2>1, <2>2, <2>3, <3>1 DEF Committed, RequestInv
    <3>2. CASE q # r
      BY <2>1, <2>3, <3>2 DEF Committed, RequestInv, PrecedenceInv
    <3> QED BY <3>1, <3>2
  <2>6. /\ "rejected" \in visited' => "analyst_review" \in visited'
        /\ ReviewPrecedesMoney'
    <3>1. CASE to \in visited
      <4>1. visited' = visited
        BY <2>3, <3>1
      <4> QED BY <4>1 DEF PrecedenceInv, ReviewPrecedesMoney
    <3>2. CASE CanTransition(from, to)
      BY <2>3, <3>2, VisitKeepsOrder
    <3> QED BY <2>1, <2>2, <3>1, <3>2 DEF Committed, PrecedenceInv, RequestInv
  <2> QED BY <2>3, <2>4, <2>5, <2>6 DEF PrecedenceInv
<1>5. ASSUME NEW r \in Requests, LoadRollback(r) PROVE PrecedenceInv'
  <2>1. RequestInv(r)'
    BY <1>5 DEF LoadRollback, RequestInv, PrecedenceInv, TypeOK
  <2> QED BY <1>1, <1>5, <2>1 DEF LoadRollback, TypeOK
<1>6. ASSUME NEW r \in Requests, ReadHistory(r) PROVE PrecedenceInv'
  <2> DEFINE previous == cameFrom[req[r].loaded]
             undo == [req[r] EXCEPT !.pc = "undo", !.target = previous]
  <2>1. req[r] \in Request /\ req[r].loaded \in Statuses /\ req[r].loaded \in visited
    BY <1>6 DEF ReadHistory, TypeOK, Request, PrecedenceInv, RequestInv
  <2>2. previous # None => previous \in visited
    BY <2>1 DEF PrecedenceInv
  <2>3. undo.pc = "undo" /\ undo.loaded = req[r].loaded /\ undo.target = previous
    BY <2>1 DEF Request
  <2> HIDE DEF undo, previous
  <2>4. req' = [req EXCEPT ![r] = IF previous = None THEN Idle ELSE undo]
    BY <1>6 DEF ReadHistory, undo, previous
  <2>5. visited' = visited
    BY <1>6 DEF ReadHistory
  <2>6. CASE previous = None
    <3>1. req'[r] = Idle
      BY <2>4, <2>6 DEF TypeOK
    <3>2. RequestInv(r)'
      BY <3>1, IdleFacts DEF RequestInv
    <3> QED BY <1>1, <1>6, <2>4, <3>2 DEF ReadHistory, TypeOK
  <2>7. CASE previous # None
    <3>1. req'[r] = undo
      BY <2>4, <2>7 DEF TypeOK
    <3>2. RequestInv(r)'
      BY <2>1, <2>2, <2>3, <2>5, <2>7, <3>1 DEF RequestInv
    <3> QED BY <1>1, <1>6, <2>4, <3>2 DEF ReadHistory, TypeOK
  <2> QED BY <2>6, <2>7
<1>7. ASSUME NEW r \in Requests, InsertDecision(r) \/ Abandon(r) PROVE PrecedenceInv'
  <2>1. /\ req' = [req EXCEPT ![r] = Idle]
        /\ UNCHANGED <<status, cameFrom, visited>>
    BY <1>7 DEF InsertDecision, Abandon
  <2>2. RequestInv(r)'
    BY <2>1, IdleFacts DEF RequestInv, TypeOK
  <2> QED BY <1>1, <2>1, <2>2 DEF TypeOK
<1>8. CASE UNCHANGED vars
  BY <1>8 DEF vars, PrecedenceInv, RequestInv, ReviewPrecedesMoney
<1> QED BY <1>2, <1>3, <1>4, <1>5, <1>6, <1>7, <1>8 DEF Next, Step

LEMMA PrecedenceInit == Init => PrecedenceInv
<1> SUFFICES ASSUME Init PROVE PrecedenceInv
  OBVIOUS
<1>1. \A r \in Requests : RequestInv(r)
  BY IdleFacts DEF Init, RequestInv
<1> QED BY <1>1 DEF Init, PrecedenceInv, ReviewPrecedesMoney

(* No interleaving of requests, approvals, rollbacks and abandoned         *)
(* requests pays money out before every stage of the review.               *)
THEOREM ReviewFirst == Spec => []ReviewPrecedesMoney
<1>1. PrecedenceInv => ReviewPrecedesMoney
  BY DEF PrecedenceInv
<1> QED BY <1>1, PrecedenceInit, PrecedenceStep, TypeCorrect, PTL DEF Spec

(* A rollback only ever returns to a status the application has had.       *)
THEOREM RollbackInHistory == Spec => []RollbackStaysInHistory
<1>1. PrecedenceInv => RollbackStaysInHistory
  BY DEF PrecedenceInv, RequestInv, RollbackStaysInHistory
<1> QED BY <1>1, PrecedenceInit, PrecedenceStep, TypeCorrect, PTL DEF Spec

-----------------------------------------------------------------------------
(* Documents.  The three properties say what holds of a document that no   *)
(* two requests have met on; what makes them inductive is what each open   *)
(* request may rely on: the status it has loaded is still the row's, the   *)
(* flags it is going to clear are still those that are set, and a delete   *)
(* meets no citation.  Only approvals share a document, and they leave it  *)
(* reviewed or approved.                                                   *)

Phases ==
  {<<"idle", "none">>, <<"saved", "upload">>, <<"working", "extract">>,
   <<"superseding", "extract">>, <<"superseding", "review">>,
   <<"locked", "approve">>, <<"unlocked", "approve">>,
   <<"pending", "delete">>, <<"unfiled", "delete">>}
  \cup {"loaded"} \X {"extract", "review", "approve", "reject", "delete"}

PhaseOK(s) == <<s.pc, s.op>> \in Phases /\ (s.pc = "idle" => s.doc = NoDoc)

(* What a request s relies on while it holds d. *)
Relies(s, d) ==
  /\ s.op = "upload" => docStatus[d] = "absent" /\ d \in files /\ versions[d] = 0
  /\ s.op = "approve" => s.seen = "reviewed" /\ docStatus[d] \in {"reviewed", "approved"}
  /\ s.op \in {"extract", "review", "reject"} =>
       docStatus[d] = s.seen /\ s.seen \notin {"approved", "absent"}
  /\ s.op = "extract" /\ s.pc # "loaded" => s.seen = "processing"
  /\ s.op = "review" => s.seen \in Reviewable
  /\ s.op = "reject" => s.seen \in Rejectable
  /\ s.pc = "superseding" => s.stale = current[d] /\ d \in files
  /\ s.op = "delete" => period # d /\ Stored(d)
  /\ s.op = "delete" /\ s.pc = "loaded" => s.seen = docStatus[d]
  /\ s.op = "delete" /\ s.pc # "loaded" => docStatus[d] = "deletion_pending"

RowOK(d) ==
  /\ period = d => docStatus[d] = "approved"
  /\ docStatus[d] \notin {"absent", "deletion_pending", "processing", "failed"} => d \in files
  /\ Stored(d) /\ versions[d] > 0 => current[d] = {versions[d]}

DocumentOK(d) ==
  /\ RowOK(d)
  /\ \A r \in DocRequests : dr[r].doc = d => Relies(dr[r], d)
  /\ \A q, r \in DocRequests :
       q # r /\ dr[q].doc = d /\ dr[r].doc = d => dr[q].op = "approve" /\ dr[r].op = "approve"

DocumentsInv ==
  /\ DocumentsTypeOK
  /\ \A r \in DocRequests : PhaseOK(dr[r])
  /\ \A d \in Docs \ entangled : DocumentOK(d)

-----------------------------------------------------------------------------
LEMMA NoRequestFacts ==
  /\ NoRequest \in DocRequest /\ PhaseOK(NoRequest)
  /\ NoRequest.pc = "idle" /\ NoRequest.op = "none" /\ NoRequest.doc = NoDoc
  BY DEF NoRequest, DocRequest, PhaseOK, Phases

Untouched(d) ==
  /\ docStatus'[d] = docStatus[d] /\ (d \in files' <=> d \in files)
  /\ current'[d] = current[d] /\ versions'[d] = versions[d]

(* A step of r touches one document, d, and what holds of the others stays. *)
LEMMA OtherDocuments ==
  ASSUME DocumentsInv, NEW r \in DocRequests, NEW d \in Docs,
         \A q \in DocRequests \ {r} : dr'[q] = dr[q], dr'[r].doc \in {d, NoDoc},
         \A e \in Docs \ {d} : Untouched(e),
         period' \in {period, d},
         NEW e \in Docs \ entangled, e # d
  PROVE  DocumentOK(e)'
<1>1. DocumentOK(e) /\ Untouched(e) /\ (period' = e => period = e)
  BY DEF DocumentsInv
<1>2. \A q \in DocRequests : dr'[q].doc = e => q # r /\ dr'[q] = dr[q]
  OBVIOUS
<1>3. RowOK(e)'
  BY <1>1 DEF DocumentOK, RowOK, Untouched, Stored
<1>4. ASSUME NEW q \in DocRequests, dr'[q].doc = e PROVE Relies(dr[q], e)'
  <2>1. Relies(dr[q], e) /\ dr'[q] = dr[q]
    BY <1>1, <1>2, <1>4 DEF DocumentOK
  <2> QED BY <1>1, <2>1 DEF Relies, Untouched, Stored
<1> QED BY <1>1, <1>2, <1>3, <1>4 DEF DocumentOK

(* A step of the request r on the document it holds. *)
LEMMA OwnDocument ==
  ASSUME DocumentsInv, DocumentsTypeOK', NEW r \in DocRequests, NEW d \in Docs,
         dr[r].doc = d,
         \A q \in DocRequests \ {r} : dr'[q] = dr[q],
         \/ dr'[r] = NoRequest
         \/ dr'[r].op = dr[r].op /\ dr'[r].doc = d /\ PhaseOK(dr'[r]),
         \A e \in Docs \ {d} : Untouched(e),
         period' \in {period, d}, entangled' = entangled,
         DocumentOK(d) =>
           /\ RowOK(d)'
           /\ dr'[r].doc = d => Relies(dr[r], d)'
           /\ dr[r].op = "approve" => docStatus'[d] \in {"reviewed", "approved"}
  PROVE  DocumentsInv'
<1>1. \A q \in DocRequests : PhaseOK(dr'[q])
  BY NoRequestFacts DEF DocumentsInv
<1>2. dr'[r].doc \in {d, NoDoc} /\ d # NoDoc
  BY NoRequestFacts
<1>3. ASSUME d \notin entangled PROVE DocumentOK(d)'
  <2>1. DocumentOK(d)
    BY <1>3 DEF DocumentsInv
  <2>2. ASSUME NEW q \in DocRequests, q # r, dr'[q].doc = d
        PROVE  /\ dr'[q] = dr[q] /\ dr[q].op = "approve" /\ dr[r].op = "approve"
               /\ Relies(dr[q], d)'
    <3>1. dr'[q] = dr[q] /\ dr[q].op = "approve" /\ dr[r].op = "approve" /\ Relies(dr[q], d)
      BY <2>1, <2>2 DEF DocumentOK
    <3>2. dr[q].pc # "superseding"
      BY <3>1 DEF DocumentsInv, PhaseOK, Phases
    <3>3. docStatus'[d] \in {"reviewed", "approved"}
      BY <2>1, <3>1
    <3> QED BY <3>1, <3>2, <3>3 DEF Relies
  <2>3. ASSUME NEW q \in DocRequests, dr'[q].doc = d PROVE Relies(dr[q], d)'
    BY <2>1, <2>2, <2>3
  <2>4. dr'[r].doc = d => dr'[r].op = dr[r].op
    BY <1>2, NoRequestFacts
  <2> QED BY <2>1, <2>2, <2>3, <2>4 DEF DocumentOK
<1>4. \A e \in Docs \ entangled' : DocumentOK(e)'
  BY <1>2, <1>3, OtherDocuments
<1> QED BY <1>1, <1>4 DEF DocumentsInv

-----------------------------------------------------------------------------
LEMMA DocumentsTypeStep ==
  ASSUME DocumentsTypeOK, NEW r \in DocRequests, DocumentStep(r)
  PROVE  DocumentsTypeOK'
<1> USE NoRequestFacts DEF DocumentsTypeOK
<1>0. dr[r] \in DocRequest /\ (dr[r].pc # "idle" => dr[r].doc \in Docs)
  BY DEF DocRequest
<1>1. ASSUME NEW d \in Docs, SaveFile(r, d) PROVE DocumentsTypeOK'
  BY <1>1 DEF SaveFile, DocRequest, NoRequest
<1>2. ASSUME NEW d \in Docs, NEW op \in {"extract", "review", "approve", "reject", "delete"},
             LoadDocument(r, op, d) PROVE DocumentsTypeOK'
  <2>1. [NoRequest EXCEPT !.pc = "loaded", !.op = op, !.doc = d, !.seen = docStatus[d]]
          \in DocRequest
    BY DEF DocRequest, NoRequest
  <2>2. entangled' \subseteq Docs
    BY <1>2 DEF LoadDocument, Entangle
  <2> QED BY <1>2, <2>1, <2>2 DEF LoadDocument
<1>3. CASE InsertDocument(r)
  BY <1>3 DEF InsertDocument, At, Answer, DocStatuses
<1>4. CASE UploadFails(r)
  BY <1>4 DEF UploadFails, At, Answer
<1>5. CASE BeginExtract(r)
  <2>1. docStatus' \in [Docs -> DocStatuses \cup {"absent"}]
    BY <1>5 DEF BeginExtract, WriteStatus, DocStatuses
  <2>2. [dr[r] EXCEPT !.pc = "working", !.seen = docStatus'[dr[r].doc]] \in DocRequest
    BY <1>0, <1>5, <2>1 DEF BeginExtract, At, DocRequest
  <2> QED BY <1>0, <1>5, <2>1, <2>2 DEF BeginExtract, At
<1>6. CASE ExtractFails(r)
  BY <1>6 DEF ExtractFails, Answer, DocStatuses
<1>7. CASE Supersede(r)
  <2>1. [dr[r] EXCEPT !.pc = "superseding", !.stale = current[dr[r].doc]] \in DocRequest
    BY <1>0, <1>7 DEF Supersede, At, DocRequest
  <2> QED BY <1>0, <1>7, <2>1 DEF Supersede, At
<1>8. CASE FinishExtract(r) \/ FinishReview(r)
  <2>1. PICK d \in Docs : d = dr[r].doc
    BY <1>0, <1>8 DEF FinishExtract, FinishReview, At
  <2>2. docStatus' \in [Docs -> DocStatuses \cup {"absent"}]
    BY <1>8 DEF FinishExtract, FinishReview, WriteStatus, DocStatuses
  <2>3. /\ versions' = [versions EXCEPT ![d] = @ + 1] /\ versions[d] < MaxVersions
        /\ current' = [current EXCEPT ![d] = (@ \ dr[r].stale) \cup {versions[d] + 1}]
    BY <1>8, <2>1 DEF FinishExtract, FinishReview, NewVersion
  <2>4. versions[d] \in 0 .. MaxVersions /\ versions[d] + 1 \in 1 .. MaxVersions
    BY <2>3
  <2>5. /\ versions' \in [Docs -> 0 .. MaxVersions]
        /\ current' \in [Docs -> SUBSET (1 .. MaxVersions)]
    BY <2>3, <2>4
  <2>6. ASSUME NEW e \in Docs PROVE current'[e] \subseteq 1 .. versions'[e]
    <3>1. CASE e = d
      <4>1. current'[d] = (current[d] \ dr[r].stale) \cup {versions[d] + 1}
            /\ versions'[d] = versions[d] + 1
        BY <2>3
      <4> QED BY <2>4, <3>1, <4>1
    <3>2. CASE e # d
      BY <2>3, <3>2
    <3> QED BY <3>1, <3>2
  <2> QED BY <1>8, <2>2, <2>5, <2>6 DEF FinishExtract, FinishReview, Answer
<1>9. CASE LockPeriod(r)
  <2>1. ASSUME NEW pc \in {"locked", "unlocked"}
        PROVE  [dr[r] EXCEPT !.pc = pc] \in DocRequest /\ [dr[r] EXCEPT !.pc = pc].doc # NoDoc
    BY <1>0, <1>9 DEF LockPeriod, At, DocRequest
  <2> QED BY <1>9, <2>1 DEF LockPeriod, Goto
<1>10. CASE ApproveAgain(r) \/ DropRequest(r)
  BY <1>10 DEF ApproveAgain, DropRequest, Answer
<1>11. CASE InsertPeriod(r) \/ RestatePeriod(r)
  BY <1>0, <1>11 DEF InsertPeriod, RestatePeriod, WriteStatus, Answer, DocStatuses
<1>12. CASE Reject(r)
  BY <1>12 DEF Reject, WriteStatus, Answer, DocStatuses
<1>13. CASE MarkDeletion(r) \/ DeleteFile(r)
  <2>1. ASSUME NEW pc \in {"pending", "unfiled"}
        PROVE  [dr[r] EXCEPT !.pc = pc] \in DocRequest /\ [dr[r] EXCEPT !.pc = pc].doc # NoDoc
    BY <1>0, <1>13 DEF MarkDeletion, DeleteFile, At, DocRequest
  <2>2. docStatus' \in [Docs -> DocStatuses \cup {"absent"}] /\ files' \subseteq Docs
    BY <1>13 DEF MarkDeletion, DeleteFile, WriteStatus, DocStatuses
  <2> QED BY <1>13, <2>1, <2>2 DEF MarkDeletion, DeleteFile, Goto
<1>14. CASE DeleteRows(r)
  BY <1>14 DEF DeleteRows, Answer
<1> QED BY <1>1, <1>2, <1>3, <1>4, <1>5, <1>6, <1>7, <1>8, <1>9, <1>10, <1>11, <1>12,
           <1>13, <1>14 DEF DocumentStep

-----------------------------------------------------------------------------
LEMMA SaveFileStep ==
  ASSUME DocumentsInv, DocumentsTypeOK', NEW r \in DocRequests, NEW d \in Docs, SaveFile(r, d)
  PROVE  DocumentsInv'
<1>1. /\ docStatus[d] = "absent" /\ versions[d] = 0 /\ \A q \in DocRequests : dr[q].doc # d
      /\ docStatus' = docStatus /\ current' = current /\ versions' = versions
      /\ period' = period /\ entangled' = entangled /\ files' = files \cup {d}
      /\ \A q \in DocRequests \ {r} : dr'[q] = dr[q]
  BY DEF SaveFile, Stored, DocumentsInv, DocumentsTypeOK
<1>2. dr'[r].pc = "saved" /\ dr'[r].op = "upload" /\ dr'[r].doc = d
  BY DEF SaveFile, DocumentsInv, DocumentsTypeOK, NoRequest
<1>3. \A q \in DocRequests : PhaseOK(dr'[q])
  BY <1>1, <1>2 DEF PhaseOK, Phases, DocumentsInv
<1>4. \A e \in Docs \ entangled : e # d => DocumentOK(e)'
  BY <1>1, <1>2, OtherDocuments DEF Untouched
<1>5. ASSUME d \notin entangled PROVE DocumentOK(d)'
  <2>1. RowOK(d)
    BY <1>5 DEF DocumentsInv, DocumentOK
  <2>2. RowOK(d)'
    BY <1>1, <2>1 DEF RowOK, Stored
  <2>3. Relies(dr[r], d)'
    BY <1>1, <1>2 DEF Relies
  <2> QED BY <1>1, <2>2, <2>3 DEF DocumentOK
<1> QED BY <1>1, <1>3, <1>4, <1>5 DEF DocumentsInv

LEMMA LoadDocumentStep ==
  ASSUME DocumentsInv, DocumentsTypeOK', NEW r \in DocRequests, NEW d \in Docs,
         NEW op \in {"extract", "review", "approve", "reject", "delete"},
         LoadDocument(r, op, d)
  PROVE  DocumentsInv'
<1>1. /\ docStatus' = docStatus /\ current' = current /\ versions' = versions
      /\ period' = period /\ files' = files /\ entangled \subseteq entangled'
      /\ Stored(d) /\ Accepts(op, d)
      /\ \A q \in DocRequests \ {r} : dr'[q] = dr[q]
  BY DEF LoadDocument, Entangle, DocumentsInv, DocumentsTypeOK
<1>2. dr'[r].pc = "loaded" /\ dr'[r].op = op /\ dr'[r].doc = d /\ dr'[r].seen = docStatus[d]
  BY DEF LoadDocument, DocumentsInv, DocumentsTypeOK, NoRequest
<1>3. \A q \in DocRequests : PhaseOK(dr'[q])
  BY <1>1, <1>2 DEF PhaseOK, Phases, DocumentsInv
<1>4. \A e \in Docs \ entangled' : e # d => DocumentOK(e)'
  BY <1>1, <1>2, OtherDocuments DEF Untouched
<1>5. ASSUME d \notin entangled' PROVE DocumentOK(d)'
  <2>1. DocumentOK(d)
    BY <1>1, <1>5 DEF DocumentsInv
  <2>2. \A q \in DocRequests \ {r} : dr[q].doc = d => dr[q].op = "approve" /\ op = "approve"
    BY <1>5 DEF LoadDocument, Entangle
  <2>3. RowOK(d)'
    BY <1>1, <2>1 DEF DocumentOK, RowOK, Stored
  <2>4. Relies(dr[r], d)'
    BY <1>1, <1>2 DEF Relies, Accepts, Stored, Reviewable, Rejectable
  <2>5. ASSUME NEW q \in DocRequests, q # r, dr'[q].doc = d PROVE Relies(dr[q], d)'
    <3>1. Relies(dr[q], d) /\ dr'[q] = dr[q]
      BY <1>1, <2>1, <2>5 DEF DocumentOK
    <3> QED BY <1>1, <3>1 DEF Relies, Stored
  <2> QED BY <1>1, <1>2, <2>1, <2>2, <2>3, <2>4, <2>5 DEF DocumentOK
<1> QED BY <1>3, <1>4, <1>5 DEF DocumentsInv

(* An open request holds a document. *)
LEMMA OpenRequest ==
  ASSUME DocumentsInv, NEW r \in DocRequests, dr[r].pc # "idle"
  PROVE  \E d \in Docs : dr[r].doc = d
  BY DEF DocumentsInv, DocumentsTypeOK, DocRequest

LEMMA UploadStep ==
  ASSUME DocumentsInv, DocumentsTypeOK', NEW r \in DocRequests,
         InsertDocument(r) \/ UploadFails(r)
  PROVE  DocumentsInv'
<1>1. PICK d \in Docs : dr[r].doc = d
  BY OpenRequest DEF InsertDocument, UploadFails, At
<1>2. /\ dr[r].pc = "saved" /\ dr[r].op = "upload"
      /\ current' = current /\ versions' = versions /\ period' = period
      /\ entangled' = entangled /\ dr'[r] = NoRequest
      /\ \A q \in DocRequests \ {r} : dr'[q] = dr[q]
  BY DEF InsertDocument, UploadFails, At, Answer, DocumentsInv, DocumentsTypeOK
<1>3. \A e \in Docs \ {d} : Untouched(e)
  BY <1>1, <1>2 DEF InsertDocument, UploadFails, Untouched, DocumentsInv, DocumentsTypeOK
<1>4. \/ docStatus'[d] = "uploaded" /\ files' = files
      \/ docStatus'[d] = docStatus[d] /\ files' = files \ {d}
  BY <1>1 DEF InsertDocument, UploadFails, DocumentsInv, DocumentsTypeOK
<1>5. ASSUME DocumentOK(d) PROVE RowOK(d)'
  <2>1. RowOK(d) /\ docStatus[d] = "absent" /\ d \in files /\ versions[d] = 0
    BY <1>1, <1>2, <1>5 DEF DocumentOK, Relies
  <2> QED BY <1>2, <1>4, <2>1 DEF RowOK, Stored
<1> QED BY <1>1, <1>2, <1>3, <1>5, OwnDocument, NoRequestFacts

LEMMA ExtractStep ==
  ASSUME DocumentsInv, DocumentsTypeOK', NEW r \in DocRequests,
         BeginExtract(r) \/ ExtractFails(r)
  PROVE  DocumentsInv'
<1>1. PICK d \in Docs : dr[r].doc = d
  BY OpenRequest DEF BeginExtract, ExtractFails, At
<1>2. /\ dr[r].op = "extract"
      /\ files' = files /\ current' = current /\ versions' = versions
      /\ period' = period /\ entangled' = entangled
      /\ \A q \in DocRequests \ {r} : dr'[q] = dr[q]
      /\ \A e \in Docs \ {d} : docStatus'[e] = docStatus[e]
  BY <1>1 DEF BeginExtract, ExtractFails, At, WriteStatus, Answer, DocumentsInv, DocumentsTypeOK
<1>3. ASSUME DocumentOK(d)
      PROVE  RowOK(d) /\ docStatus[d] = dr[r].seen /\ period # d /\ Stored(d)
  BY <1>1, <1>2, <1>3 DEF DocumentOK, RowOK, Relies, Stored
<1>4. CASE BeginExtract(r)
  <2>1. dr'[r] = [dr[r] EXCEPT !.pc = "working", !.seen = docStatus'[d]]
    BY <1>1, <1>4 DEF BeginExtract, DocumentsInv, DocumentsTypeOK
  <2>2. /\ dr'[r].op = "extract" /\ dr'[r].doc = d /\ dr'[r].pc = "working"
        /\ dr'[r].seen = docStatus'[d]
    BY <1>1, <1>2, <2>1 DEF DocumentsInv, DocumentsTypeOK, DocRequest
  <2>3. PhaseOK(dr'[r])
    BY <2>2 DEF PhaseOK, Phases
  <2>4. DocumentOK(d) => docStatus'[d] = "processing"
    BY <1>1, <1>3, <1>4 DEF BeginExtract, WriteStatus, DocumentsInv, DocumentsTypeOK
  <2>5. DocumentOK(d) => RowOK(d)' /\ Relies(dr[r], d)'
    BY <1>2, <1>3, <2>2, <2>4 DEF RowOK, Relies, Stored
  <2> QED BY <1>1, <1>2, <2>2, <2>3, <2>5, OwnDocument DEF Untouched
<1>5. CASE ExtractFails(r)
  <2>1. dr'[r] = NoRequest /\ docStatus'[d] = "failed"
    BY <1>1, <1>5 DEF ExtractFails, Answer, DocumentsInv, DocumentsTypeOK
  <2>2. DocumentOK(d) => RowOK(d)'
    BY <1>2, <1>3, <2>1 DEF RowOK, Stored
  <2> QED BY <1>1, <1>2, <2>1, <2>2, OwnDocument, NoRequestFacts DEF Untouched
<1> QED BY <1>4, <1>5

LEMMA SupersedeStep ==
  ASSUME DocumentsInv, DocumentsTypeOK', NEW r \in DocRequests, Supersede(r)
  PROVE  DocumentsInv'
<1>1. PICK d \in Docs : dr[r].doc = d
  BY OpenRequest DEF Supersede, At
<1>2. /\ docStatus' = docStatus /\ files' = files /\ current' = current
      /\ versions' = versions /\ period' = period /\ entangled' = entangled
      /\ \A q \in DocRequests \ {r} : dr'[q] = dr[q]
      /\ dr'[r] = [dr[r] EXCEPT !.pc = "superseding", !.stale = current[d]]
      /\ dr[r].op \in {"extract", "review"}
      /\ dr[r].op = "extract" => dr[r].pc = "working" /\ d \in files
  BY <1>1 DEF Supersede, At, DocumentsInv, DocumentsTypeOK
<1>3. /\ dr'[r].op = dr[r].op /\ dr'[r].doc = d /\ dr'[r].pc = "superseding"
      /\ dr'[r].seen = dr[r].seen /\ dr'[r].stale = current[d]
  BY <1>1, <1>2 DEF DocumentsInv, DocumentsTypeOK, DocRequest
<1>4. PhaseOK(dr'[r])
  BY <1>2, <1>3 DEF PhaseOK, Phases
<1>5. ASSUME DocumentOK(d) PROVE RowOK(d)' /\ Relies(dr[r], d)'
  <2>1. RowOK(d) /\ Relies(dr[r], d)
    BY <1>1, <1>5 DEF DocumentOK
  <2>2. d \in files
    BY <1>2, <2>1 DEF RowOK, Relies, Reviewable
  <2> QED BY <1>2, <1>3, <2>1, <2>2 DEF RowOK, Relies, Stored
<1> QED BY <1>1, <1>2, <1>3, <1>4, <1>5, OwnDocument DEF Untouched

(* The extraction that is inserted becomes the only current one, for the   *)
(* flags the request clears are all that are set.                          *)
LEMMA FinishStep ==
  ASSUME DocumentsInv, DocumentsTypeOK', NEW r \in DocRequests,
         FinishExtract(r) \/ FinishReview(r)
  PROVE  DocumentsInv'
<1>1. PICK d \in Docs : dr[r].doc = d
  BY OpenRequest DEF FinishExtract, FinishReview, At
<1>2. /\ files' = files /\ period' = period /\ entangled' = entangled
      /\ dr'[r] = NoRequest /\ \A q \in DocRequests \ {r} : dr'[q] = dr[q]
      /\ dr[r].pc = "superseding" /\ dr[r].op \in {"extract", "review"}
  BY DEF FinishExtract, FinishReview, At, Answer, DocumentsInv, DocumentsTypeOK
<1>3. PICK outcome \in {"needs_review", "failed", "reviewed"} : WriteStatus(r, outcome)
  BY DEF FinishExtract, FinishReview
<1>4. /\ versions' = [versions EXCEPT ![d] = @ + 1]
      /\ current' = [current EXCEPT ![d] = (@ \ dr[r].stale) \cup {versions[d] + 1}]
  BY <1>1 DEF FinishExtract, FinishReview, NewVersion
<1>5. \A e \in Docs \ {d} : Untouched(e)
  BY <1>1, <1>2, <1>3, <1>4 DEF WriteStatus, Untouched, DocumentsInv, DocumentsTypeOK
<1>6. ASSUME DocumentOK(d) PROVE RowOK(d)'
  <2>1. RowOK(d) /\ docStatus[d] = dr[r].seen /\ period # d
        /\ dr[r].stale = current[d] /\ d \in files
    BY <1>1, <1>2, <1>6 DEF DocumentOK, RowOK, Relies
  <2>2. current'[d] = {versions'[d]}
    BY <1>4, <2>1 DEF DocumentsInv, DocumentsTypeOK
  <2> QED BY <1>2, <2>1, <2>2 DEF RowOK
<1> QED BY <1>1, <1>2, <1>5, <1>6, OwnDocument, NoRequestFacts

LEMMA PeriodStep ==
  ASSUME DocumentsInv, DocumentsTypeOK', NEW r \in DocRequests,
         LockPeriod(r) \/ InsertPeriod(r) \/ RestatePeriod(r)
  PROVE  DocumentsInv'
<1>1. PICK d \in Docs : dr[r].doc = d
  BY OpenRequest DEF LockPeriod, InsertPeriod, RestatePeriod, At
<1>2. /\ files' = files /\ current' = current /\ versions' = versions
      /\ entangled' = entangled /\ \A q \in DocRequests \ {r} : dr'[q] = dr[q]
      /\ dr[r].op = "approve"
  BY DEF LockPeriod, InsertPeriod, RestatePeriod, At, Goto, Answer, PhaseOK, Phases,
         DocumentsInv, DocumentsTypeOK
<1>3. ASSUME DocumentOK(d)
      PROVE  /\ RowOK(d) /\ Relies(dr[r], d) /\ dr[r].seen = "reviewed"
             /\ docStatus[d] \in {"reviewed", "approved"}
  BY <1>1, <1>2, <1>3 DEF DocumentOK, Relies
<1>4. CASE LockPeriod(r)
  <2>1. /\ docStatus' = docStatus /\ period' = period
        /\ dr'[r] = [dr[r] EXCEPT !.pc = IF period = NoDoc THEN "unlocked" ELSE "locked"]
    BY <1>4 DEF LockPeriod, Goto, DocumentsInv, DocumentsTypeOK
  <2>2. /\ dr'[r].op = "approve" /\ dr'[r].doc = d /\ dr'[r].seen = dr[r].seen
        /\ dr'[r].pc \in {"locked", "unlocked"}
    BY <1>1, <1>2, <2>1 DEF DocumentsInv, DocumentsTypeOK, DocRequest
  <2>3. PhaseOK(dr'[r])
    BY <2>2 DEF PhaseOK, Phases
  <2>4. DocumentOK(d) => RowOK(d)' /\ Relies(dr[r], d)'
    BY <1>2, <1>3, <2>1, <2>2 DEF RowOK, Relies, Stored
  <2> QED BY <1>1, <1>2, <1>3, <2>1, <2>2, <2>3, <2>4, OwnDocument DEF Untouched
<1>5. CASE InsertPeriod(r) \/ RestatePeriod(r)
  <2>1. WriteStatus(r, "approved") /\ period' = d /\ dr'[r] = NoRequest
    BY <1>1, <1>5 DEF InsertPeriod, RestatePeriod, Answer, DocumentsInv, DocumentsTypeOK
  <2>2. \A e \in Docs \ {d} : Untouched(e)
    BY <1>1, <1>2, <2>1 DEF WriteStatus, Untouched, DocumentsInv, DocumentsTypeOK
  <2>3. DocumentOK(d) => docStatus'[d] = "approved"
    BY <1>1, <1>3, <2>1 DEF WriteStatus, DocumentsInv, DocumentsTypeOK
  <2>4. DocumentOK(d) => RowOK(d)'
    BY <1>2, <1>3, <2>1, <2>3 DEF RowOK, Stored
  <2> QED BY <1>1, <1>2, <2>1, <2>2, <2>3, <2>4, OwnDocument, NoRequestFacts
<1> QED BY <1>4, <1>5

LEMMA RejectStep ==
  ASSUME DocumentsInv, DocumentsTypeOK', NEW r \in DocRequests, Reject(r)
  PROVE  DocumentsInv'
<1>1. PICK d \in Docs : dr[r].doc = d
  BY OpenRequest DEF Reject, At
<1>2. /\ files' = files /\ current' = current /\ versions' = versions
      /\ period' = period /\ entangled' = entangled /\ dr[r].op = "reject"
      /\ dr'[r] = NoRequest /\ \A q \in DocRequests \ {r} : dr'[q] = dr[q]
      /\ WriteStatus(r, "rejected")
  BY DEF Reject, At, Answer, DocumentsInv, DocumentsTypeOK
<1>3. \A e \in Docs \ {d} : Untouched(e)
  BY <1>1, <1>2 DEF WriteStatus, Untouched, DocumentsInv, DocumentsTypeOK
<1>4. ASSUME DocumentOK(d) PROVE RowOK(d)'
  <2>1. RowOK(d) /\ docStatus[d] \in Rejectable
    BY <1>1, <1>2, <1>4 DEF DocumentOK, Relies
  <2>2. docStatus'[d] \in {"rejected", docStatus[d]}
    BY <1>1, <1>2 DEF WriteStatus, DocumentsInv, DocumentsTypeOK
  <2> QED BY <1>2, <2>1, <2>2 DEF RowOK, Rejectable, Stored
<1> QED BY <1>1, <1>2, <1>3, <1>4, OwnDocument, NoRequestFacts

LEMMA DeleteStep ==
  ASSUME DocumentsInv, DocumentsTypeOK', NEW r \in DocRequests,
         MarkDeletion(r) \/ DeleteFile(r) \/ DeleteRows(r)
  PROVE  DocumentsInv'
<1>1. PICK d \in Docs : dr[r].doc = d
  BY OpenRequest DEF MarkDeletion, DeleteFile, DeleteRows, At
<1>2. /\ versions' = versions /\ period' = period /\ entangled' = entangled
      /\ \A q \in DocRequests \ {r} : dr'[q] = dr[q]
      /\ dr[r].op = "delete"
  <2>1. dr[r].pc \in {"pending", "unfiled"} => dr[r].op = "delete"
    BY DEF PhaseOK, Phases, DocumentsInv
  <2>2. dr[r].op = "delete"
    BY <2>1 DEF MarkDeletion, DeleteFile, DeleteRows, At
  <2>3. \A q \in DocRequests \ {r} : dr'[q] = dr[q]
    BY DEF MarkDeletion, DeleteFile, DeleteRows, Goto, Answer, DocumentsInv, DocumentsTypeOK
  <2> QED BY <2>2, <2>3 DEF MarkDeletion, DeleteFile, DeleteRows
<1>3. \A e \in Docs \ {d} : Untouched(e)
  <2>1. \A e \in Docs \ {d} : docStatus'[e] = docStatus[e]
    BY <1>1 DEF MarkDeletion, DeleteFile, DeleteRows, WriteStatus, DocumentsInv, DocumentsTypeOK
  <2>2. \A e \in Docs \ {d} : current'[e] = current[e] /\ (e \in files' <=> e \in files)
    BY <1>1 DEF MarkDeletion, DeleteFile, DeleteRows, DocumentsInv, DocumentsTypeOK
  <2> QED BY <1>2, <2>1, <2>2 DEF Untouched
<1>4. ASSUME DocumentOK(d)
      PROVE  /\ RowOK(d) /\ Relies(dr[r], d) /\ period # d /\ Stored(d)
             /\ dr[r].pc = "loaded" => dr[r].seen = docStatus[d]
             /\ dr[r].pc # "loaded" => docStatus[d] = "deletion_pending"
  BY <1>1, <1>2, <1>4 DEF DocumentOK, Relies
<1>5. CASE MarkDeletion(r) \/ DeleteFile(r)
  <2>1. PICK pc \in {"pending", "unfiled"} : dr'[r] = [dr[r] EXCEPT !.pc = pc]
    BY <1>5 DEF MarkDeletion, DeleteFile, Goto, DocumentsInv, DocumentsTypeOK
  <2>2. /\ dr'[r].op = "delete" /\ dr'[r].doc = d /\ dr'[r].pc \in {"pending", "unfiled"}
    BY <1>1, <1>2, <2>1 DEF DocumentsInv, DocumentsTypeOK, DocRequest
  <2>3. PhaseOK(dr'[r])
    BY <2>2 DEF PhaseOK, Phases
  <2>4. current' = current
    BY <1>5 DEF MarkDeletion, DeleteFile
  <2>5. DocumentOK(d) => docStatus'[d] = "deletion_pending"
    BY <1>1, <1>4, <1>5 DEF MarkDeletion, DeleteFile, At, WriteStatus, DocumentsInv,
                            DocumentsTypeOK
  <2>6. DocumentOK(d) => RowOK(d)' /\ Relies(dr[r], d)'
    BY <1>2, <1>4, <2>2, <2>4, <2>5 DEF RowOK, Relies, Stored
  <2> QED BY <1>1, <1>2, <1>3, <2>2, <2>3, <2>6, OwnDocument
<1>6. CASE DeleteRows(r)
  <2>1. dr'[r] = NoRequest /\ docStatus'[d] = "absent"
    BY <1>1, <1>6 DEF DeleteRows, Answer, DocumentsInv, DocumentsTypeOK
  <2>2. DocumentOK(d) => RowOK(d)'
    BY <1>2, <1>4, <2>1 DEF RowOK, Stored
  <2> QED BY <1>1, <1>2, <1>3, <2>1, <2>2, OwnDocument, NoRequestFacts
<1> QED BY <1>5, <1>6

LEMMA AnswerStep ==
  ASSUME DocumentsInv, DocumentsTypeOK', NEW r \in DocRequests,
         ApproveAgain(r) \/ DropRequest(r)
  PROVE  DocumentsInv'
<1>1. PICK d \in Docs : dr[r].doc = d
  BY OpenRequest DEF ApproveAgain, DropRequest, At
<1>2. /\ docStatus' = docStatus /\ files' = files /\ current' = current
      /\ versions' = versions /\ period' = period /\ entangled' = entangled
      /\ dr'[r] = NoRequest /\ \A q \in DocRequests \ {r} : dr'[q] = dr[q]
  BY DEF ApproveAgain, DropRequest, Answer, DocumentsInv, DocumentsTypeOK
<1>3. DocumentOK(d) =>
        RowOK(d)' /\ (dr[r].op = "approve" => docStatus'[d] \in {"reviewed", "approved"})
  BY <1>1, <1>2 DEF DocumentOK, RowOK, Relies, Stored
<1> QED BY <1>1, <1>2, <1>3, OwnDocument, NoRequestFacts DEF Untouched

LEMMA DocumentsInvCorrect == DocumentsSpec => []DocumentsInv
<1>1. DocumentsInit => DocumentsInv
  BY NoRequestFacts
     DEF DocumentsInit, DocumentsInv, DocumentsTypeOK, DocumentOK, RowOK, Stored
<1>2. DocumentsInv /\ [DocumentsNext]_docVars => DocumentsInv'
  <2>1. DocumentsInv /\ UNCHANGED docVars => DocumentsInv'
    BY DEF docVars, DocumentsInv, DocumentsTypeOK, DocumentOK, RowOK, Relies, Stored
  <2>2. ASSUME DocumentsInv, NEW r \in DocRequests, DocumentStep(r) PROVE DocumentsInv'
    <3>1. DocumentsTypeOK'
      BY <2>2, DocumentsTypeStep DEF DocumentsInv
    <3> QED BY <2>2, <3>1, SaveFileStep, LoadDocumentStep, UploadStep, ExtractStep,
               SupersedeStep, FinishStep, PeriodStep, RejectStep, DeleteStep, AnswerStep
            DEF DocumentStep
  <2> QED BY <2>1, <2>2 DEF DocumentsNext
<1> QED BY <1>1, <1>2, PTL DEF DocumentsSpec

(* The rows of the documents of one period keep their type.                *)
THEOREM DocumentsTyped == DocumentsSpec => []DocumentsTypeOK
BY DocumentsInvCorrect, PTL DEF DocumentsInv

(* For every number of documents and of requests: the financials of the    *)
(* period rest on an approved document whose file is there.                *)
THEOREM PeriodBacked == DocumentsSpec => []PeriodIsBacked
<1>1. DocumentsInv => PeriodIsBacked
  BY DEF DocumentsInv, DocumentsTypeOK, DocumentOK, RowOK, PeriodIsBacked
<1> QED BY <1>1, DocumentsInvCorrect, PTL

(* Nothing that can be reviewed or approved lacks its file.                *)
THEOREM FilesKept == DocumentsSpec => []FilesBehindRows
<1>1. DocumentsInv => FilesBehindRows
  BY DEF DocumentsInv, DocumentOK, RowOK, FilesBehindRows
<1> QED BY <1>1, DocumentsInvCorrect, PTL

(* A document has one current extraction, the newest.                      *)
THEOREM NewestCurrent == DocumentsSpec => []NewestIsCurrent
<1>1. DocumentsInv => NewestIsCurrent
  BY DEF DocumentsInv, DocumentOK, RowOK, NewestIsCurrent
<1> QED BY <1>1, DocumentsInvCorrect, PTL
=============================================================================
