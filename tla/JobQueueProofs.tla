--------------------------- MODULE JobQueueProofs ---------------------------
(***************************************************************************)
(* Theorems about JobQueue, for every set of rows, workers, producers and  *)
(* administrators, every max_attempts and every bound.                     *)
(***************************************************************************)
EXTENDS JobQueue, TLAPS

USE JobIdsAssumption, KeysAssumption, PrioritiesAssumption,
    AttemptsAssumption, BoundsAssumption

-----------------------------------------------------------------------------
(* Typing.  The lemmas say what the helpers return.                        *)

LEMMA BackoffType == \A n \in Nat : Backoff(n) \in Int
  BY SMT DEF Backoff

LEMMA SessionType ==
  ASSUME NEW pc \in {"poll", "starting", "handling", "failing"},
         NEW j \in JobIds, NEW row \in Row
  PROVE  /\ Loaded(pc, j, row) \in Session
         /\ Expired(pc, j) \in Session
         /\ Loaded(pc, j, row).job # NoJob
         /\ Expired(pc, j).job # NoJob
  BY DEF Loaded, Expired, Session, Row, Statuses

LEMMA RowStatus ==
  ASSUME NEW row \in Row, NEW st \in Statuses
  PROVE  [row EXCEPT !.status = st] \in Row
  BY DEF Row

LEMMA RowAttempts ==
  ASSUME NEW row \in Row, NEW st \in Statuses, NEW n \in Nat
  PROVE  [row EXCEPT !.status = st, !.attempts = n] \in Row
  BY DEF Row

LEMMA RowAvailable ==
  ASSUME NEW row \in Row, NEW st \in Statuses, NEW t \in Int
  PROVE  [row EXCEPT !.status = st, !.available = t] \in Row
  BY DEF Row

LEMMA RowReset ==
  ASSUME NEW row \in Row, NEW st \in Statuses, NEW n \in Nat, NEW t \in Int
  PROVE  [row EXCEPT !.status = st, !.attempts = n, !.available = t] \in Row
  BY DEF Row

LEMMA StatusFacts ==
  /\ {"absent", "running", "succeeded", "retrying", "dead", "queued", "canceled"}
       \subseteq Statuses
  /\ \A old, new, stored \in Statuses : Flushed(old, new, stored) \in Statuses
  BY DEF Statuses, Claimable, Terminal, Flushed

LEMMA SucceededType == \A row \in Row : Succeeded(row) \in Row
  BY StatusFacts, RowStatus DEF Succeeded

LEMMA CanceledType == \A row \in Row : [row EXCEPT !.status = "canceled"] \in Row
  BY StatusFacts, RowStatus

LEMMA StartedRowType ==
  ASSUME NEW s \in Session, NEW row \in Row
  PROVE  StartedRow(s, row) \in Row
<1>1. s.attempts + 1 \in Nat /\ s.status \in Statuses /\ row.status \in Statuses
  BY DEF Session, Row
<1>2. Flushed(s.status, "running", row.status) \in Statuses
  BY <1>1, StatusFacts
<1> QED BY <1>1, <1>2, RowAttempts DEF StartedRow

LEMMA FailedRowType ==
  ASSUME NEW s \in Session, NEW row \in Row, now \in Nat
  PROVE  FailedRow(s, row) \in Row
<1>1. /\ now + Backoff(s.attempts) \in Int
      /\ s.status \in Statuses /\ row.status \in Statuses
  BY BackoffType DEF Session, Row
<1>2. /\ Flushed(s.status, "retrying", row.status) \in Statuses
      /\ Flushed(s.status, "dead", row.status) \in Statuses
  BY <1>1, StatusFacts
<1> QED BY <1>1, <1>2, RowAvailable, RowStatus DEF FailedRow

LEMMA RequeuedRowType ==
  ASSUME NEW e \in Edit, NEW row \in Row, now \in Nat
  PROVE  RequeuedRow(e, row) \in Row
<1>1. Flushed(e.attempts, 0, row.attempts) \in Nat /\ now \in Int
  BY DEF Flushed, Row, Edit
<1> QED BY <1>1, StatusFacts, RowReset DEF RequeuedRow

LEMMA FreshType == Fresh \in Session /\ Fresh.pc = "poll"
  BY DEF Fresh, Session, Statuses

LEMMA CountUp ==
  ASSUME NEW c \in [JobIds -> Nat], NEW j \in JobIds
  PROVE  [c EXCEPT ![j] = @ + 1] \in [JobIds -> Nat]
  OBVIOUS

LEMMA NoEditType == NoEdit \in Edit /\ NoEdit.pc = "idle"
  BY DEF NoEdit, Edit

(* Every variable keeps its type. *)
THEOREM TypeCorrect == Spec => []TypeOK
<1>1. Init => TypeOK
  BY DEF Init, TypeOK, Row, Session, Request, Edit, NoRow, Fresh, NoRequest,
         NoEdit, Statuses
<1>2. TypeOK /\ [Next]_vars => TypeOK'
  <2> SUFFICES ASSUME TypeOK, [Next]_vars PROVE TypeOK'
    OBVIOUS
  <2>1. ASSUME NEW w \in Workers, ClaimNext(w) PROVE TypeOK'
    <3>1. PICK j \in Ready : wk' = [wk EXCEPT ![w] =
             IF @.job = j THEN [@ EXCEPT !.pc = "starting"]
                          ELSE Loaded("starting", j, rows[j])]
      BY <2>1 DEF ClaimNext
    <3>2. j \in JobIds /\ rows[j] \in Row /\ wk[w] \in Session
      BY DEF Ready, TypeOK
    <3>3. /\ Loaded("starting", j, rows[j]) \in Session
          /\ Loaded("starting", j, rows[j]).job # NoJob
      BY <3>2, SessionType
    <3>4. [wk[w] EXCEPT !.pc = "starting"] \in Session
      BY <3>2 DEF Session
    <3>5. CASE wk[w].job = j
      BY <2>1, <3>1, <3>2, <3>4, <3>5 DEF ClaimNext, TypeOK, tableVars, historyVars, Session
    <3>6. CASE wk[w].job # j
      BY <2>1, <3>1, <3>2, <3>3, <3>6 DEF ClaimNext, TypeOK, tableVars, historyVars
    <3> QED BY <3>5, <3>6
  <2>2. ASSUME NEW w \in Workers, EndPass(w) PROVE TypeOK'
    BY <2>2, FreshType DEF EndPass, TypeOK, tableVars, historyVars
  <2>3. ASSUME NEW w \in Workers, Start(w) PROVE TypeOK'
    <3>1. wk[w] \in Session /\ wk[w].job \in JobIds /\ now \in Nat
      BY <2>3 DEF Start, TypeOK, Session
    <3>2. /\ Expired("handling", wk[w].job) \in Session
          /\ Expired("handling", wk[w].job).job # NoJob
      BY <3>1, SessionType DEF TypeOK
    <3>3. rows' \in [JobIds -> Row]
      BY <2>3, <3>1, StartedRowType DEF Start, TypeOK
    <3>4. runs' = [runs EXCEPT ![wk[w].job] = @ + 1]
      BY <2>3 DEF Start
    <3>5. runs' \in [JobIds -> Nat]
      BY <3>1, <3>4, CountUp DEF TypeOK
    <3> QED BY <2>3, <3>2, <3>3, <3>5 DEF Start, TypeOK
  <2>4. ASSUME NEW w \in Workers, Succeed(w) PROVE TypeOK'
    <3>1. wk[w].job \in JobIds /\ now \in Nat
      BY <2>4 DEF Succeed, TypeOK, Session
    <3>2. rows' \in [JobIds -> Row]
      BY <2>4, <3>1, SucceededType DEF Succeed, TypeOK
    <3> QED BY <2>4, <3>2, FreshType DEF Succeed, TypeOK, historyVars
  <2>5. ASSUME NEW w \in Workers, HandlerRaises(w) PROVE TypeOK'
    <3>1. wk[w].job \in JobIds /\ rows[wk[w].job] \in Row
      BY <2>5 DEF HandlerRaises, TypeOK, Session
    <3>2. /\ Loaded("failing", wk[w].job, rows[wk[w].job]) \in Session
          /\ Loaded("failing", wk[w].job, rows[wk[w].job]).job # NoJob
      BY <3>1, SessionType
    <3> QED BY <2>5, <3>2 DEF HandlerRaises, TypeOK, tableVars, historyVars
  <2>6. ASSUME NEW w \in Workers, SucceedThenRaise(w) PROVE TypeOK'
    <3> DEFINE j == wk[w].job
               row == Succeeded(rows[j])
    <3>1. j \in JobIds /\ rows[j] \in Row
      BY <2>6 DEF SucceedThenRaise, TypeOK, Session
    <3>2. row \in Row
      BY <3>1, SucceededType
    <3>3. /\ Loaded("failing", j, row) \in Session
          /\ Loaded("failing", j, row).job # NoJob
      BY <3>1, <3>2, SessionType
    <3> HIDE DEF row
    <3>4. /\ rows' = [rows EXCEPT ![j] = row]
          /\ wk' = [wk EXCEPT ![w] = Loaded("failing", j, row)]
      BY <2>6 DEF SucceedThenRaise, row
    <3> QED BY <2>6, <3>1, <3>2, <3>3, <3>4 DEF SucceedThenRaise, TypeOK, historyVars
  <2>7. ASSUME NEW w \in Workers, FailCommit(w) PROVE TypeOK'
    <3> DEFINE j == wk[w].job
               row == FailedRow(wk[w], rows[j])
    <3>1. j \in JobIds /\ rows[j] \in Row /\ wk[w] \in Session /\ now \in Nat
      BY <2>7 DEF FailCommit, TypeOK, Session
    <3>2. row \in Row
      BY <3>1, FailedRowType
    <3>3. /\ Loaded("poll", j, row) \in Session
          /\ Loaded("poll", j, row).job # NoJob
      BY <3>1, <3>2, SessionType
    <3> HIDE DEF row
    <3>4. /\ rows' = [rows EXCEPT ![j] = row]
          /\ wk' = [wk EXCEPT ![w] = Loaded("poll", j, row)]
      BY <2>7 DEF FailCommit, row
    <3> QED BY <2>7, <3>1, <3>2, <3>3, <3>4 DEF FailCommit, TypeOK
  <2>8. ASSUME NEW w \in Workers, FailNotifyLost(w) PROVE TypeOK'
    <3>1. wk[w].job \in JobIds /\ rows[wk[w].job] \in Row
      BY <2>8 DEF FailNotifyLost, TypeOK, Session
    <3>2. /\ Loaded("poll", wk[w].job, rows[wk[w].job]) \in Session
          /\ Loaded("poll", wk[w].job, rows[wk[w].job]).job # NoJob
      BY <3>1, SessionType
    <3> QED BY <2>8, <3>1, <3>2 DEF FailNotifyLost, TypeOK, tableVars
  <2>9. ASSUME NEW w \in Workers, Crash(w) PROVE TypeOK'
    <3>1. wk[w].job \in JobIds
      BY <2>9 DEF Crash, TypeOK, Session
    <3>2. lost' \subseteq JobIds
      BY <2>9, <3>1 DEF Crash, TypeOK
    <3>3. /\ wk' \in [Workers -> Session]
          /\ \A v \in Workers : wk'[v].pc # "poll" => wk'[v].job # NoJob
      BY <2>9, FreshType DEF Crash, TypeOK
    <3>4. crashes' \in Nat
      BY <2>9 DEF Crash, TypeOK
    <3> QED BY <2>9, <3>2, <3>3, <3>4 DEF Crash, TypeOK, tableVars
  <2>10. ASSUME NEW p \in Producers, EnqueueLookup(p) PROVE TypeOK'
    BY <2>10 DEF EnqueueLookup, TypeOK, Request, tableVars, historyVars
  <2>11. ASSUME NEW p \in Producers, EnqueueInsert(p) PROVE TypeOK'
    BY <2>11 DEF EnqueueInsert, TypeOK, Request, Row, Statuses, Claimable,
                 NoRequest, historyVars
  <2>12. ASSUME NEW a \in Admins, NEW j \in JobIds, CancelRead(a, j) PROVE TypeOK'
    BY <2>12 DEF CancelRead, TypeOK, Edit, tableVars, historyVars
  <2>13. ASSUME NEW a \in Admins, CancelCommit(a) PROVE TypeOK'
    <3>1. adm[a].job \in JobIds /\ rows[adm[a].job] \in Row
      BY <2>13 DEF CancelCommit, TypeOK, Edit
    <3>2. rows' \in [JobIds -> Row]
      BY <2>13, <3>1, CanceledType DEF CancelCommit, TypeOK
    <3> QED BY <2>13, <3>2, NoEditType DEF CancelCommit, TypeOK, historyVars
  <2>14. ASSUME NEW a \in Admins, NEW j \in JobIds, RequeueRead(a, j) PROVE TypeOK'
    BY <2>14 DEF RequeueRead, TypeOK, Edit, Row, tableVars, historyVars
  <2>15. ASSUME NEW a \in Admins, RequeueCommit(a) PROVE TypeOK'
    <3>1. adm[a] \in Edit /\ adm[a].job \in JobIds /\ now \in Nat
      BY <2>15 DEF RequeueCommit, TypeOK, Edit
    <3>2. rows' \in [JobIds -> Row]
      BY <2>15, <3>1, RequeuedRowType DEF RequeueCommit, TypeOK
    <3>3. /\ runs' = [runs EXCEPT ![adm[a].job] = 0]
          /\ replays' = [replays EXCEPT ![adm[a].job] = @ + 1]
      BY <2>15 DEF RequeueCommit
    <3>5. runs' \in [JobIds -> Nat] /\ replays' \in [JobIds -> Nat]
      BY <3>1, <3>3, CountUp DEF TypeOK
    <3>4. /\ adm' \in [Admins -> Edit]
          /\ \A b \in Admins : adm'[b].pc # "idle" => adm'[b].job # NoJob
      BY <2>15, NoEditType DEF RequeueCommit, TypeOK
    <3> QED BY <2>15, <3>2, <3>4, <3>5 DEF RequeueCommit, TypeOK
  <2>16. CASE Tick
    BY <2>16 DEF Tick, TypeOK, historyVars
  <2>17. CASE UNCHANGED vars
    BY <2>17 DEF TypeOK, vars
  <2> QED BY <2>1, <2>2, <2>3, <2>4, <2>5, <2>6, <2>7, <2>8, <2>9, <2>10, <2>11,
             <2>12, <2>13, <2>14, <2>15, <2>16, <2>17
          DEF Next, WorkerStep, AdminStep
<1> QED BY <1>1, <1>2, PTL DEF Spec

-----------------------------------------------------------------------------
(* What each write leaves in the columns the theorems are about.            *)

LEMMA StartedRowFields ==
  ASSUME NEW s \in Session, NEW row \in Row
  PROVE  /\ StartedRow(s, row).status = Flushed(s.status, "running", row.status)
         /\ StartedRow(s, row).attempts = s.attempts + 1
  BY DEF StartedRow, Row

LEMMA SucceededFields ==
  ASSUME NEW row \in Row
  PROVE  Succeeded(row).status = "succeeded" /\ Succeeded(row).attempts = row.attempts
  BY DEF Succeeded, Row

LEMMA FailedRowFields ==
  ASSUME NEW s \in Session, NEW row \in Row
  PROVE  /\ FailedRow(s, row).status = IF s.attempts < MaxAttempts
                                       THEN Flushed(s.status, "retrying", row.status)
                                       ELSE Flushed(s.status, "dead", row.status)
         /\ FailedRow(s, row).attempts = row.attempts
  BY DEF FailedRow, Row

LEMMA RequeuedRowFields ==
  ASSUME NEW e \in Edit, NEW row \in Row
  PROVE  /\ RequeuedRow(e, row).status = "queued"
         /\ RequeuedRow(e, row).attempts = Flushed(e.attempts, 0, row.attempts)
  BY DEF RequeuedRow, Row

LEMMA LoadedFields ==
  ASSUME NEW pc, NEW j, NEW row
  PROVE  /\ Loaded(pc, j, row).pc = pc /\ Loaded(pc, j, row).job = j
         /\ Loaded(pc, j, row).status = row.status
         /\ Loaded(pc, j, row).attempts = row.attempts
  BY DEF Loaded

LEMMA ExpiredFields ==
  ASSUME NEW pc, NEW j
  PROVE  Expired(pc, j).pc = pc /\ Expired(pc, j).job = j
  BY DEF Expired

LEMMA FreshFields == Fresh.pc = "poll" /\ Fresh.job = NoJob
  BY DEF Fresh

-----------------------------------------------------------------------------
(* A row that says "running" has an owner.  That some worker is executing  *)
(* it is not inductive: a worker that loaded the row as "retrying" before  *)
(* another one started it will not overwrite "running" when its own        *)
(* failure is recorded.  What is inductive is that one of its executors    *)
(* has still to load the row or has loaded it as "running".                *)
Owner(w, j) ==
  /\ wk[w].job = j
  /\ \/ wk[w].pc = "handling"
     \/ wk[w].pc = "failing" /\ wk[w].status = "running"

RunningHasOwner ==
  \A j \in JobIds : Status(j) = "running" =>
      j \in lost \/ \E w \in Workers : Owner(w, j)

LEMMA RunningHasOwnerStep ==
  TypeOK /\ RunningHasOwner /\ [Next]_vars => RunningHasOwner'
<1> SUFFICES ASSUME TypeOK, RunningHasOwner, [Next]_vars,
                    NEW j \in JobIds, Status(j)' = "running", j \notin lost'
             PROVE  \E w \in Workers : Owner(w, j)'
  BY DEF RunningHasOwner
<1> USE DEF Status
<1>1. ASSUME Status(j) = "running", j \notin lost
      PROVE  \E w \in Workers : Owner(w, j)
  BY <1>1 DEF RunningHasOwner
<1>2. ASSUME NEW w \in Workers, ClaimNext(w) PROVE \E v \in Workers : Owner(v, j)'
  <2>1. PICK v \in Workers : Owner(v, j)
    BY <1>1, <1>2 DEF ClaimNext, tableVars, historyVars
  <2>2. v # w /\ wk'[v] = wk[v]
    BY <1>2, <2>1 DEF ClaimNext, Owner, TypeOK
  <2> QED BY <2>1, <2>2 DEF Owner
<1>3. ASSUME NEW w \in Workers, EndPass(w) PROVE \E v \in Workers : Owner(v, j)'
  <2>1. PICK v \in Workers : Owner(v, j)
    BY <1>1, <1>3 DEF EndPass, tableVars, historyVars
  <2>2. v # w /\ wk'[v] = wk[v]
    BY <1>3, <2>1 DEF EndPass, Owner, TypeOK
  <2> QED BY <2>1, <2>2 DEF Owner
<1>4. ASSUME NEW w \in Workers, Start(w) PROVE \E v \in Workers : Owner(v, j)'
  <2>1. wk'[w] = Expired("handling", wk[w].job) /\ wk[w].job \in JobIds
    BY <1>4 DEF Start, TypeOK, Session
  <2>2. CASE wk[w].job = j
    <3>1. wk'[w].job = j /\ wk'[w].pc = "handling"
      BY <2>1, <2>2, ExpiredFields
    <3> QED BY <3>1 DEF Owner
  <2>3. CASE wk[w].job # j
    <3>1. rows'[j] = rows[j]
      BY <1>4, <2>3 DEF Start, TypeOK
    <3>2. PICK v \in Workers : Owner(v, j)
      BY <1>1, <1>4, <3>1 DEF Start
    <3>3. wk'[v] = wk[v]
      BY <1>4, <2>3, <3>2 DEF Start, Owner, TypeOK
    <3> QED BY <3>2, <3>3 DEF Owner
  <2> QED BY <2>2, <2>3
<1>5. ASSUME NEW w \in Workers, Succeed(w) \/ SucceedThenRaise(w)
      PROVE  \E v \in Workers : Owner(v, j)'
  <2>1. wk[w].job \in JobIds /\ rows[wk[w].job] \in Row
    BY <1>5 DEF Succeed, SucceedThenRaise, TypeOK, Session
  <2>2. rows' = [rows EXCEPT ![wk[w].job] = Succeeded(@)]
    BY <1>5 DEF Succeed, SucceedThenRaise
  <2>3. wk[w].job # j
    BY <2>1, <2>2, SucceededFields DEF TypeOK
  <2>4. PICK v \in Workers : Owner(v, j)
    BY <1>1, <1>5, <2>2, <2>3 DEF Succeed, SucceedThenRaise, TypeOK, historyVars
  <2>5. wk'[v] = wk[v]
    BY <1>5, <2>3, <2>4 DEF Succeed, SucceedThenRaise, Owner, TypeOK
  <2> QED BY <2>4, <2>5 DEF Owner
<1>6. ASSUME NEW w \in Workers, HandlerRaises(w) PROVE \E v \in Workers : Owner(v, j)'
  <2>1. PICK v \in Workers : Owner(v, j)
    BY <1>1, <1>6 DEF HandlerRaises, tableVars, historyVars
  <2>2. CASE v = w
    <3>1. wk'[w] = Loaded("failing", j, rows[j])
      BY <1>6, <2>1, <2>2 DEF HandlerRaises, Owner, TypeOK
    <3> QED BY <1>6, <3>1, LoadedFields DEF HandlerRaises, Owner, tableVars
  <2>3. CASE v # w
    BY <1>6, <2>1, <2>3 DEF HandlerRaises, Owner, TypeOK
  <2> QED BY <2>2, <2>3
<1>7. ASSUME NEW w \in Workers, FailCommit(w) PROVE \E v \in Workers : Owner(v, j)'
  <2>1. wk[w] \in Session /\ wk[w].job \in JobIds /\ rows[wk[w].job] \in Row
    BY <1>7 DEF FailCommit, TypeOK, Session
  <2>2. rows' = [rows EXCEPT ![wk[w].job] = FailedRow(wk[w], @)]
    BY <1>7 DEF FailCommit
  <2>3. Status(j) = "running" /\ ~Owner(w, j)
    <3>1. CASE wk[w].job = j
      <4>1. rows'[j] = FailedRow(wk[w], rows[j])
        BY <2>1, <2>2, <3>1 DEF TypeOK
      <4>2. \/ rows'[j].status = Flushed(wk[w].status, "retrying", rows[j].status)
            \/ rows'[j].status = Flushed(wk[w].status, "dead", rows[j].status)
        BY <2>1, <3>1, <4>1, FailedRowFields
      <4> QED BY <1>7, <4>2 DEF Flushed, Owner, FailCommit
    <3>2. CASE wk[w].job # j
      BY <2>1, <2>2, <3>2 DEF TypeOK, Owner
    <3> QED BY <3>1, <3>2
  <2>4. PICK v \in Workers : Owner(v, j)
    BY <1>1, <1>7, <2>3 DEF FailCommit
  <2>5. v # w /\ wk'[v] = wk[v]
    BY <1>7, <2>3, <2>4 DEF FailCommit, TypeOK
  <2> QED BY <2>4, <2>5 DEF Owner
<1>8. ASSUME NEW w \in Workers, FailNotifyLost(w) \/ Crash(w)
      PROVE  \E v \in Workers : Owner(v, j)'
  <2>1. j \notin lost /\ rows' = rows
    BY <1>8 DEF FailNotifyLost, Crash, tableVars
  <2>2. PICK v \in Workers : Owner(v, j)
    BY <1>1, <2>1
  <2>3. ~Owner(w, j)
    BY <1>8 DEF FailNotifyLost, Crash, Owner
  <2>4. v # w /\ wk'[v] = wk[v]
    BY <1>8, <2>2, <2>3 DEF FailNotifyLost, Crash, TypeOK
  <2> QED BY <2>2, <2>4 DEF Owner
<1>9. ASSUME NEW p \in Producers, EnqueueLookup(p) \/ EnqueueInsert(p)
      PROVE  \E v \in Workers : Owner(v, j)'
  <2>1. Status(j) = "running" /\ wk' = wk /\ lost' = lost
    <3>1. CASE EnqueueLookup(p)
      BY <3>1 DEF EnqueueLookup, tableVars, historyVars
    <3>2. CASE EnqueueInsert(p)
      <4>1. PICK i \in JobIds, pr \in Priorities : rows' = [rows EXCEPT ![i] =
               [status |-> "queued", attempts |-> 0, available |-> now,
                priority |-> pr, key |-> prod[p].key]]
        BY <3>2 DEF EnqueueInsert
      <4>2. i # j /\ rows'[j] = rows[j]
        BY <4>1 DEF TypeOK
      <4> QED BY <3>2, <4>2 DEF EnqueueInsert, historyVars
    <3> QED BY <1>9, <3>1, <3>2
  <2> QED BY <1>1, <2>1 DEF Owner
<1>10. ASSUME NEW a \in Admins, AdminStep(a) PROVE \E v \in Workers : Owner(v, j)'
  <2>1. wk' = wk /\ lost' = lost
    BY <1>10 DEF AdminStep, CancelRead, CancelCommit, RequeueRead, RequeueCommit,
                 historyVars
  <2>2. Status(j) = "running"
    <3>1. CASE rows' = rows
      BY <3>1
    <3>2. CASE CancelCommit(a)
      <4>1. adm[a].job \in JobIds /\ rows[adm[a].job] \in Row
        BY <3>2 DEF CancelCommit, TypeOK, Edit
      <4>2. [rows[adm[a].job] EXCEPT !.status = "canceled"].status = "canceled"
        BY <4>1 DEF Row
      <4> QED BY <3>2, <4>1, <4>2 DEF CancelCommit, TypeOK
    <3>3. CASE RequeueCommit(a)
      <4>1. adm[a] \in Edit /\ adm[a].job \in JobIds /\ rows[adm[a].job] \in Row
        BY <3>3 DEF RequeueCommit, TypeOK, Edit
      <4>2. rows' = [rows EXCEPT ![adm[a].job] = RequeuedRow(adm[a], @)]
        BY <3>3 DEF RequeueCommit
      <4> QED BY <4>1, <4>2, RequeuedRowFields DEF TypeOK
    <3> QED BY <1>10, <3>1, <3>2, <3>3
            DEF AdminStep, CancelRead, RequeueRead, tableVars
  <2> QED BY <1>1, <2>1, <2>2 DEF Owner
<1>11. CASE Tick \/ UNCHANGED vars
  BY <1>1, <1>11 DEF Tick, vars, historyVars, Owner
<1> QED BY <1>2, <1>3, <1>4, <1>5, <1>6, <1>7, <1>8, <1>9, <1>10, <1>11
        DEF Next, WorkerStep

(* Only a worker that died or lost its outcome leaves a row in "running". *)
THEOREM RunningOwned == Spec => []RunningIsOwnedOrLost
<1>1. Init => RunningHasOwner
  BY DEF Init, RunningHasOwner, Status, NoRow
<1>2. RunningHasOwner => RunningIsOwnedOrLost
  BY DEF RunningHasOwner, RunningIsOwnedOrLost, Owner, Executing
<1> QED BY <1>1, <1>2, TypeCorrect, RunningHasOwnerStep, PTL DEF Spec
=============================================================================
