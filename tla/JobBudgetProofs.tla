-------------------------- MODULE JobBudgetProofs --------------------------
(***************************************************************************)
(* The attempt budget of JobQueue: with one worker and one administrator,  *)
(* max_attempts bounds how often a handler runs between two replays, and   *)
(* a dead row has used its attempts up.                                    *)
(*                                                                         *)
(* Neither is inductive.  The budget holds because the copies a session    *)
(* keeps of a row never fall behind the executions counted, because a row  *)
(* somebody may claim has budget left, and because no copy that says       *)
(* "running" outlives the row's being claimable, which would let a later   *)
(* claim leave the row claimable while its handler runs.                   *)
(*                                                                         *)
(* On that invariant rest the delay between executions, the finality of a  *)
(* success, with one producer and no administrator the uniqueness of       *)
(* idempotency keys, and that JobQueue implements JobLifecycle: a section  *)
(* each.                                                                   *)
(***************************************************************************)
EXTENDS JobQueueProofs, JobRefinement, FiniteSetTheorems

Touched == {"running", "succeeded", "canceled"}

(* The row: its attempts cover the executions, and it has budget left when *)
(* somebody may claim it.                                                  *)
RowInv(j) ==
  /\ runs[j] <= MaxAttempts
  /\ runs[j] <= rows[j].attempts
  /\ Status(j) = "absent" => runs[j] = 0
  /\ Status(j) \in Claimable => runs[j] < MaxAttempts
  /\ Status(j) = "dead" => rows[j].attempts >= MaxAttempts

(* The copy the session s keeps of row j. *)
CopyInv(s, j) ==
  /\ Status(j) # "absent"
  /\ s.pc # "handling" => runs[j] <= s.attempts
  /\ s.pc = "poll" /\ s.status = "running" => Status(j) \in {"running", "canceled"}
  /\ s.pc = "starting" => /\ runs[j] < MaxAttempts
                          /\ s.status # "running"
                          /\ Status(j) \in Claimable \cup {"canceled"}
  /\ s.pc \in {"handling", "failing"} => Status(j) \in Touched
  /\ s.pc = "failing" => s.attempts = rows[j].attempts /\ s.status \in Touched

(* A cancel holds a row that exists, a replay one that is dead. *)
EditInv(e) ==
  /\ e.pc = "cancel"  => Status(e.job) # "absent"
  /\ e.pc = "requeue" => Status(e.job) = "dead"

BudgetInv ==
  /\ \A j \in JobIds : RowInv(j)
  /\ \A w \in Workers, j \in JobIds : wk[w].job = j => CopyInv(wk[w], j)
  /\ \A a \in Admins : EditInv(adm[a])

SingleWorker == \A v, w \in Workers : v = w
SingleAdmin  == \A a, b \in Admins : a = b

-----------------------------------------------------------------------------
(* A step of the only worker, at a row k it may touch, leaves the rest of  *)
(* the invariant alone.                                                    *)
LEMMA WorkerFrame ==
  ASSUME SingleWorker, BudgetInv, NEW w \in Workers, NEW k \in JobIds,
         TypeOK, TypeOK',
         \A j \in JobIds : j # k => rows'[j] = rows[j] /\ runs'[j] = runs[j],
         adm' = adm,
         wk'[w].job \in {k, NoJob},
         RowInv(k)', wk'[w].job = k => CopyInv(wk[w], k)',
         Status(k)' # "absent", Status(k) # "dead"
  PROVE  BudgetInv'
<1>1. ASSUME NEW j \in JobIds PROVE RowInv(j)'
  BY <1>1 DEF BudgetInv, RowInv, Status
<1>2. ASSUME NEW v \in Workers, NEW j \in JobIds, wk'[v].job = j
      PROVE  CopyInv(wk[v], j)'
  <2>1. v = w
    BY DEF SingleWorker
  <2>2. j = k
    BY <1>2, <2>1, JobIdsAssumption
  <2> QED BY <1>2, <2>1, <2>2
<1>3. ASSUME NEW a \in Admins PROVE EditInv(adm[a])'
  <2>1. EditInv(adm[a]) /\ adm'[a] = adm[a]
    BY DEF BudgetInv
  <2>2. CASE adm[a].job = k
    BY <2>1, <2>2 DEF EditInv, Status
  <2>3. CASE adm[a].job # k /\ adm[a].pc # "idle"
    <3>1. adm[a].job \in JobIds
      BY <2>3 DEF TypeOK, Edit
    <3> QED BY <2>1, <2>3, <3>1 DEF EditInv, Status
  <2>4. CASE adm[a].pc = "idle"
    BY <2>1, <2>4 DEF EditInv
  <2> QED BY <2>2, <2>3, <2>4
<1> QED BY <1>1, <1>2, <1>3 DEF BudgetInv

LEMMA WorkerBudget ==
  ASSUME SingleWorker, BudgetInv, TypeOK, TypeOK',
         NEW w \in Workers, WorkerStep(w) \/ Crash(w)
  PROVE  BudgetInv'
<1> USE DEF Status
<1>1. CASE ClaimNext(w)
  <2>1. PICK k \in Ready : wk' = [wk EXCEPT ![w] =
           IF @.job = k THEN [@ EXCEPT !.pc = "starting"]
                        ELSE Loaded("starting", k, rows[k])]
    BY <1>1 DEF ClaimNext
  <2>2. /\ k \in JobIds /\ rows[k].status \in Claimable
        /\ rows' = rows /\ runs' = runs /\ adm' = adm /\ wk[w].pc = "poll"
    BY <1>1 DEF Ready, ClaimNext, tableVars, historyVars
  <2>3. RowInv(k) /\ wk[w] \in Session
    BY <2>2 DEF BudgetInv, TypeOK
  <2>4. /\ wk'[w].pc = "starting" /\ wk'[w].job = k
        /\ runs[k] <= wk'[w].attempts /\ wk'[w].status # "running"
    <3>1. CASE wk[w].job = k
      <4>1. wk'[w] = [wk[w] EXCEPT !.pc = "starting"]
        BY <2>1, <3>1 DEF TypeOK
      <4>2. CopyInv(wk[w], k)
        BY <2>2, <3>1 DEF BudgetInv
      <4> QED BY <2>2, <2>3, <3>1, <4>1, <4>2 DEF CopyInv, Session, Claimable
    <3>2. CASE wk[w].job # k
      <4>1. wk'[w] = Loaded("starting", k, rows[k])
        BY <2>1, <3>2 DEF TypeOK
      <4> QED BY <2>2, <2>3, <4>1, LoadedFields DEF RowInv, Claimable
    <3> QED BY <3>1, <3>2
  <2>5. CopyInv(wk[w], k)'
    BY <2>2, <2>3, <2>4 DEF CopyInv, RowInv, Claimable
  <2> QED BY <2>2, <2>3, <2>4, <2>5, WorkerFrame DEF RowInv, Claimable
<1>2. CASE EndPass(w) \/ Crash(w)
  <2>1. rows' = rows /\ runs' = runs /\ adm' = adm /\ wk' = [wk EXCEPT ![w] = Fresh]
    BY <1>2 DEF EndPass, Crash, tableVars, historyVars
  <2>2. ASSUME NEW v \in Workers PROVE wk'[v].job = NoJob
    BY <2>1, FreshFields DEF SingleWorker, TypeOK
  <2> QED BY <2>1, <2>2, JobIdsAssumption DEF BudgetInv, RowInv, EditInv
<1>3. CASE wk[w].pc # "poll"
  <2>0. PICK k \in JobIds : k = wk[w].job
    BY <1>3 DEF TypeOK, Session
  <2>1. wk[w] \in Session /\ wk[w].job = k /\ rows[k] \in Row /\ runs[k] \in Nat
    BY <2>0 DEF TypeOK
  <2>2. RowInv(k) /\ CopyInv(wk[w], k) /\ rows[k].attempts \in Nat /\ wk[w].attempts \in Nat
    BY <2>1 DEF BudgetInv, Row, Session
  <2>3. rows[k].status \notin {"absent", "dead"}
    BY <1>3, <2>1, <2>2 DEF CopyInv, Touched, Claimable, Session
  <2>4. CASE Start(w)
    <3>1. /\ wk[w].pc = "starting" /\ adm' = adm
          /\ rows' = [rows EXCEPT ![k] = StartedRow(wk[w], @)]
          /\ runs' = [runs EXCEPT ![k] = @ + 1]
          /\ wk' = [wk EXCEPT ![w] = Expired("handling", k)]
      BY <2>4, <2>1 DEF Start
    <3>2. /\ runs'[k] = runs[k] + 1
          /\ rows'[k].attempts = wk[w].attempts + 1
          /\ rows'[k].status = "running"
      BY <2>1, <2>2, <3>1, StartedRowFields DEF TypeOK, CopyInv, Flushed
    <3>3. wk'[w].pc = "handling" /\ wk'[w].job = k
      BY <3>1, ExpiredFields DEF TypeOK
    <3>4. RowInv(k)'
      BY <2>1, <2>2, <3>1, <3>2, AttemptsAssumption DEF RowInv, CopyInv, Claimable
    <3>5. CopyInv(wk[w], k)'
      BY <3>2, <3>3 DEF CopyInv, Touched
    <3>6. \A j \in JobIds : j # k => rows'[j] = rows[j] /\ runs'[j] = runs[j]
      BY <3>1 DEF TypeOK
    <3> QED BY <2>1, <2>3, <3>1, <3>2, <3>3, <3>4, <3>5, <3>6, WorkerFrame
  <2>5. CASE Succeed(w)
    <3>1. /\ adm' = adm /\ runs' = runs /\ wk' = [wk EXCEPT ![w] = Fresh]
          /\ rows' = [rows EXCEPT ![k] = Succeeded(@)]
      BY <2>5, <2>1 DEF Succeed, historyVars
    <3>2. rows'[k].attempts = rows[k].attempts /\ rows'[k].status = "succeeded"
      BY <2>1, <3>1, SucceededFields DEF TypeOK
    <3>3. wk'[w].job = NoJob
      BY <3>1, FreshFields DEF TypeOK
    <3>4. RowInv(k)'
      BY <2>2, <3>1, <3>2 DEF RowInv, Claimable
    <3>5. \A j \in JobIds : j # k => rows'[j] = rows[j] /\ runs'[j] = runs[j]
      BY <3>1 DEF TypeOK
    <3> QED BY <2>1, <2>3, <3>1, <3>2, <3>3, <3>4, <3>5, WorkerFrame, JobIdsAssumption
  <2>6. CASE HandlerRaises(w)
    <3>1. /\ adm' = adm /\ runs' = runs /\ rows' = rows /\ wk[w].pc = "handling"
          /\ wk' = [wk EXCEPT ![w] = Loaded("failing", k, rows[k])]
      BY <2>6, <2>1 DEF HandlerRaises, tableVars, historyVars
    <3>2. wk'[w] = Loaded("failing", k, rows[k])
      BY <3>1 DEF TypeOK
    <3>3. CopyInv(wk[w], k)'
      BY <2>2, <3>1, <3>2, LoadedFields DEF CopyInv, RowInv
    <3> QED BY <2>1, <2>2, <2>3, <3>1, <3>2, <3>3, WorkerFrame, LoadedFields DEF RowInv
  <2>7. CASE SucceedThenRaise(w)
    <3>1. /\ adm' = adm /\ runs' = runs
          /\ rows' = [rows EXCEPT ![k] = Succeeded(rows[k])]
          /\ wk' = [wk EXCEPT ![w] = Loaded("failing", k, Succeeded(rows[k]))]
      BY <2>7, <2>1 DEF SucceedThenRaise, historyVars
    <3>2. /\ rows'[k] = Succeeded(rows[k])
          /\ rows'[k].attempts = rows[k].attempts /\ rows'[k].status = "succeeded"
      BY <2>1, <3>1, SucceededFields DEF TypeOK
    <3>3. wk'[w] = Loaded("failing", k, rows'[k])
      BY <3>1, <3>2 DEF TypeOK
    <3>4. CopyInv(wk[w], k)'
      BY <2>2, <3>1, <3>2, <3>3, LoadedFields DEF CopyInv, RowInv, Touched
    <3>5. RowInv(k)'
      BY <2>2, <3>1, <3>2 DEF RowInv, Claimable
    <3>6. \A j \in JobIds : j # k => rows'[j] = rows[j] /\ runs'[j] = runs[j]
      BY <3>1 DEF TypeOK
    <3> QED BY <2>1, <2>3, <3>1, <3>2, <3>3, <3>4, <3>5, <3>6, WorkerFrame, LoadedFields
  <2>8. CASE FailCommit(w)
    <3>1. /\ adm' = adm /\ runs' = runs /\ wk[w].pc = "failing"
          /\ rows' = [rows EXCEPT ![k] = FailedRow(wk[w], rows[k])]
          /\ wk' = [wk EXCEPT ![w] = Loaded("poll", k, FailedRow(wk[w], rows[k]))]
      BY <2>8, <2>1 DEF FailCommit
    <3>2. /\ rows'[k] = FailedRow(wk[w], rows[k])
          /\ rows'[k].attempts = rows[k].attempts
          /\ rows'[k].status = IF wk[w].attempts < MaxAttempts THEN "retrying" ELSE "dead"
      BY <2>1, <2>2, <3>1, FailedRowFields DEF TypeOK, CopyInv, Touched, Flushed
    <3>3. wk'[w] = Loaded("poll", k, rows'[k])
      BY <3>1, <3>2 DEF TypeOK
    <3>4. RowInv(k)'
      BY <2>1, <2>2, <3>1, <3>2, AttemptsAssumption DEF RowInv, CopyInv, Claimable
    <3>5. CopyInv(wk[w], k)'
      BY <2>2, <3>1, <3>2, <3>3, LoadedFields DEF CopyInv, RowInv
    <3>6. \A j \in JobIds : j # k => rows'[j] = rows[j] /\ runs'[j] = runs[j]
      BY <3>1 DEF TypeOK
    <3> QED BY <2>1, <2>3, <3>1, <3>2, <3>3, <3>4, <3>5, <3>6, WorkerFrame, LoadedFields
  <2>9. CASE FailNotifyLost(w)
    <3>1. /\ adm' = adm /\ runs' = runs /\ rows' = rows /\ wk[w].pc = "failing"
          /\ wk' = [wk EXCEPT ![w] = Loaded("poll", k, rows[k])]
      BY <2>9, <2>1 DEF FailNotifyLost, tableVars
    <3>2. wk'[w] = Loaded("poll", k, rows[k])
      BY <3>1 DEF TypeOK
    <3>3. CopyInv(wk[w], k)'
      BY <2>2, <3>1, <3>2, LoadedFields DEF CopyInv, RowInv
    <3> QED BY <2>1, <2>2, <2>3, <3>1, <3>2, <3>3, WorkerFrame, LoadedFields DEF RowInv
  <2> QED BY <1>3, <2>4, <2>5, <2>6, <2>7, <2>8, <2>9, <1>1, <1>2 DEF WorkerStep, ClaimNext, EndPass
<1> QED BY <1>1, <1>2, <1>3
        DEF WorkerStep, Start, Succeed, HandlerRaises, SucceedThenRaise, FailCommit,
            FailNotifyLost

LEMMA ProducerBudget ==
  ASSUME BudgetInv, TypeOK,
         NEW p \in Producers, EnqueueLookup(p) \/ EnqueueInsert(p)
  PROVE  BudgetInv'
<1> USE DEF Status
<1>1. CASE EnqueueLookup(p)
  BY <1>1 DEF EnqueueLookup, tableVars, historyVars, BudgetInv, RowInv, CopyInv, EditInv
<1>2. CASE EnqueueInsert(p)
  <2>1. PICK k \in JobIds, pr \in Priorities :
          /\ rows[k].status = "absent"
          /\ rows' = [rows EXCEPT ![k] =
               [status |-> "queued", attempts |-> 0, available |-> now,
                priority |-> pr, key |-> prod[p].key]]
    BY <1>2 DEF EnqueueInsert
  <2>2. /\ rows'[k].status = "queued" /\ rows'[k].attempts = 0
        /\ \A j \in JobIds : j # k => rows'[j] = rows[j]
        /\ wk' = wk /\ adm' = adm /\ runs' = runs
    BY <1>2, <2>1 DEF EnqueueInsert, TypeOK, historyVars
  <2>3. ASSUME NEW j \in JobIds PROVE RowInv(j)'
    BY <2>1, <2>2, AttemptsAssumption DEF BudgetInv, RowInv, Claimable
  <2>4. ASSUME NEW w \in Workers, NEW j \in JobIds, wk'[w].job = j
        PROVE  CopyInv(wk[w], j)'
    BY <2>1, <2>2, <2>4 DEF BudgetInv, CopyInv
  <2>5. ASSUME NEW a \in Admins PROVE EditInv(adm[a])'
    <3>1. EditInv(adm[a]) /\ adm'[a] = adm[a]
      BY <2>2 DEF BudgetInv
    <3>2. CASE adm[a].pc = "idle"
      BY <3>1, <3>2 DEF EditInv
    <3>3. CASE adm[a].pc # "idle"
      <4>1. adm[a].job \in JobIds
        BY <3>3 DEF TypeOK, Edit
      <4> QED BY <2>1, <2>2, <3>1, <3>3, <4>1 DEF EditInv, TypeOK, Edit
    <3> QED BY <3>2, <3>3
  <2> QED BY <2>3, <2>4, <2>5 DEF BudgetInv
<1> QED BY <1>1, <1>2

LEMMA AdminBudget ==
  ASSUME SingleAdmin, BudgetInv, TypeOK, NEW a \in Admins, AdminStep(a)
  PROVE  BudgetInv'
<1> USE DEF Status
<1>1. CASE \E j \in JobIds : CancelRead(a, j) \/ RequeueRead(a, j)
  <2>1. PICK j \in JobIds : CancelRead(a, j) \/ RequeueRead(a, j)
    BY <1>1
  <2>2. rows' = rows /\ runs' = runs /\ wk' = wk
    BY <2>1 DEF CancelRead, RequeueRead, tableVars, historyVars
  <2>3. EditInv(adm[a])'
    BY <2>1, <2>2 DEF CancelRead, RequeueRead, EditInv, Claimable, TypeOK
  <2> QED BY <2>2, <2>3 DEF BudgetInv, RowInv, CopyInv, EditInv, SingleAdmin
<1>2. CASE CancelCommit(a) \/ RequeueCommit(a)
  <2>1. PICK k \in JobIds : k = adm[a].job
    BY <1>2 DEF CancelCommit, RequeueCommit, TypeOK, Edit
  <2>2. adm[a] \in Edit /\ rows[k] \in Row /\ wk' = wk
        /\ EditInv(adm[a]) /\ RowInv(k)
    BY <1>2, <2>1 DEF CancelCommit, RequeueCommit, TypeOK, BudgetInv, historyVars
  <2>3. \A b \in Admins : adm'[b].pc = "idle"
    BY <1>2, NoEditType DEF CancelCommit, RequeueCommit, SingleAdmin, TypeOK
  <2>4. CASE CancelCommit(a)
    <3>1. /\ rows' = [rows EXCEPT ![k] = [@ EXCEPT !.status = "canceled"]]
          /\ runs' = runs
      BY <2>1, <2>4 DEF CancelCommit, historyVars
    <3>2. rows'[k] = [rows[k] EXCEPT !.status = "canceled"]
      BY <3>1 DEF TypeOK
    <3>3. rows'[k].status = "canceled" /\ rows'[k].attempts = rows[k].attempts
      BY <2>2, <3>2 DEF Row
    <3>4. \A j \in JobIds : j # k => rows'[j] = rows[j]
      BY <3>1 DEF TypeOK
    <3>5. ASSUME NEW j \in JobIds PROVE RowInv(j)'
      BY <3>1, <3>3, <3>4 DEF BudgetInv, RowInv, Claimable
    <3>6. ASSUME NEW w \in Workers, NEW j \in JobIds, wk[w].job = j
          PROVE  CopyInv(wk[w], j)'
      <4>1. CopyInv(wk[w], j)
        BY <3>6 DEF BudgetInv
      <4> QED BY <2>2, <3>1, <3>3, <3>4, <4>1 DEF CopyInv, Touched
    <3> QED BY <2>2, <2>3, <3>5, <3>6 DEF BudgetInv, EditInv
  <2>5. CASE RequeueCommit(a)
    <3>1. /\ rows' = [rows EXCEPT ![k] = RequeuedRow(adm[a], @)]
          /\ runs' = [runs EXCEPT ![k] = 0]
          /\ rows[k].status = "dead"
      BY <2>1, <2>2, <2>5 DEF RequeueCommit, EditInv
    <3>2. rows'[k] = RequeuedRow(adm[a], rows[k])
      BY <3>1 DEF TypeOK
    <3>3. rows'[k].status = "queued" /\ rows'[k].attempts \in Nat /\ runs'[k] = 0
      BY <2>2, <3>1, <3>2, RequeuedRowFields DEF Row, Edit, Flushed, TypeOK
    <3>4. \A j \in JobIds : j # k => rows'[j] = rows[j] /\ runs'[j] = runs[j]
      BY <3>1 DEF TypeOK
    <3>5. ASSUME NEW j \in JobIds PROVE RowInv(j)'
      BY <3>3, <3>4, AttemptsAssumption DEF BudgetInv, RowInv, Claimable
    <3>6. ASSUME NEW w \in Workers, NEW j \in JobIds, wk[w].job = j
          PROVE  CopyInv(wk[w], j)'
      <4>1. CopyInv(wk[w], j) /\ wk[w] \in Session
        BY <3>6 DEF BudgetInv, TypeOK
      <4>2. CASE j = k
        <5>1. wk[w].pc = "poll" /\ wk[w].status # "running"
          BY <3>1, <4>1, <4>2 DEF CopyInv, Touched, Claimable, Session
        <5> QED BY <2>2, <3>3, <4>1, <4>2, <5>1 DEF CopyInv, Session
      <4>3. CASE j # k
        BY <2>2, <3>4, <4>1, <4>3 DEF CopyInv
      <4> QED BY <4>2, <4>3
    <3> QED BY <2>2, <2>3, <3>5, <3>6 DEF BudgetInv, EditInv
  <2> QED BY <1>2, <2>4, <2>5
<1> QED BY <1>1, <1>2 DEF AdminStep

LEMMA BudgetStep ==
  ASSUME SingleWorker, SingleAdmin
  PROVE  TypeOK /\ TypeOK' /\ BudgetInv /\ [Next]_vars => BudgetInv'
<1> SUFFICES ASSUME TypeOK, TypeOK', BudgetInv, [Next]_vars PROVE BudgetInv'
  OBVIOUS
<1>1. CASE Tick \/ UNCHANGED vars
  BY <1>1 DEF Tick, vars, historyVars, BudgetInv, RowInv, CopyInv, EditInv, Status
<1> QED BY <1>1, WorkerBudget, ProducerBudget, AdminBudget DEF Next

LEMMA BudgetInit == Init => BudgetInv
<1> SUFFICES ASSUME Init PROVE BudgetInv
  OBVIOUS
<1>1. \A j \in JobIds : RowInv(j)
  BY AttemptsAssumption DEF Init, RowInv, Status, NoRow, Claimable
<1>2. \A w \in Workers : wk[w].job = NoJob
  BY FreshFields DEF Init
<1>3. \A a \in Admins : EditInv(adm[a])
  BY NoEditType DEF Init, EditInv
<1> QED BY <1>1, <1>2, <1>3, JobIdsAssumption DEF BudgetInv

(* One worker and one administrator: no handler runs more than             *)
(* max_attempts times between two replays, whatever fails on the way.      *)
THEOREM BudgetKept ==
  ASSUME SingleWorker, SingleAdmin
  PROVE  Spec => []ExecutionsBounded
<1>1. BudgetInv => ExecutionsBounded
  BY DEF BudgetInv, RowInv, ExecutionsBounded
<1> QED BY <1>1, BudgetInit, BudgetStep, TypeCorrect, PTL DEF Spec

(* One worker and one administrator: a dead row has used its attempts up.  *)
THEOREM DeadExhausted ==
  ASSUME SingleWorker, SingleAdmin
  PROVE  Spec => []DeadIsExhausted
<1>1. BudgetInv => DeadIsExhausted
  BY DEF BudgetInv, RowInv, DeadIsExhausted
<1> QED BY <1>1, BudgetInit, BudgetStep, TypeCorrect, PTL DEF Spec

-----------------------------------------------------------------------------
(* The delay after a failure.  It is not inductive that handlers wait for  *)
(* it: what the row promises is that its available_at is far enough ahead  *)
(* of the failure for the executions counted since, which are never more   *)
(* than the attempts the delay was computed from.                          *)

(* 2 ^ n counts the subsets of 1 .. n, so it grows with n.                 *)
LEMMA BackoffGrows ==
  ASSUME NEW m \in Nat, NEW n \in Nat, m <= n
  PROVE  Backoff(m) <= Backoff(n)
<1>1. /\ IsFiniteSet(1 .. m) /\ Cardinality(1 .. m) = m
      /\ IsFiniteSet(1 .. n) /\ Cardinality(1 .. n) = n
  BY FS_Interval
<1>2. /\ Cardinality(SUBSET (1 .. m)) = 2 ^ m
      /\ IsFiniteSet(SUBSET (1 .. n)) /\ Cardinality(SUBSET (1 .. n)) = 2 ^ n
  BY <1>1, FS_SUBSET
<1>3. SUBSET (1 .. m) \subseteq SUBSET (1 .. n)
  OBVIOUS
<1>4. Cardinality(SUBSET (1 .. m)) <= Cardinality(SUBSET (1 .. n))
  BY <1>2, <1>3, FS_Subset
<1> QED BY <1>2, <1>4 DEF Backoff

(* When row j may run again.                                               *)
Due(j) == failedAt[j] + Backoff(runs[j])

BackoffInv ==
  /\ \A j \in JobIds : Status(j) \in Claimable /\ runs[j] > 0 => rows[j].available >= Due(j)
  /\ \A w \in Workers, j \in JobIds :
       wk[w].job = j /\ wk[w].pc = "starting" /\ runs[j] > 0 => now >= Due(j)

LEMMA DueType == TypeOK => \A j \in JobIds : Due(j) \in Int
  BY BackoffType DEF TypeOK, Due

LEMMA FailedRowDelay ==
  ASSUME NEW s \in Session, NEW row \in Row, s.attempts < MaxAttempts
  PROVE  FailedRow(s, row).available = now + Backoff(s.attempts)
  BY DEF FailedRow, Row

(* A step that executes nothing, records no failure and makes no row       *)
(* claimable keeps it, if it starts no session.                            *)
LEMMA BackoffFrame ==
  ASSUME BackoffInv, runs' = runs, failedAt' = failedAt, now' = now,
         \A j \in JobIds : Status(j)' \in Claimable =>
           Status(j) \in Claimable /\ rows'[j].available = rows[j].available,
         \A w \in Workers : wk'[w].pc = "starting" => wk'[w] = wk[w]
  PROVE  BackoffInv'
  BY DEF BackoffInv, Due

LEMMA WorkerBackoff ==
  ASSUME SingleWorker, BudgetInv, BackoffInv, TypeOK, TypeOK',
         NEW w \in Workers, WorkerStep(w) \/ Crash(w)
  PROVE  BackoffInv'
<1>1. \A v \in Workers : v = w
  BY DEF SingleWorker
<1>2. CASE ClaimNext(w)
  <2>1. PICK k \in Ready : wk' = [wk EXCEPT ![w] =
           IF @.job = k THEN [@ EXCEPT !.pc = "starting"]
                        ELSE Loaded("starting", k, rows[k])]
    BY <1>2 DEF ClaimNext
  <2>2. /\ k \in JobIds /\ Status(k) \in Claimable /\ rows[k].available <= now
        /\ rows' = rows /\ runs' = runs /\ failedAt' = failedAt /\ now' = now
    BY <1>2 DEF Ready, ClaimNext, tableVars, historyVars
  <2>3. wk'[w].job = k
    BY <2>1, LoadedFields DEF TypeOK, Session
  <2>4. rows[k].available \in Int /\ now \in Int /\ Due(k) \in Int
    BY <2>2, DueType DEF TypeOK, Row
  <2>5. runs[k] > 0 => now >= Due(k)
    BY <2>2, <2>4 DEF BackoffInv
  <2> QED BY <1>1, <2>2, <2>3, <2>5 DEF BackoffInv, Due, Status
<1>3. CASE EndPass(w) \/ Crash(w)
  <2>1. wk'[w].pc = "poll"
    BY <1>3, FreshFields DEF EndPass, Crash, TypeOK
  <2> QED BY <1>1, <1>3, <2>1, BackoffFrame DEF EndPass, Crash, tableVars, historyVars, Status
<1>4. CASE HandlerRaises(w) \/ FailNotifyLost(w)
  <2>1. wk'[w].pc \in {"poll", "failing"}
    BY <1>4, LoadedFields DEF HandlerRaises, FailNotifyLost, TypeOK
  <2> QED BY <1>1, <1>4, <2>1, BackoffFrame
          DEF HandlerRaises, FailNotifyLost, tableVars, historyVars, Status
<1>5. CASE Start(w)
  <2>1. PICK k \in JobIds : k = wk[w].job
    BY <1>5 DEF Start, TypeOK, Session
  <2>2. /\ wk[w].pc = "starting" /\ wk[w] \in Session /\ rows[k] \in Row
        /\ now' = now /\ failedAt' = failedAt
        /\ rows' = [rows EXCEPT ![k] = StartedRow(wk[w], @)]
        /\ runs' = [runs EXCEPT ![k] = @ + 1]
        /\ wk' = [wk EXCEPT ![w] = Expired("handling", k)]
    BY <1>5, <2>1 DEF Start, TypeOK
  <2>3. rows'[k].status = "running"
    <3>1. CopyInv(wk[w], k)
      BY <2>1 DEF BudgetInv
    <3>2. rows'[k] = StartedRow(wk[w], rows[k])
      BY <2>2 DEF TypeOK
    <3> QED BY <2>2, <3>1, <3>2, StartedRowFields DEF CopyInv, Flushed
  <2>4. \A j \in JobIds : j # k => rows'[j] = rows[j] /\ runs'[j] = runs[j]
    BY <2>2 DEF TypeOK
  <2>5. wk'[w].pc = "handling"
    BY <2>2, ExpiredFields DEF TypeOK
  <2>6. ASSUME NEW j \in JobIds, Status(j)' \in Claimable, runs'[j] > 0
        PROVE  rows'[j].available >= Due(j)'
    <3>1. j # k
      BY <2>3, <2>6 DEF Claimable, Status
    <3> QED BY <2>2, <2>4, <2>6, <3>1 DEF BackoffInv, Due, Status
  <2> QED BY <1>1, <2>5, <2>6 DEF BackoffInv
<1>6. CASE Succeed(w) \/ SucceedThenRaise(w)
  <2>1. PICK k \in JobIds : k = wk[w].job
    BY <1>6 DEF Succeed, SucceedThenRaise, TypeOK, Session
  <2>2. /\ now' = now /\ failedAt' = failedAt /\ runs' = runs
        /\ rows' = [rows EXCEPT ![k] = Succeeded(@)]
    BY <1>6, <2>1 DEF Succeed, SucceedThenRaise, historyVars
  <2>3. wk'[w].pc \in {"poll", "failing"}
    BY <1>6, FreshFields, LoadedFields DEF Succeed, SucceedThenRaise, TypeOK
  <2>4. rows'[k].status = "succeeded"
    BY <2>2, SucceededFields DEF TypeOK
  <2>5. \A j \in JobIds : j # k => rows'[j] = rows[j]
    BY <2>2 DEF TypeOK
  <2> QED BY <1>1, <2>2, <2>3, <2>4, <2>5, BackoffFrame DEF Claimable, Status
<1>7. CASE FailCommit(w)
  <2>1. PICK k \in JobIds : k = wk[w].job
    BY <1>7 DEF FailCommit, TypeOK, Session
  <2>2. /\ wk[w].pc = "failing" /\ wk[w] \in Session /\ rows[k] \in Row
        /\ now' = now /\ runs' = runs
        /\ rows' = [rows EXCEPT ![k] = FailedRow(wk[w], rows[k])]
        /\ failedAt' = [failedAt EXCEPT ![k] = now]
    BY <1>7, <2>1 DEF FailCommit, TypeOK
  <2>3. wk'[w].pc = "poll"
    BY <1>7, LoadedFields DEF FailCommit, TypeOK
  <2>4. CopyInv(wk[w], k) /\ wk[w].attempts \in Nat /\ runs[k] \in Nat /\ now \in Nat
    BY <2>1, <2>2 DEF BudgetInv, TypeOK, Session
  <2>5. rows'[k] = FailedRow(wk[w], rows[k]) /\ Due(k)' = now + Backoff(runs[k])
    BY <2>2 DEF TypeOK, Due
  <2>6. ASSUME Status(k)' \in Claimable PROVE rows'[k].available >= Due(k)'
    <3>1. wk[w].attempts < MaxAttempts
      BY <2>2, <2>4, <2>5, <2>6, FailedRowFields
         DEF CopyInv, Touched, Claimable, Flushed, Status
    <3>2. rows'[k].available = now + Backoff(wk[w].attempts)
      BY <2>2, <2>5, <3>1, FailedRowDelay
    <3>3. Backoff(runs[k]) <= Backoff(wk[w].attempts)
      BY <2>2, <2>4, BackoffGrows DEF CopyInv
    <3>4. Backoff(runs[k]) \in Int /\ Backoff(wk[w].attempts) \in Int
      BY <2>4, BackoffType
    <3> QED BY <2>4, <2>5, <3>2, <3>3, <3>4
  <2>7. \A j \in JobIds : j # k => rows'[j] = rows[j] /\ failedAt'[j] = failedAt[j]
    BY <2>2 DEF TypeOK
  <2>8. ASSUME NEW j \in JobIds, Status(j)' \in Claimable, runs'[j] > 0
        PROVE  rows'[j].available >= Due(j)'
    BY <2>2, <2>6, <2>7, <2>8 DEF BackoffInv, Due, Status
  <2> QED BY <1>1, <2>3, <2>8 DEF BackoffInv
<1> QED BY <1>2, <1>3, <1>4, <1>5, <1>6, <1>7 DEF WorkerStep

LEMMA ClientBackoff ==
  ASSUME BudgetInv, BackoffInv, TypeOK,
         \/ \E p \in Producers : EnqueueLookup(p) \/ EnqueueInsert(p)
         \/ \E a \in Admins : AdminStep(a)
  PROVE  BackoffInv'
<1>1. ASSUME NEW p \in Producers, EnqueueLookup(p) PROVE BackoffInv'
  BY <1>1, BackoffFrame DEF EnqueueLookup, tableVars, historyVars, Status
<1>2. ASSUME NEW p \in Producers, EnqueueInsert(p) PROVE BackoffInv'
  <2>1. PICK k \in JobIds :
          /\ Status(k) = "absent"
          /\ \A j \in JobIds : j # k => rows'[j] = rows[j]
    BY <1>2 DEF EnqueueInsert, TypeOK
  <2>2. runs[k] = 0
    BY <2>1 DEF BudgetInv, RowInv
  <2> QED BY <1>2, <2>1, <2>2 DEF EnqueueInsert, historyVars, BackoffInv, Due, Status
<1>3. ASSUME NEW a \in Admins, NEW j \in JobIds, CancelRead(a, j) \/ RequeueRead(a, j)
      PROVE  BackoffInv'
  BY <1>3, BackoffFrame DEF CancelRead, RequeueRead, tableVars, historyVars, Status
<1>4. ASSUME NEW a \in Admins, CancelCommit(a) PROVE BackoffInv'
  <2>1. PICK k \in JobIds : rows' = [rows EXCEPT ![k] = [@ EXCEPT !.status = "canceled"]]
    BY <1>4 DEF CancelCommit, TypeOK, Edit
  <2>2. Status(k)' = "canceled" /\ \A j \in JobIds : j # k => rows'[j] = rows[j]
    BY <2>1 DEF TypeOK, Row, Status
  <2> QED BY <1>4, <2>2, BackoffFrame DEF CancelCommit, historyVars, Claimable, Status
<1>5. ASSUME NEW a \in Admins, RequeueCommit(a) PROVE BackoffInv'
  <2>1. PICK k \in JobIds : k = adm[a].job
    BY <1>5 DEF RequeueCommit, TypeOK, Edit
  <2>2. /\ rows' = [rows EXCEPT ![k] = RequeuedRow(adm[a], @)]
        /\ runs' = [runs EXCEPT ![k] = 0]
        /\ wk' = wk /\ failedAt' = failedAt /\ now' = now
    BY <1>5, <2>1 DEF RequeueCommit
  <2>3. /\ runs'[k] = 0
        /\ \A j \in JobIds : j # k => rows'[j] = rows[j] /\ runs'[j] = runs[j]
    BY <2>2 DEF TypeOK
  <2> QED BY <2>2, <2>3 DEF BackoffInv, Due, Status
<1> QED BY <1>1, <1>2, <1>3, <1>4, <1>5 DEF AdminStep

LEMMA BackoffStep ==
  ASSUME SingleWorker
  PROVE  TypeOK /\ TypeOK' /\ BudgetInv /\ BackoffInv /\ [Next]_vars => BackoffInv'
<1> SUFFICES ASSUME TypeOK, TypeOK', BudgetInv, BackoffInv, [Next]_vars PROVE BackoffInv'
  OBVIOUS
<1>1. CASE Tick
  <2>1. /\ now' = now + 1 /\ now \in Int /\ \A j \in JobIds : Due(j) \in Int
        /\ rows' = rows /\ wk' = wk /\ runs' = runs /\ failedAt' = failedAt
    BY <1>1, DueType DEF Tick, historyVars, TypeOK
  <2>2. \A j \in JobIds : Due(j)' = Due(j) /\ (now >= Due(j) => now' >= Due(j))
    BY <2>1 DEF Due
  <2> QED BY <2>1, <2>2 DEF BackoffInv, Status
<1>2. CASE UNCHANGED vars
  BY <1>2 DEF vars, BackoffInv, Due, Status
<1> QED BY <1>1, <1>2, WorkerBackoff, ClientBackoff DEF Next

(* Only a handler's start counts an execution, and it is due.              *)
LEMMA RunsOnlyWhenDue ==
  ASSUME TypeOK, BackoffInv, [Next]_vars,
         NEW j \in JobIds, runs[j] > 0, runs'[j] = runs[j] + 1
  PROVE  now >= Due(j)
<1>1. runs'[j] # runs[j] /\ runs'[j] # 0
  BY DEF TypeOK
<1>2. PICK w \in Workers : Start(w)
  <2>1. ~ UNCHANGED runs
    BY <1>1
  <2>2. ASSUME NEW a \in Admins, RequeueCommit(a) PROVE FALSE
    BY <1>1, <2>2 DEF RequeueCommit, TypeOK
  <2> QED BY <2>1, <2>2
          DEF Next, WorkerStep, AdminStep, ClaimNext, EndPass, Succeed, HandlerRaises,
              SucceedThenRaise, FailCommit, FailNotifyLost, Crash, EnqueueLookup,
              EnqueueInsert, CancelRead, RequeueRead, CancelCommit, Tick, historyVars, vars
<1>3. wk[w].pc = "starting" /\ wk[w].job \in JobIds
  BY <1>2 DEF Start, TypeOK, Session
<1>4. wk[w].job = j
  BY <1>1, <1>2, <1>3 DEF Start, TypeOK
<1> QED BY <1>3, <1>4 DEF BackoffInv

(* One worker and one administrator: after a recorded failure no handler   *)
(* runs the row again before its exponential backoff is over.              *)
THEOREM BackoffKept ==
  ASSUME SingleWorker, SingleAdmin
  PROVE  Spec => BackoffRespected
<1>1. Init => BackoffInv
  BY FreshFields DEF Init, BackoffInv, NoRow, Status
<1>2. TypeOK /\ BackoffInv /\ [Next]_vars =>
        [\A j \in JobIds : (runs[j] > 0 /\ runs'[j] = runs[j] + 1)
           => now >= failedAt[j] + Backoff(runs[j])]_vars
  BY RunsOnlyWhenDue DEF Due
<1> QED BY <1>1, <1>2, BudgetInit, BudgetStep, BackoffStep, TypeCorrect, PTL
        DEF Spec, BackoffRespected

-----------------------------------------------------------------------------
(* The outcome of a row.  A success can only be overwritten by a session   *)
(* that still holds the row: no claim does, and the one worker holds the   *)
(* row it has finished only where the refresh after the commit may raise.  *)

OutcomeInv ==
  \A w \in Workers, j \in JobIds : wk[w].job = j =>
    /\ wk[w].pc = "handling" => Status(j) \in {"running", "canceled"}
    /\ wk[w].pc = "failing" /\ ~DbErrors => Status(j) \in {"running", "canceled"}

LEMMA WorkerOutcome ==
  ASSUME SingleWorker, BudgetInv, OutcomeInv, TypeOK, TypeOK',
         NEW w \in Workers, WorkerStep(w) \/ Crash(w)
  PROVE  OutcomeInv'
<1>1. \A v \in Workers : v = w
  BY DEF SingleWorker
<1>2. CASE wk'[w].pc \notin {"handling", "failing"}
  BY <1>1, <1>2 DEF OutcomeInv
<1>3. CASE HandlerRaises(w)
  BY <1>1, <1>3, LoadedFields DEF HandlerRaises, OutcomeInv, Status, tableVars, TypeOK
<1>4. CASE SucceedThenRaise(w)
  BY <1>1, <1>4, LoadedFields DEF SucceedThenRaise, OutcomeInv, TypeOK
<1>5. CASE Start(w)
  <2>1. PICK k \in JobIds : k = wk[w].job
    BY <1>5 DEF Start, TypeOK, Session
  <2>2. CopyInv(wk[w], k) /\ wk[w] \in Session /\ rows[k] \in Row
    BY <2>1 DEF BudgetInv, TypeOK
  <2>3. Status(k)' = "running" /\ wk'[w].job = k
    BY <1>5, <2>1, <2>2, StartedRowFields, ExpiredFields
       DEF Start, CopyInv, Flushed, TypeOK, Status
  <2>4. wk'[w].pc = "handling"
    BY <1>5, ExpiredFields DEF Start, TypeOK
  <2> QED BY <1>1, <2>3, <2>4 DEF OutcomeInv
<1>6. CASE ~ (Start(w) \/ HandlerRaises(w) \/ SucceedThenRaise(w))
  <2>1. wk'[w].pc \in {"poll", "starting"}
    <3>1. CASE ClaimNext(w)
      BY <3>1, LoadedFields DEF ClaimNext, TypeOK, Session
    <3>2. CASE EndPass(w) \/ Succeed(w) \/ Crash(w)
      BY <3>2, FreshFields DEF EndPass, Succeed, Crash, TypeOK
    <3>3. CASE FailCommit(w) \/ FailNotifyLost(w)
      BY <3>3, LoadedFields DEF FailCommit, FailNotifyLost, TypeOK
    <3> QED BY <1>6, <3>1, <3>2, <3>3 DEF WorkerStep
  <2> QED BY <1>2, <2>1
<1> QED BY <1>3, <1>4, <1>5, <1>6

LEMMA ClientOutcome ==
  ASSUME BudgetInv, OutcomeInv, TypeOK,
         \/ \E p \in Producers : EnqueueLookup(p) \/ EnqueueInsert(p)
         \/ \E a \in Admins : AdminStep(a)
  PROVE  OutcomeInv'
<1>0. wk' = wk
  BY DEF EnqueueLookup, EnqueueInsert, AdminStep, CancelRead, RequeueRead,
         CancelCommit, RequeueCommit
<1>1. ASSUME NEW j \in JobIds, Status(j) \in {"running", "canceled"}
      PROVE  Status(j)' \in {"running", "canceled"}
  <2>1. ASSUME NEW p \in Producers, EnqueueLookup(p) \/ EnqueueInsert(p)
        PROVE  Status(j)' = Status(j)
    BY <1>1, <2>1 DEF EnqueueLookup, EnqueueInsert, tableVars, Status, TypeOK
  <2>2. ASSUME NEW a \in Admins, NEW i \in JobIds, CancelRead(a, i) \/ RequeueRead(a, i)
        PROVE  Status(j)' = Status(j)
    BY <2>2 DEF CancelRead, RequeueRead, tableVars, Status
  <2>3. ASSUME NEW a \in Admins, CancelCommit(a)
        PROVE  Status(j)' \in {Status(j), "canceled"}
    BY <2>3 DEF CancelCommit, Status, TypeOK, Row
  <2>4. ASSUME NEW a \in Admins, RequeueCommit(a)
        PROVE  Status(j)' = Status(j)
    <3>1. Status(adm[a].job) = "dead" /\ adm[a].job \in JobIds
      BY <2>4 DEF RequeueCommit, BudgetInv, EditInv, TypeOK, Edit
    <3> QED BY <1>1, <2>4, <3>1 DEF RequeueCommit, Status, TypeOK
  <2> QED BY <1>1, <2>1, <2>2, <2>3, <2>4 DEF AdminStep
<1> QED BY <1>0, <1>1 DEF OutcomeInv

LEMMA OutcomeStep ==
  ASSUME SingleWorker
  PROVE  TypeOK /\ TypeOK' /\ BudgetInv /\ OutcomeInv /\ [Next]_vars => OutcomeInv'
<1>1. Tick \/ UNCHANGED vars => UNCHANGED <<rows, wk>>
  BY DEF Tick, vars
<1> QED BY <1>1, WorkerOutcome, ClientOutcome DEF Next, OutcomeInv, Status

(* Who may take a success back: the two sessions the property names.       *)
LEMMA SuccessStands ==
  ASSUME TypeOK, BudgetInv, OutcomeInv, [Next]_vars,
         NEW j \in JobIds, Status(j) = "succeeded", Status(j)' # "succeeded"
  PROVE  \/ \E a \in Admins : adm[a].pc = "cancel" /\ adm[a].job = j
         \/ DbErrors /\ \E w \in Workers : wk[w].pc = "failing" /\ wk[w].job = j
<1>1. rows'[j] # rows[j]
  BY DEF Status
<1>2. ASSUME NEW w \in Workers, WorkerStep(w) \/ Crash(w)
      PROVE  DbErrors /\ \E v \in Workers : wk[v].pc = "failing" /\ wk[v].job = j
  <2>1. wk[w].job = j /\ (Start(w) \/ Succeed(w) \/ SucceedThenRaise(w) \/ FailCommit(w))
    BY <1>1, <1>2 DEF WorkerStep, ClaimNext, EndPass, Start, Succeed, HandlerRaises,
       SucceedThenRaise, FailCommit, FailNotifyLost, Crash, tableVars, historyVars, TypeOK
  <2>2. CopyInv(wk[w], j)
    BY <2>1 DEF BudgetInv
  <2>3. ~ Start(w)
    BY <2>1, <2>2 DEF Start, CopyInv, Claimable
  <2>4. ~ (Succeed(w) \/ SucceedThenRaise(w))
    BY <2>1, SucceededFields DEF Succeed, SucceedThenRaise, Status, TypeOK
  <2>5. wk[w].pc = "failing"
    BY <2>1, <2>3, <2>4 DEF FailCommit
  <2> QED BY <2>1, <2>5 DEF OutcomeInv
<1>3. ASSUME NEW p \in Producers, EnqueueLookup(p) \/ EnqueueInsert(p) PROVE FALSE
  BY <1>1, <1>3 DEF EnqueueLookup, EnqueueInsert, tableVars, Status, TypeOK
<1>4. ASSUME NEW a \in Admins, AdminStep(a)
      PROVE  adm[a].pc = "cancel" /\ adm[a].job = j
  <2>1. adm[a].job = j /\ (CancelCommit(a) \/ RequeueCommit(a))
    BY <1>1, <1>4 DEF AdminStep, CancelRead, RequeueRead, CancelCommit, RequeueCommit,
       tableVars, TypeOK
  <2>2. ~ RequeueCommit(a)
    BY <2>1 DEF RequeueCommit, BudgetInv, EditInv
  <2> QED BY <2>1, <2>2 DEF CancelCommit
<1> QED BY <1>1, <1>2, <1>3, <1>4 DEF Next, Tick, vars

(* One worker and one administrator: a success is final, but for the       *)
(* cancel that had read the row before and the refresh that raised.        *)
THEOREM SuccessKept ==
  ASSUME SingleWorker, SingleAdmin
  PROVE  Spec => SuccessIsFinal
<1>1. Init => OutcomeInv
  BY FreshFields DEF Init, OutcomeInv
<1>2. TypeOK /\ BudgetInv /\ OutcomeInv /\ [Next]_vars =>
        [\A j \in JobIds : Status(j) = "succeeded" /\ Status(j)' # "succeeded"
           => \/ \E a \in Admins : adm[a].pc = "cancel" /\ adm[a].job = j
              \/ DbErrors /\ \E w \in Workers : wk[w].pc = "failing" /\ wk[w].job = j]_vars
  BY SuccessStands
<1> QED BY <1>1, <1>2, BudgetInit, BudgetStep, OutcomeStep, TypeCorrect, PTL
        DEF Spec, SuccessIsFinal

-----------------------------------------------------------------------------
(* Idempotency keys.  A key found free stays free until the insert: with   *)
(* no administrator nothing revives a row that has ended, and the one      *)
(* worker claims and settles only rows that were live before.              *)

SingleProducer == \A p, q \in Producers : p = q

KeysInv ==
  /\ KeysUnique
  /\ \A j \in JobIds : Status(j) # "canceled"
  /\ \A p \in Producers, j \in JobIds :
       /\ prod[p].pc = "inserting" /\ prod[p].key # NoKey
       /\ rows[j].key = prod[p].key
       => Status(j) \notin Live

LEMMA KeyColumn ==
  ASSUME NEW s \in Session, NEW row \in Row
  PROVE  /\ StartedRow(s, row).key = row.key
         /\ Succeeded(row).key = row.key
         /\ FailedRow(s, row).key = row.key
  BY DEF StartedRow, Succeeded, FailedRow, Row

(* A step that writes one live row, and neither its key nor a cancel.      *)
LEMMA KeysFrame ==
  ASSUME KeysInv, prod' = prod, NEW k \in JobIds, Status(k) \in Live,
         \A j \in JobIds : j # k => rows'[j] = rows[j],
         rows'[k].key = rows[k].key, Status(k)' # "canceled"
  PROVE  KeysInv'
<1>1. \A j \in JobIds : rows'[j].key = rows[j].key
  OBVIOUS
<1>2. \A j \in JobIds : Status(j)' \in Live => Status(j) \in Live
  BY DEF Status
<1>3. \A j \in JobIds : Status(j)' # "canceled"
  BY DEF KeysInv, Status
<1> QED BY <1>1, <1>2, <1>3 DEF KeysInv, KeysUnique

LEMMA WorkerKeys ==
  ASSUME BudgetInv, KeysInv, TypeOK, NEW w \in Workers, WorkerStep(w) \/ Crash(w)
  PROVE  KeysInv'
<1>1. CASE UNCHANGED <<rows, prod>>
  BY <1>1 DEF KeysInv, KeysUnique, Status
<1>2. CASE Start(w) \/ Succeed(w) \/ SucceedThenRaise(w) \/ FailCommit(w)
  <2>1. PICK k \in JobIds : k = wk[w].job
    BY <1>2 DEF Start, Succeed, SucceedThenRaise, FailCommit, TypeOK, Session
  <2>2. CopyInv(wk[w], k) /\ wk[w] \in Session /\ rows[k] \in Row
    BY <2>1 DEF BudgetInv, TypeOK
  <2>3. Status(k) # "canceled"
    BY DEF KeysInv
  <2>4. prod' = prod /\ Status(k) \in Live
    BY <1>2, <2>1, <2>2, <2>3
       DEF Start, Succeed, SucceedThenRaise, FailCommit, CopyInv, Touched, Claimable,
           Live, historyVars
  <2>5. rows' = [rows EXCEPT ![k] = rows'[k]]
    BY <1>2, <2>1 DEF Start, Succeed, SucceedThenRaise, FailCommit, TypeOK
  <2>6. rows'[k] \in {StartedRow(wk[w], rows[k]), Succeeded(rows[k]), FailedRow(wk[w], rows[k])}
    BY <1>2, <2>1 DEF Start, Succeed, SucceedThenRaise, FailCommit, TypeOK
  <2>7. rows'[k].key = rows[k].key
    BY <2>2, <2>6, KeyColumn
  <2>8. Status(k)' # "canceled"
    BY <2>2, <2>3, <2>6, StartedRowFields, SucceededFields, FailedRowFields
       DEF Status, Flushed
  <2>9. \A j \in JobIds : j # k => rows'[j] = rows[j]
    BY <2>5 DEF TypeOK
  <2> QED BY <2>4, <2>7, <2>8, <2>9, KeysFrame
<1> QED BY <1>1, <1>2 DEF WorkerStep, ClaimNext, EndPass, HandlerRaises, FailNotifyLost,
           Crash, tableVars

LEMMA ProducerKeys ==
  ASSUME SingleProducer, KeysInv, TypeOK,
         NEW p \in Producers, EnqueueLookup(p) \/ EnqueueInsert(p)
  PROVE  KeysInv'
<1>1. \A q \in Producers : q = p
  BY DEF SingleProducer
<1>2. CASE EnqueueLookup(p)
  <2>1. PICK key \in Keys \cup {NoKey} :
          /\ key # NoKey => ~\E j \in JobIds : rows[j].key = key /\ Status(j) \in Live
          /\ prod' = [prod EXCEPT ![p] = [pc |-> "inserting", key |-> key]]
    BY <1>2 DEF EnqueueLookup
  <2>2. rows' = rows /\ prod'[p].key = key
    BY <1>2, <2>1 DEF EnqueueLookup, tableVars, TypeOK
  <2> QED BY <1>1, <2>1, <2>2 DEF KeysInv, KeysUnique, Status
<1>3. CASE EnqueueInsert(p)
  <2>1. PICK k \in JobIds, pr \in Priorities :
          /\ Status(k) = "absent"
          /\ rows' = [rows EXCEPT ![k] =
               [status |-> "queued", attempts |-> 0, available |-> now,
                priority |-> pr, key |-> prod[p].key]]
    BY <1>3 DEF EnqueueInsert
  <2>2. /\ rows'[k].key = prod[p].key /\ Status(k)' = "queued"
        /\ \A j \in JobIds : j # k => rows'[j] = rows[j]
        /\ prod[p].pc = "inserting" /\ prod'[p].pc = "idle"
    BY <1>3, <2>1 DEF EnqueueInsert, NoRequest, Status, TypeOK
  <2>3. ASSUME NEW j \in JobIds, j # k, rows'[j].key = rows'[k].key, rows'[j].key # NoKey
        PROVE  Status(j)' \notin Live
    BY <2>2, <2>3 DEF KeysInv, Status
  <2>4. KeysUnique'
    <3> SUFFICES ASSUME NEW i \in JobIds, NEW j \in JobIds,
                        rows'[i].key = rows'[j].key, rows'[i].key # NoKey,
                        {Status(i)', Status(j)'} \subseteq Live
                 PROVE  i = j
      BY DEF KeysUnique
    <3>1. CASE i = k \/ j = k
      BY <2>3, <3>1
    <3>2. CASE i # k /\ j # k
      BY <2>2, <3>2 DEF KeysInv, KeysUnique, Status
    <3> QED BY <3>1, <3>2
  <2>5. \A j \in JobIds : Status(j)' # "canceled"
    BY <2>2 DEF KeysInv, Status
  <2> QED BY <1>1, <2>2, <2>4, <2>5 DEF KeysInv
<1> QED BY <1>2, <1>3

LEMMA KeysStep ==
  ASSUME SingleProducer, Admins = {}
  PROVE  TypeOK /\ BudgetInv /\ KeysInv /\ [Next]_vars => KeysInv'
<1>1. Tick \/ UNCHANGED vars => UNCHANGED <<rows, prod>>
  BY DEF Tick, vars
<1> QED BY <1>1, WorkerKeys, ProducerKeys DEF Next, KeysInv, KeysUnique, Status

(* One worker, one producer and no administrator: no two live rows share   *)
(* an idempotency key, so the same key returns the same job.               *)
THEOREM KeysKept ==
  ASSUME SingleWorker, SingleProducer, Admins = {}
  PROVE  Spec => []KeysUnique
<1>1. SingleAdmin
  BY DEF SingleAdmin
<1>2. Init => KeysInv
  BY DEF Init, KeysInv, KeysUnique, NoRow, NoRequest, Status, Live
<1>3. KeysInv => KeysUnique
  BY DEF KeysInv
<1> QED BY <1>1, <1>2, <1>3, BudgetInit, BudgetStep, KeysStep, TypeCorrect, PTL DEF Spec
-----------------------------------------------------------------------------
(***************************************************************************)
(* With one worker and one administrator JobQueue implements JobLifecycle, *)
(* for every set of rows and every max_attempts.                           *)
(*                                                                         *)
(* Every step touches at most one row.  What it does to the phase of that  *)
(* row follows from the invariant of the attempt budget: a row somebody    *)
(* may claim has executions left, the row of a busy worker exists and is   *)
(* not dead, and what an administrator is about to replay is dead.         *)
(***************************************************************************)
(* The phase of j seen from the only worker's session s and the row.       *)
PhaseIn(s, st, j) ==
  IF s.job = j /\ s.pc \in {"handling", "failing"} THEN "running"
  ELSE IF s.job = j /\ s.pc = "starting" THEN "waiting"
  ELSE PhaseOfRow(st)

(* The steps of JobLifecycle, in terms of one job.                         *)
PhaseStep(j) ==
  LET from == PhaseOf(j)  to == PhaseOf(j)' IN
  \/ from = to /\ runs'[j] = runs[j]
  \/ from = "absent" /\ to = "waiting" /\ runs'[j] = runs[j]
  \/ from = "waiting" /\ to = "running" /\ runs[j] < MaxAttempts /\ runs'[j] = runs[j] + 1
  \/ from = "running" /\ to = "waiting" /\ runs[j] < MaxAttempts /\ runs'[j] = runs[j]
  \/ from \in {"waiting", "running", "dead"} /\ to = "settled" /\ runs'[j] = runs[j]
  \/ from = "running" /\ to = "dead" /\ runs'[j] = runs[j]
  \/ from = "dead" /\ to = "waiting" /\ runs'[j] = 0

Untouched(j) == PhaseOf(j)' = PhaseOf(j) /\ runs'[j] = runs[j]

PhaseMap == [j \in JobIds |-> PhaseOf(j)]
LeftMap  == [j \in JobIds |-> MaxAttempts - runs[j]]

LEMMA PhaseOfWorker ==
  ASSUME SingleWorker, NEW w \in Workers, NEW j \in JobIds
  PROVE  /\ PhaseOf(j) = PhaseIn(wk[w], rows[j].status, j)
         /\ PhaseOf(j)' = PhaseIn(wk'[w], rows'[j].status, j)
<1>1. \A v \in Workers : v = w
  BY DEF SingleWorker
<1>2. (\E v \in Workers : Executing(v, j)) <=> Executing(w, j)
  BY <1>1
<1>3. (\E v \in Workers : wk[v].pc = "starting" /\ wk[v].job = j)
        <=> wk[w].pc = "starting" /\ wk[w].job = j
  BY <1>1
<1>4. (\E v \in Workers : Executing(v, j)') <=> Executing(w, j)'
  BY <1>1
<1>5. (\E v \in Workers : wk'[v].pc = "starting" /\ wk'[v].job = j)
        <=> wk'[w].pc = "starting" /\ wk'[w].job = j
  BY <1>1
<1>6. PhaseOf(j) = PhaseIn(wk[w], rows[j].status, j)
  BY <1>2, <1>3 DEF PhaseOf, PhaseIn, Executing, Status
<1>7. PhaseOf(j)' = PhaseIn(wk'[w], rows'[j].status, j)
  BY <1>4, <1>5 DEF PhaseOf, PhaseIn, Executing, Status
<1> QED BY <1>6, <1>7

(* A step of a client leaves the phase of a row it does not write alone.   *)
LEMMA PhaseKept ==
  ASSUME NEW j \in JobIds, wk' = wk, rows'[j].status = rows[j].status
  PROVE  PhaseOf(j)' = PhaseOf(j)
  BY DEF PhaseOf, Executing, Status

LEMMA PhasesOfRows ==
  /\ PhaseOfRow("absent") = "absent" /\ PhaseOfRow("running") = "running"
  /\ PhaseOfRow("queued") = "waiting" /\ PhaseOfRow("retrying") = "waiting"
  /\ PhaseOfRow("succeeded") = "settled" /\ PhaseOfRow("canceled") = "settled"
  /\ PhaseOfRow("dead") = "dead"
  BY DEF PhaseOfRow, Claimable

-----------------------------------------------------------------------------
(* One legal step of one job is a step of JobLifecycle.                    *)
LEMMA Lift ==
  ASSUME TypeOK, TypeOK', NEW k \in JobIds, PhaseStep(k),
         \A j \in JobIds : j # k => Untouched(j)
  PROVE  [Promise!LifecycleNext]_<<PhaseMap, LeftMap>>
<1>1. PhaseMap' = [PhaseMap EXCEPT ![k] = PhaseOf(k)']
  BY DEF PhaseMap, Untouched
<1>2. LeftMap' = [LeftMap EXCEPT ![k] = MaxAttempts - runs'[k]]
  BY DEF LeftMap, Untouched
<1>3. runs'[k] = runs[k] => LeftMap' = LeftMap
  BY <1>2 DEF LeftMap
<1>4. runs[k] \in Nat /\ runs'[k] \in Nat
  BY DEF TypeOK
<1>5. PhaseMap[k] = PhaseOf(k) /\ LeftMap[k] = MaxAttempts - runs[k]
  BY DEF PhaseMap, LeftMap
<1> USE DEF Promise!LifecycleNext, Promise!LifecycleStep, Promise!Becomes
<1>6. CASE PhaseOf(k) = PhaseOf(k)' /\ runs'[k] = runs[k]
  <2>1. PhaseMap' = PhaseMap
    BY <1>1, <1>6 DEF PhaseMap
  <2> QED BY <2>1, <1>3, <1>6
<1>7. CASE PhaseOf(k) = "absent" /\ PhaseOf(k)' = "waiting" /\ runs'[k] = runs[k]
  <2>1. Promise!Submit(k)
    BY <1>1, <1>3, <1>5, <1>7 DEF Promise!Submit, PhaseMap, LeftMap
  <2> QED BY <2>1
<1>8. CASE /\ PhaseOf(k) = "waiting" /\ PhaseOf(k)' = "running"
           /\ runs[k] < MaxAttempts /\ runs'[k] = runs[k] + 1
  <2>1. LeftMap[k] > 0 /\ MaxAttempts - runs'[k] = LeftMap[k] - 1
    BY <1>4, <1>5, <1>8, AttemptsAssumption
  <2>2. LeftMap' = [LeftMap EXCEPT ![k] = @ - 1]
    BY <1>2, <2>1
  <2>3. Promise!Execute(k)
    BY <1>1, <1>5, <1>8, <2>1, <2>2 DEF Promise!Execute, PhaseMap, LeftMap
  <2> QED BY <2>3
<1>9. CASE /\ PhaseOf(k) = "running" /\ PhaseOf(k)' = "waiting"
           /\ runs[k] < MaxAttempts /\ runs'[k] = runs[k]
  <2>1. LeftMap[k] > 0
    BY <1>4, <1>5, <1>9, AttemptsAssumption
  <2>2. Promise!Retry(k)
    BY <1>1, <1>3, <1>5, <1>9, <2>1 DEF Promise!Retry, PhaseMap, LeftMap
  <2> QED BY <2>2
<1>10. CASE /\ PhaseOf(k) \in {"waiting", "running", "dead"}
            /\ PhaseOf(k)' = "settled" /\ runs'[k] = runs[k]
  <2>1. Promise!Settle(k)
    BY <1>1, <1>3, <1>5, <1>10 DEF Promise!Settle, PhaseMap, LeftMap
  <2> QED BY <2>1
<1>11. CASE PhaseOf(k) = "running" /\ PhaseOf(k)' = "dead" /\ runs'[k] = runs[k]
  <2>1. Promise!Exhaust(k)
    BY <1>1, <1>3, <1>5, <1>11 DEF Promise!Exhaust, PhaseMap, LeftMap
  <2> QED BY <2>1
<1>12. CASE PhaseOf(k) = "dead" /\ PhaseOf(k)' = "waiting" /\ runs'[k] = 0
  <2>1. LeftMap' = [LeftMap EXCEPT ![k] = MaxAttempts]
    BY <1>2, <1>12, AttemptsAssumption
  <2>2. Promise!Replay(k)
    BY <1>1, <1>5, <1>12, <2>1 DEF Promise!Replay, PhaseMap, LeftMap
  <2> QED BY <2>2
<1> QED BY <1>6, <1>7, <1>8, <1>9, <1>10, <1>11, <1>12 DEF PhaseStep

-----------------------------------------------------------------------------
LEMMA WorkerPhases ==
  ASSUME SingleWorker, BudgetInv, TypeOK, TypeOK',
         NEW w \in Workers, WorkerStep(w) \/ Crash(w)
  PROVE  \/ \A j \in JobIds : Untouched(j)
         \/ \E k \in JobIds : PhaseStep(k) /\ \A j \in JobIds : j # k => Untouched(j)
<1> USE PhasesOfRows
<1>1. CASE ClaimNext(w)
  <2>1. PICK k \in Ready : wk' = [wk EXCEPT ![w] =
           IF @.job = k THEN [@ EXCEPT !.pc = "starting"]
                        ELSE Loaded("starting", k, rows[k])]
    BY <1>1 DEF ClaimNext
  <2>2. /\ k \in JobIds /\ rows[k].status \in Claimable
        /\ rows' = rows /\ runs' = runs /\ wk[w].pc = "poll"
    BY <1>1 DEF Ready, ClaimNext, tableVars, historyVars, Status
  <2>3. wk'[w].pc = "starting" /\ wk'[w].job = k
    BY <2>1, LoadedFields DEF TypeOK, Session
  <2>4. PhaseOfRow(rows[k].status) = "waiting"
    BY <2>2 DEF Claimable
  <2>5. ASSUME NEW j \in JobIds PROVE Untouched(j)
    <3>1. PhaseOf(j) = PhaseOfRow(rows[j].status)
      BY <2>2, PhaseOfWorker DEF PhaseIn
    <3>2. PhaseOf(j)' = IF j = k THEN "waiting" ELSE PhaseOfRow(rows[j].status)
      BY <2>2, <2>3, PhaseOfWorker DEF PhaseIn
    <3> QED BY <2>2, <2>4, <3>1, <3>2 DEF Untouched
  <2> QED BY <2>5
<1>2. CASE EndPass(w)
  <2>1. rows' = rows /\ runs' = runs /\ wk' = [wk EXCEPT ![w] = Fresh] /\ wk[w].pc = "poll"
    BY <1>2 DEF EndPass, tableVars, historyVars
  <2>2. wk'[w].pc = "poll"
    BY <2>1, FreshFields DEF TypeOK
  <2>3. ASSUME NEW j \in JobIds PROVE Untouched(j)
    BY <2>1, <2>2, PhaseOfWorker DEF Untouched, PhaseIn
  <2> QED BY <2>3
<1>3. CASE wk[w].pc # "poll"
  <2>0. PICK k \in JobIds : k = wk[w].job
    BY <1>3 DEF TypeOK, Session
  <2>1. wk[w] \in Session /\ wk[w].job = k /\ rows[k] \in Row /\ runs[k] \in Nat
    BY <2>0 DEF TypeOK
  <2>2. RowInv(k) /\ CopyInv(wk[w], k) /\ rows[k].attempts \in Nat /\ wk[w].attempts \in Nat
    BY <2>1 DEF BudgetInv, Row, Session
  <2>3. CASE Start(w)
    <3>1. /\ wk[w].pc = "starting"
          /\ rows' = [rows EXCEPT ![k] = StartedRow(wk[w], @)]
          /\ runs' = [runs EXCEPT ![k] = @ + 1]
          /\ wk' = [wk EXCEPT ![w] = Expired("handling", k)]
      BY <2>3, <2>1 DEF Start
    <3>2. wk'[w].pc = "handling" /\ wk'[w].job = k /\ runs'[k] = runs[k] + 1
      BY <3>1, ExpiredFields DEF TypeOK
    <3>3. runs[k] < MaxAttempts
      BY <2>2, <3>1 DEF CopyInv
    <3>4. PhaseOf(k) = "waiting" /\ PhaseOf(k)' = "running"
      BY <2>1, <3>1, <3>2, PhaseOfWorker DEF PhaseIn
    <3>5. ASSUME NEW j \in JobIds, j # k PROVE Untouched(j)
      <4>1. rows'[j] = rows[j] /\ runs'[j] = runs[j]
        BY <3>1, <3>5 DEF TypeOK
      <4> QED BY <2>1, <3>2, <3>5, <4>1, PhaseOfWorker DEF Untouched, PhaseIn
    <3> QED BY <3>2, <3>3, <3>4, <3>5 DEF PhaseStep
  <2>4. ASSUME /\ wk[w].pc \in {"handling", "failing"} /\ runs' = runs
               /\ \A j \in JobIds : j # k => rows'[j] = rows[j]
               /\ wk'[w].job \in {k, NoJob}
        PROVE  /\ PhaseOf(k) = "running"
               /\ \A j \in JobIds : j # k => Untouched(j)
    BY <2>1, <2>4, PhaseOfWorker, JobIdsAssumption DEF Untouched, PhaseIn
  <2>5. CASE Succeed(w)
    <3>1. /\ wk[w].pc = "handling" /\ runs' = runs
          /\ wk' = [wk EXCEPT ![w] = Fresh]
          /\ rows' = [rows EXCEPT ![k] = Succeeded(@)]
      BY <2>5, <2>1 DEF Succeed, historyVars
    <3>2. /\ wk'[w].job = NoJob /\ wk'[w].pc = "poll"
          /\ rows'[k].status = "succeeded"
          /\ \A j \in JobIds : j # k => rows'[j] = rows[j]
      BY <2>1, <3>1, FreshFields, SucceededFields DEF TypeOK
    <3>3. PhaseOf(k)' = "settled"
      BY <3>2, PhaseOfWorker DEF PhaseIn
    <3> QED BY <2>4, <3>1, <3>2, <3>3 DEF PhaseStep
  <2>6. CASE HandlerRaises(w)
    <3>1. /\ wk[w].pc = "handling" /\ runs' = runs /\ rows' = rows
          /\ wk' = [wk EXCEPT ![w] = Loaded("failing", k, rows[k])]
      BY <2>6, <2>1 DEF HandlerRaises, tableVars, historyVars
    <3>2. wk'[w].pc = "failing" /\ wk'[w].job = k
      BY <3>1, LoadedFields DEF TypeOK
    <3>3. PhaseOf(k)' = "running"
      BY <3>2, PhaseOfWorker DEF PhaseIn
    <3> QED BY <2>4, <3>1, <3>2, <3>3 DEF PhaseStep
  <2>7. CASE SucceedThenRaise(w)
    <3>1. /\ wk[w].pc = "handling" /\ runs' = runs
          /\ rows' = [rows EXCEPT ![k] = Succeeded(rows[k])]
          /\ wk' = [wk EXCEPT ![w] = Loaded("failing", k, Succeeded(rows[k]))]
      BY <2>7, <2>1 DEF SucceedThenRaise, historyVars
    <3>2. /\ wk'[w].pc = "failing" /\ wk'[w].job = k
          /\ \A j \in JobIds : j # k => rows'[j] = rows[j]
      BY <3>1, LoadedFields DEF TypeOK
    <3>3. PhaseOf(k)' = "running"
      BY <3>2, PhaseOfWorker DEF PhaseIn
    <3> QED BY <2>4, <3>1, <3>2, <3>3 DEF PhaseStep
  <2>8. CASE FailCommit(w)
    <3>1. /\ wk[w].pc = "failing" /\ runs' = runs
          /\ rows' = [rows EXCEPT ![k] = FailedRow(wk[w], rows[k])]
          /\ wk' = [wk EXCEPT ![w] = Loaded("poll", k, FailedRow(wk[w], rows[k]))]
      BY <2>8, <2>1 DEF FailCommit
    <3>2. /\ wk'[w].pc = "poll" /\ wk'[w].job = k
          /\ \A j \in JobIds : j # k => rows'[j] = rows[j]
          /\ rows'[k].status = IF wk[w].attempts < MaxAttempts THEN "retrying" ELSE "dead"
      BY <2>1, <2>2, <3>1, FailedRowFields, LoadedFields DEF TypeOK, CopyInv, Touched, Flushed
    <3>3. wk[w].attempts < MaxAttempts => runs[k] < MaxAttempts
      BY <2>1, <2>2, <3>1, AttemptsAssumption DEF CopyInv
    <3>4. PhaseOf(k)' = IF wk[w].attempts < MaxAttempts THEN "waiting" ELSE "dead"
      BY <3>2, PhaseOfWorker DEF PhaseIn
    <3> QED BY <2>4, <3>1, <3>2, <3>3, <3>4 DEF PhaseStep
  <2>9. CASE FailNotifyLost(w) \/ Crash(w)
    <3>1. /\ runs' = runs /\ rows' = rows /\ wk'[w].job \in {k, NoJob} /\ wk'[w].pc = "poll"
      BY <2>9, <2>1, LoadedFields, FreshFields
         DEF FailNotifyLost, Crash, tableVars, TypeOK
    <3>2. PhaseOf(k)' = PhaseOfRow(rows[k].status)
      BY <3>1, PhaseOfWorker DEF PhaseIn
    <3>3. CASE wk[w].pc = "starting"
      <4>1. PhaseOf(k) = "waiting" /\ rows[k].status \in {"queued", "retrying", "canceled"}
        BY <2>1, <2>2, <3>3, PhaseOfWorker DEF PhaseIn, CopyInv, Status, Claimable
      <4>2. ASSUME NEW j \in JobIds, j # k PROVE Untouched(j)
        BY <2>1, <3>1, <4>2, PhaseOfWorker, JobIdsAssumption DEF Untouched, PhaseIn
      <4> QED BY <3>1, <3>2, <4>1, <4>2 DEF PhaseStep
    <3>4. CASE wk[w].pc \in {"handling", "failing"}
      <4>1. rows[k].status \in {"running", "succeeded", "canceled"}
        BY <2>2, <3>4 DEF CopyInv, Touched, Status
      <4> QED BY <2>4, <3>1, <3>2, <3>4, <4>1 DEF PhaseStep
    <3> QED BY <1>3, <2>1, <3>3, <3>4 DEF Session
  <2> QED BY <1>1, <1>2, <2>3, <2>5, <2>6, <2>7, <2>8, <2>9 DEF WorkerStep
<1> QED BY <1>1, <1>2, <1>3
        DEF WorkerStep, Crash, Start, Succeed, HandlerRaises, SucceedThenRaise,
            FailCommit, FailNotifyLost

LEMMA ProducerPhases ==
  ASSUME SingleWorker, BudgetInv, TypeOK, TypeOK',
         NEW p \in Producers, EnqueueLookup(p) \/ EnqueueInsert(p)
  PROVE  \/ \A j \in JobIds : Untouched(j)
         \/ \E k \in JobIds : PhaseStep(k) /\ \A j \in JobIds : j # k => Untouched(j)
<1>1. CASE EnqueueLookup(p)
  BY <1>1, PhaseKept DEF EnqueueLookup, tableVars, historyVars, Untouched
<1>2. CASE EnqueueInsert(p)
  <2>1. PICK k \in JobIds, pr \in Priorities :
          /\ rows[k].status = "absent"
          /\ rows' = [rows EXCEPT ![k] =
               [status |-> "queued", attempts |-> 0, available |-> now,
                priority |-> pr, key |-> prod[p].key]]
    BY <1>2 DEF EnqueueInsert, Status
  <2>2. /\ rows'[k].status = "queued"
        /\ \A j \in JobIds : j # k => rows'[j] = rows[j]
        /\ wk' = wk /\ runs' = runs
    BY <1>2, <2>1 DEF EnqueueInsert, TypeOK, historyVars
  <2>3. \A w \in Workers : wk[w].job # k
    BY <2>1 DEF BudgetInv, CopyInv, Status
  <2>4. PhaseOf(k) = "absent" /\ PhaseOf(k)' = "waiting"
    BY <2>1, <2>2, <2>3, PhasesOfRows DEF PhaseOf, Executing, Status
  <2>5. \A j \in JobIds : j # k => Untouched(j)
    BY <2>2, PhaseKept DEF Untouched
  <2> QED BY <2>2, <2>4, <2>5 DEF PhaseStep
<1> QED BY <1>1, <1>2

LEMMA AdminPhases ==
  ASSUME SingleAdmin, SingleWorker, BudgetInv, TypeOK, TypeOK',
         NEW a \in Admins, AdminStep(a)
  PROVE  \/ \A j \in JobIds : Untouched(j)
         \/ \E k \in JobIds : PhaseStep(k) /\ \A j \in JobIds : j # k => Untouched(j)
<1>1. CASE \E j \in JobIds : CancelRead(a, j) \/ RequeueRead(a, j)
  BY <1>1, PhaseKept DEF CancelRead, RequeueRead, tableVars, historyVars, Untouched
<1>2. CASE CancelCommit(a) \/ RequeueCommit(a)
  <2>1. PICK k \in JobIds : k = adm[a].job
    BY <1>2 DEF CancelCommit, RequeueCommit, TypeOK, Edit
  <2>2. /\ adm[a] \in Edit /\ rows[k] \in Row /\ rows[k].status \in Statuses
        /\ EditInv(adm[a]) /\ wk' = wk
    BY <1>2, <2>1 DEF CancelCommit, RequeueCommit, TypeOK, BudgetInv, Row
  <2>3. CASE CancelCommit(a)
    <3>1. /\ rows' = [rows EXCEPT ![k] = [@ EXCEPT !.status = "canceled"]]
          /\ runs' = runs /\ rows[k].status # "absent"
      BY <2>1, <2>2, <2>3 DEF CancelCommit, historyVars, EditInv, Status
    <3>2. /\ rows'[k].status = "canceled"
          /\ \A j \in JobIds : j # k => rows'[j] = rows[j]
      BY <2>2, <3>1 DEF TypeOK, Row
    <3>3. \A j \in JobIds : j # k => Untouched(j)
      BY <2>2, <3>1, <3>2, PhaseKept DEF Untouched
    <3>4. CASE \E w \in Workers : wk[w].pc # "poll" /\ wk[w].job = k
      <4>1. PICK w \in Workers : wk[w].pc # "poll" /\ wk[w].job = k
        BY <3>4
      <4>2. PhaseOf(k)' = PhaseOf(k)
        BY <2>2, <4>1, PhaseOfWorker DEF PhaseIn, TypeOK, Session
      <4> QED BY <3>1, <3>3, <4>2 DEF PhaseStep
    <3>5. CASE ~\E w \in Workers : wk[w].pc # "poll" /\ wk[w].job = k
      <4>1. PhaseOf(k) = PhaseOfRow(rows[k].status) /\ PhaseOf(k)' = "settled"
        BY <2>2, <3>2, <3>5, PhasesOfRows DEF PhaseOf, Executing, Status
      <4>2. rows[k].status \in
              {"running", "queued", "retrying", "succeeded", "dead", "canceled"}
        BY <2>2, <3>1 DEF Statuses, Claimable, Terminal
      <4> QED BY <3>1, <3>3, <4>1, <4>2, PhasesOfRows DEF PhaseStep
    <3> QED BY <3>4, <3>5
  <2>4. CASE RequeueCommit(a)
    <3>1. /\ rows' = [rows EXCEPT ![k] = RequeuedRow(adm[a], @)]
          /\ runs' = [runs EXCEPT ![k] = 0] /\ rows[k].status = "dead"
      BY <2>1, <2>2, <2>4 DEF RequeueCommit, EditInv, Status
    <3>2. /\ rows'[k].status = "queued" /\ runs'[k] = 0
          /\ \A j \in JobIds : j # k => rows'[j] = rows[j] /\ runs'[j] = runs[j]
      BY <2>2, <3>1, RequeuedRowFields DEF TypeOK
    <3>3. \A j \in JobIds : j # k => Untouched(j)
      BY <2>2, <3>2, PhaseKept DEF Untouched
    <3>4. \A w \in Workers : wk[w].job = k => wk[w].pc = "poll"
      <4>1. ASSUME NEW w \in Workers, wk[w].job = k PROVE wk[w].pc = "poll"
        <5>1. CopyInv(wk[w], k) /\ wk[w] \in Session
          BY <4>1 DEF BudgetInv, TypeOK
        <5> QED BY <3>1, <5>1 DEF CopyInv, Touched, Claimable, Session, Status
      <4> QED BY <4>1
    <3>5. PhaseOf(k) = "dead" /\ PhaseOf(k)' = "waiting"
      BY <2>2, <3>1, <3>2, <3>4, PhasesOfRows DEF PhaseOf, Executing, Status
    <3> QED BY <3>2, <3>3, <3>5 DEF PhaseStep
  <2> QED BY <1>2, <2>3, <2>4
<1> QED BY <1>1, <1>2 DEF AdminStep

-----------------------------------------------------------------------------
LEMMA RefinementStep ==
  ASSUME SingleWorker, SingleAdmin
  PROVE  TypeOK /\ TypeOK' /\ BudgetInv /\ [Next]_vars
           => [Promise!LifecycleNext]_<<PhaseMap, LeftMap>>
<1> SUFFICES ASSUME TypeOK, TypeOK', BudgetInv, [Next]_vars
             PROVE  [Promise!LifecycleNext]_<<PhaseMap, LeftMap>>
  OBVIOUS
<1>1. ASSUME \A j \in JobIds : Untouched(j)
      PROVE  [Promise!LifecycleNext]_<<PhaseMap, LeftMap>>
  BY <1>1 DEF Untouched, PhaseMap, LeftMap
<1>2. CASE Tick \/ UNCHANGED vars
  BY <1>1, <1>2, PhaseKept DEF Tick, vars, historyVars, Untouched
<1> QED BY <1>1, <1>2, Lift, WorkerPhases, ProducerPhases, AdminPhases DEF Next

LEMMA RefinementInit == Init => Promise!LifecycleInit
<1> SUFFICES ASSUME Init PROVE Promise!LifecycleInit
  OBVIOUS
<1>1. ASSUME NEW j \in JobIds PROVE PhaseOf(j) = "absent" /\ MaxAttempts - runs[j] = MaxAttempts
  BY FreshFields, PhasesOfRows, AttemptsAssumption
     DEF Init, PhaseOf, Executing, Status, NoRow
<1> QED BY <1>1 DEF Promise!LifecycleInit

(* One worker and one administrator: the job engine implements the         *)
(* lifecycle it promises, whatever fails and whoever interferes.           *)
THEOREM PromiseKept ==
  ASSUME SingleWorker, SingleAdmin
  PROVE  Spec => KeepsPromise
<1>1. TypeOK /\ TypeOK' /\ BudgetInv /\ [Next]_vars
        => [Promise!LifecycleNext]_<<PhaseMap, LeftMap>>
  BY RefinementStep
<1>2. Spec => Promise!LifecycleInit /\ [][Promise!LifecycleNext]_<<PhaseMap, LeftMap>>
  BY <1>1, BudgetInit, BudgetStep, RefinementInit, TypeCorrect, PTL DEF Spec
<1> QED BY <1>2, PTL DEF KeepsPromise, Promise!LifecycleSpec, PhaseMap, LeftMap
=============================================================================
