------------------------------ MODULE JobQueue ------------------------------
(***************************************************************************)
(* The background job engine of services/saas/jobs.py: the table           *)
(* background_jobs, the worker loops that drain it, the API threads that   *)
(* enqueue into it and the administrators that cancel and replay its rows. *)
(*                                                                         *)
(* The table is the queue.  Every actor has a database session of its own  *)
(* that reads a row in one transaction and writes it in a later one; no    *)
(* row is locked and no row carries a version.  A session writes only the  *)
(* columns whose new value differs from the value it had loaded.           *)
(***************************************************************************)
EXTENDS Integers, FiniteSets

CONSTANTS
  JobIds,       \* primary keys background_jobs can hand out, in this order
  Workers,      \* sessions that call run_pending: worker processes, POST /run
  Producers,    \* API threads that call enqueue
  Admins,       \* API threads that call cancel_job and requeue_dead
  Keys,         \* idempotency keys
  Priorities,   \* values of the priority column (lower = sooner)
  MaxAttempts,  \* the max_attempts column
  NoKey, NoJob, \* None
  DbErrors,     \* whether a commit or a refresh may raise
  MaxCrashes,   \* bound: worker deaths and aborted ticks
  MaxReplays,   \* bound: requeue_dead calls for each row
  MaxTime       \* bound: how far the clock runs while nobody waits for it

ASSUME JobIdsAssumption     == JobIds \subseteq Nat /\ NoJob \notin JobIds
ASSUME KeysAssumption       == NoKey \notin Keys
ASSUME PrioritiesAssumption == Priorities \subseteq Int
ASSUME AttemptsAssumption   == MaxAttempts \in Nat \ {0}
ASSUME BoundsAssumption     == /\ DbErrors \in BOOLEAN
                               /\ {MaxCrashes, MaxReplays, MaxTime} \subseteq Nat

VARIABLES
  rows,     \* background_jobs
  now,      \* the clock, in seconds
  wk,       \* each worker: where it is, and the copy of a row it has loaded
  prod,     \* each producer between its lookup and its insert
  adm,      \* each administrator between the read and the write of a row
  (* History, which no action reads but for the bounds: *)
  runs,     \* handler executions of a row since it was last put in the queue
  failedAt, \* when the last failure of a row was recorded
  lost,     \* rows whose worker went away without recording an outcome
  replays,  \* requeue_dead calls of a row
  crashes   \* worker deaths so far

tableVars   == <<rows, now>>
historyVars == <<runs, failedAt, lost, replays, crashes>>
vars        == <<rows, now, wk, prod, adm, runs, failedAt, lost, replays, crashes>>

-----------------------------------------------------------------------------
(* Types *)

Claimable == {"queued", "retrying"}
Terminal  == {"succeeded", "dead", "canceled"}
Live      == {"queued", "running", "retrying", "succeeded"}
Statuses  == {"absent", "running"} \cup Claimable \cup Terminal

Row     == [status : Statuses, attempts : Nat, available : Int,
            priority : Int, key : Keys \cup {NoKey}]
Session == [pc : {"poll", "starting", "handling", "failing"},
            job : JobIds \cup {NoJob}, status : Statuses, attempts : Nat]
Request == [pc : {"idle", "inserting"}, key : Keys \cup {NoKey}]
Edit    == [pc : {"idle", "cancel", "requeue"},
            job : JobIds \cup {NoJob}, attempts : Nat]

NoRow      == [status |-> "absent", attempts |-> 0, available |-> 0,
               priority |-> 0, key |-> NoKey]
Fresh      == [pc |-> "poll", job |-> NoJob, status |-> "absent", attempts |-> 0]
NoRequest  == [pc |-> "idle", key |-> NoKey]
NoEdit     == [pc |-> "idle", job |-> NoJob, attempts |-> 0]

TypeOK ==
  /\ rows \in [JobIds -> Row]
  /\ now \in Nat
  /\ wk \in [Workers -> Session]
  /\ \A w \in Workers : wk[w].pc # "poll" => wk[w].job # NoJob
  /\ prod \in [Producers -> Request]
  /\ adm \in [Admins -> Edit]
  /\ \A a \in Admins : adm[a].pc # "idle" => adm[a].job # NoJob
  /\ runs \in [JobIds -> Nat]
  /\ failedAt \in [JobIds -> Nat]
  /\ lost \subseteq JobIds
  /\ replays \in [JobIds -> Nat]
  /\ crashes \in Nat

Init ==
  /\ rows = [j \in JobIds |-> NoRow]
  /\ now = 0
  /\ wk = [w \in Workers |-> Fresh]
  /\ prod = [p \in Producers |-> NoRequest]
  /\ adm = [a \in Admins |-> NoEdit]
  /\ runs = [j \in JobIds |-> 0]
  /\ failedAt = [j \in JobIds |-> 0]
  /\ lost = {}
  /\ replays = [j \in JobIds |-> 0]
  /\ crashes = 0

-----------------------------------------------------------------------------
(* What a flush writes into a column: the new value, unless it equals the  *)
(* value the session had loaded, in which case the column is left alone.   *)
Flushed(loaded, new, stored) == IF new = loaded THEN stored ELSE new

Status(j) == rows[j].status

(* Mutant: only rows never tried are claimable. *)
ReadyQueuedOnly == {j \in JobIds : Status(j) = "queued" /\ rows[j].available <= now}
Ready     == {j \in JobIds : Status(j) \in Claimable /\ rows[j].available <= now}

(* ORDER BY priority, available_at, id *)
Before(i, j) ==
  LET a == rows[i]  b == rows[j] IN
  \/ a.priority < b.priority
  \/ a.priority = b.priority /\ a.available < b.available
  \/ a.priority = b.priority /\ a.available = b.available /\ i < j

(* 2 ** attempts seconds *)
Backoff(attempts) == 2 ^ attempts

-----------------------------------------------------------------------------
(* Producers: enqueue looks the key up, then inserts. *)

(* Mutant: the lookup finds only rows that still wait. *)
EnqueueLookupWaiting(p) ==
  /\ prod[p].pc = "idle"
  /\ \E k \in Keys \cup {NoKey} :
       /\ k # NoKey => ~\E j \in JobIds : rows[j].key = k /\ Status(j) \in Claimable
       /\ prod' = [prod EXCEPT ![p] = [pc |-> "inserting", key |-> k]]
  /\ UNCHANGED <<tableVars, wk, adm, historyVars>>

EnqueueLookup(p) ==
  /\ prod[p].pc = "idle"
  /\ \E k \in Keys \cup {NoKey} :
       /\ k # NoKey => ~\E j \in JobIds : rows[j].key = k /\ Status(j) \in Live
       /\ prod' = [prod EXCEPT ![p] = [pc |-> "inserting", key |-> k]]
  /\ UNCHANGED <<tableVars, wk, adm, historyVars>>

EnqueueInsert(p) ==
  /\ prod[p].pc = "inserting"
  /\ \E j \in JobIds, pr \in Priorities :
       /\ Status(j) = "absent"
       /\ \A i \in JobIds : i < j => Status(i) # "absent"
       /\ rows' = [rows EXCEPT ![j] =
                     [status |-> "queued", attempts |-> 0, available |-> now,
                      priority |-> pr, key |-> prod[p].key]]
  /\ prod' = [prod EXCEPT ![p] = NoRequest]
  /\ UNCHANGED <<now, wk, adm, historyVars>>

-----------------------------------------------------------------------------
(* Workers: run_pending claims one row after another, and _run_job commits *)
(* "running", calls the handler and commits the outcome.                   *)

Loaded(pc, j, row) ==
  [pc |-> pc, job |-> j, status |-> row.status, attempts |-> row.attempts]
Expired(pc, j) ==
  [pc |-> pc, job |-> j, status |-> "absent", attempts |-> 0]

(* The SELECT chooses the row by what the table holds, but a row that the  *)
(* session still has loaded is handed out as it was loaded.                *)
ClaimNext(w) ==
  /\ wk[w].pc = "poll"
  /\ \E j \in Ready :
       /\ \A i \in Ready \ {j} : Before(j, i)
       /\ wk' = [wk EXCEPT ![w] = IF @.job = j THEN [@ EXCEPT !.pc = "starting"]
                                  ELSE Loaded("starting", j, rows[j])]
  /\ UNCHANGED <<tableVars, prod, adm, historyVars>>

(* The pass is over (nothing ready, or max_jobs reached): the session closes. *)
EndPass(w) ==
  /\ wk[w].pc = "poll" /\ wk[w] # Fresh
  /\ wk' = [wk EXCEPT ![w] = Fresh]
  /\ UNCHANGED <<tableVars, prod, adm, historyVars>>

(* What the commit of "running" writes from the copy s. *)
StartedRow(s, row) ==
  [row EXCEPT !.status = Flushed(s.status, "running", @),
              !.attempts = s.attempts + 1]

Start(w) ==
  /\ wk[w].pc = "starting"
  /\ LET j == wk[w].job IN
       /\ rows' = [rows EXCEPT ![j] = StartedRow(wk[w], @)]
       /\ wk' = [wk EXCEPT ![w] = Expired("handling", j)]
       /\ runs' = [runs EXCEPT ![j] = @ + 1]
  /\ UNCHANGED <<now, prod, adm, failedAt, lost, replays, crashes>>

Succeeded(row) == [row EXCEPT !.status = "succeeded"]

Succeed(w) ==
  /\ wk[w].pc = "handling"
  /\ rows' = [rows EXCEPT ![wk[w].job] = Succeeded(@)]
  /\ wk' = [wk EXCEPT ![w] = Fresh]
  /\ UNCHANGED <<now, prod, adm, historyVars>>

(* Mutant: the exception is logged and _fail is not called. *)
HandlerRaisesSwallowed(w) ==
  /\ wk[w].pc = "handling"
  /\ wk' = [wk EXCEPT ![w] = Fresh]
  /\ UNCHANGED <<tableVars, prod, adm, historyVars>>

(* The handler, or the commit of its success, raised (a missing handler    *)
(* takes the same path): _fail loads the row anew.                         *)
HandlerRaises(w) ==
  /\ wk[w].pc = "handling"
  /\ wk' = [wk EXCEPT ![w] = Loaded("failing", @.job, rows[@.job])]
  /\ UNCHANGED <<tableVars, prod, adm, historyVars>>

(* The success is committed, but the refresh after it raises. *)
SucceedThenRaise(w) ==
  /\ DbErrors
  /\ wk[w].pc = "handling"
  /\ LET j == wk[w].job
         row == Succeeded(rows[j])
     IN /\ rows' = [rows EXCEPT ![j] = row]
        /\ wk' = [wk EXCEPT ![w] = Loaded("failing", j, row)]
  /\ UNCHANGED <<now, prod, adm, historyVars>>

(* Mutants: one attempt too many, one too few, and a retry without delay. *)
FailedRowLate(s, row) ==
  IF s.attempts <= MaxAttempts
  THEN [row EXCEPT !.status = Flushed(s.status, "retrying", @),
                   !.available = now + Backoff(s.attempts)]
  ELSE [row EXCEPT !.status = Flushed(s.status, "dead", @)]

FailedRowEarly(s, row) ==
  IF s.attempts + 1 < MaxAttempts
  THEN [row EXCEPT !.status = Flushed(s.status, "retrying", @),
                   !.available = now + Backoff(s.attempts)]
  ELSE [row EXCEPT !.status = Flushed(s.status, "dead", @)]

FailedRowAtOnce(s, row) ==
  IF s.attempts < MaxAttempts
  THEN [row EXCEPT !.status = Flushed(s.status, "retrying", @), !.available = now]
  ELSE [row EXCEPT !.status = Flushed(s.status, "dead", @)]

(* What _fail decides from the copy it loaded. *)
FailedRow(s, row) ==
  IF s.attempts < MaxAttempts
  THEN [row EXCEPT !.status = Flushed(s.status, "retrying", @),
                   !.available = now + Backoff(s.attempts)]
  ELSE [row EXCEPT !.status = Flushed(s.status, "dead", @)]

(* _notify's event commits the decision together with the event. *)
FailCommit(w) ==
  /\ wk[w].pc = "failing"
  /\ LET j == wk[w].job
         row == FailedRow(wk[w], rows[j])
     IN /\ rows' = [rows EXCEPT ![j] = row]
        /\ wk' = [wk EXCEPT ![w] = Loaded("poll", j, row)]
        /\ failedAt' = [failedAt EXCEPT ![j] = now]
  /\ UNCHANGED <<now, prod, adm, runs, lost, replays, crashes>>

(* The event's commit raises: the rollback in _notify takes the decision   *)
(* with it, and the commit that follows has nothing left to write.         *)
FailNotifyLost(w) ==
  /\ DbErrors
  /\ wk[w].pc = "failing"
  /\ wk' = [wk EXCEPT ![w] = Loaded("poll", @.job, rows[@.job])]
  /\ lost' = lost \cup {wk[w].job}
  /\ UNCHANGED <<tableVars, prod, adm, runs, failedAt, replays, crashes>>

(* The process is killed, or an exception leaves run_pending and the tick  *)
(* is abandoned; the loop comes back with a fresh session.                 *)
Crash(w) ==
  /\ crashes < MaxCrashes
  /\ wk[w].pc # "poll"
  /\ crashes' = crashes + 1
  /\ wk' = [wk EXCEPT ![w] = Fresh]
  /\ lost' = IF wk[w].pc = "starting" THEN lost ELSE lost \cup {wk[w].job}
  /\ UNCHANGED <<tableVars, prod, adm, runs, failedAt, replays>>

-----------------------------------------------------------------------------
(* Administrators: each call reads the row, checks it, then writes it. *)

CancelRead(a, j) ==
  /\ adm[a].pc = "idle"
  /\ Status(j) \in Claimable
  /\ adm' = [adm EXCEPT ![a] = [pc |-> "cancel", job |-> j, attempts |-> 0]]
  /\ UNCHANGED <<tableVars, wk, prod, historyVars>>

CancelCommit(a) ==
  /\ adm[a].pc = "cancel"
  /\ rows' = [rows EXCEPT ![adm[a].job] = [@ EXCEPT !.status = "canceled"]]
  /\ adm' = [adm EXCEPT ![a] = NoEdit]
  /\ UNCHANGED <<now, wk, prod, historyVars>>

(* Mutant: any row that has ended can be replayed. *)
RequeueReadEnded(a, j) ==
  /\ adm[a].pc = "idle"
  /\ Status(j) \in Terminal
  /\ replays[j] < MaxReplays
  /\ adm' = [adm EXCEPT ![a] = [pc |-> "requeue", job |-> j,
                                attempts |-> rows[j].attempts]]
  /\ UNCHANGED <<tableVars, wk, prod, historyVars>>

RequeueRead(a, j) ==
  /\ adm[a].pc = "idle"
  /\ Status(j) = "dead"
  /\ replays[j] < MaxReplays
  /\ adm' = [adm EXCEPT ![a] = [pc |-> "requeue", job |-> j,
                                attempts |-> rows[j].attempts]]
  /\ UNCHANGED <<tableVars, wk, prod, historyVars>>

(* Mutant: a replay grants one attempt more than max_attempts. *)
RequeuedRowBonus(e, row) ==
  [row EXCEPT !.status = "queued", !.attempts = -1, !.available = now]

(* requeue_dead makes the row claimable now, with no attempts behind it. *)
RequeuedRow(e, row) ==
  [row EXCEPT !.status = "queued",
              !.attempts = Flushed(e.attempts, 0, @),
              !.available = now]

RequeueCommit(a) ==
  /\ adm[a].pc = "requeue"
  /\ LET j == adm[a].job IN
       /\ rows' = [rows EXCEPT ![j] = RequeuedRow(adm[a], @)]
       /\ runs' = [runs EXCEPT ![j] = 0]
       /\ replays' = [replays EXCEPT ![j] = @ + 1]
  /\ adm' = [adm EXCEPT ![a] = NoEdit]
  /\ UNCHANGED <<now, wk, prod, failedAt, lost, crashes>>

-----------------------------------------------------------------------------
Waiting == {j \in JobIds : Status(j) \in Claimable /\ rows[j].available > now}

Tick ==
  /\ now < MaxTime \/ Waiting # {}
  /\ now' = now + 1
  /\ UNCHANGED <<rows, wk, prod, adm, historyVars>>

WorkerStep(w) ==
  \/ ClaimNext(w) \/ EndPass(w) \/ Start(w) \/ Succeed(w) \/ HandlerRaises(w)
  \/ SucceedThenRaise(w) \/ FailCommit(w) \/ FailNotifyLost(w)

AdminStep(a) ==
  \/ \E j \in JobIds : CancelRead(a, j) \/ RequeueRead(a, j)
  \/ CancelCommit(a) \/ RequeueCommit(a)

Next ==
  \/ \E w \in Workers : WorkerStep(w) \/ Crash(w)
  \/ \E p \in Producers : EnqueueLookup(p) \/ EnqueueInsert(p)
  \/ \E a \in Admins : AdminStep(a)
  \/ Tick

Spec == Init /\ [][Next]_vars

(* The worker loop polls for ever and time passes; clients need not act. *)
FairSpec == Spec /\ WF_vars(Tick) /\ \A w \in Workers : WF_vars(WorkerStep(w))

-----------------------------------------------------------------------------
(* Properties *)

Executing(w, j) == wk[w].pc \in {"handling", "failing"} /\ wk[w].job = j
OnIt(w, j)      == wk[w].pc # "poll" /\ wk[w].job = j

(* A row says "running" only while some worker is executing it, or after   *)
(* the worker that did was killed or lost its outcome.  No other race of   *)
(* claims, cancels and replays leaves a row in "running".                  *)
RunningIsOwnedOrLost ==
  \A j \in JobIds : Status(j) = "running" =>
      j \in lost \/ \E w \in Workers : Executing(w, j)

(* max_attempts bounds how often a handler really runs between two         *)
(* replays, whatever fails on the way (one worker, one administrator).     *)
ExecutionsBounded == \A j \in JobIds : runs[j] <= MaxAttempts

(* A row in the dead-letter queue has used up its attempts. *)
DeadIsExhausted ==
  \A j \in JobIds : Status(j) = "dead" => rows[j].attempts >= MaxAttempts

(* After a recorded failure no handler runs the row again before its       *)
(* exponential backoff is over, unless the row was replayed in between.    *)
BackoffRespected ==
  [][\A j \in JobIds : (runs[j] > 0 /\ runs'[j] = runs[j] + 1)
        => now >= failedAt[j] + Backoff(runs[j])]_vars

(* A recorded success is final, except for a cancel_job call that had read *)
(* the row before the worker claimed it, and for the worker whose refresh  *)
(* after the commit of the success raised (one worker, one administrator). *)
SuccessIsFinal ==
  [][\A j \in JobIds : Status(j) = "succeeded" /\ Status(j)' # "succeeded"
        => \/ \E a \in Admins : adm[a].pc = "cancel" /\ adm[a].job = j
           \/ DbErrors /\ \E w \in Workers : wk[w].pc = "failing" /\ wk[w].job = j]_vars

(* Every enqueued row is settled, or its worker went away with it. *)
EventuallySettledOrLost ==
  \A j \in JobIds : Status(j) = "queued" ~> Status(j) \in Terminal \/ j \in lost

(* The same key returns the same job: no two live rows share a key (one    *)
(* producer, one worker, no administrator: two producers both find the key *)
(* free, and a replay or a second worker's old copy revives a dead row).   *)
KeysUnique ==
  \A i, j \in JobIds :
    /\ rows[i].key = rows[j].key /\ rows[i].key # NoKey
    /\ {Status(i), Status(j)} \subseteq Live
    => i = j

(* Statements of the documentation and the tests *)

(* "canceled jobs are not run" *)
CanceledIsFinal ==
  [][\A j \in JobIds : Status(j) = "canceled" => Status(j)' = "canceled"]_vars

(* Adding a worker adds throughput: no two of them execute one row. *)
OneExecutorPerJob ==
  \A j \in JobIds, v, w \in Workers : Executing(v, j) /\ Executing(w, j) => v = w

=============================================================================
