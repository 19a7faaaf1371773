---------------------------- MODULE JobScheduler ----------------------------
(***************************************************************************)
(* Recurring jobs: create_schedule and tick_schedules of                   *)
(* services/saas/jobs.py over the table job_schedules.  A ticker is a      *)
(* session that runs tick_schedules: the scheduler process, or an API      *)
(* thread serving POST /api/saas/jobs/schedules/tick.                      *)
(*                                                                         *)
(* A tick reads the due schedules once.  For each of them it inserts a job *)
(* and commits, and only then moves the schedule forward in its session,   *)
(* where the move waits for the next commit: the insert of the job of the  *)
(* next schedule, or the commit after the loop.                            *)
(***************************************************************************)
EXTENDS Integers, FiniteSets, FiniteSetsExt

CONSTANTS
  Schedules,  \* rows create_schedule may insert
  Tickers,    \* sessions that run tick_schedules
  Interval,   \* the interval_seconds of each schedule
  None,
  MaxTime,    \* bound of the clock
  MaxAborts   \* bound: ticks cut short by a crash or an exception

ASSUME IntervalAssumption == Interval \in [Schedules -> Nat \ {0}]
ASSUME NoneAssumption     == None \notin Schedules \cup Nat
ASSUME FiniteAssumption   == IsFiniteSet(Schedules) /\ IsFiniteSet(Tickers)
ASSUME BoundsAssumption   == {MaxTime, MaxAborts} \subseteq Nat

VARIABLES
  now,       \* the clock
  nextRun,   \* next_run_at of each schedule, None before it is created
  tk,        \* each ticker: idle, or in the loop of a tick
  (* History: *)
  jobs,      \* jobs inserted for a schedule
  advances,  \* committed moves of a schedule's next_run_at
  lastTick,  \* the time of the tick that last inserted a job of a schedule
  torn,      \* schedules whose move was lost after their job was inserted
  aborts

vars == <<now, nextRun, tk, jobs, advances, lastTick, torn, aborts>>

(* now: the tick's timestamp; due: schedules still to visit; dirty: the    *)
(* schedule moved in the session and not yet committed.                    *)
Idle   == [pc |-> "idle", now |-> 0, due |-> {}, dirty |-> None]
Ticker == [pc : {"idle", "loop"}, now : Nat, due : SUBSET Schedules,
           dirty : Schedules \cup {None}]

TypeOK ==
  /\ now \in Nat
  /\ nextRun \in [Schedules -> Nat \cup {None}]
  /\ tk \in [Tickers -> Ticker]
  /\ \A t \in Tickers : tk[t].due \subseteq {s \in Schedules : nextRun[s] # None}
  /\ jobs \in [Schedules -> Nat]
  /\ advances \in [Schedules -> Nat]
  /\ lastTick \in [Schedules -> Int]
  /\ torn \subseteq Schedules
  /\ aborts \in Nat

Init ==
  /\ now = 0
  /\ nextRun = [s \in Schedules |-> None]
  /\ tk = [t \in Tickers |-> Idle]
  /\ jobs = [s \in Schedules |-> 0]
  /\ advances = [s \in Schedules |-> 0]
  /\ lastTick = [s \in Schedules |-> -Interval[s]]
  /\ torn = {}
  /\ aborts = 0

-----------------------------------------------------------------------------
Due(s) == nextRun[s] # None /\ nextRun[s] <= now

CreateSchedule(s) ==
  /\ nextRun[s] = None
  /\ nextRun' = [nextRun EXCEPT ![s] = now]
  /\ UNCHANGED <<now, tk, jobs, advances, lastTick, torn, aborts>>

(* Mutant: the tick visits every schedule, created or not. *)
TickBeginAll(t) ==
  /\ tk[t].pc = "idle"
  /\ \E s \in Schedules : Due(s)
  /\ tk' = [tk EXCEPT ![t] = [pc |-> "loop", now |-> now, dirty |-> None,
                              due |-> Schedules]]
  /\ UNCHANGED <<now, nextRun, jobs, advances, lastTick, torn, aborts>>

(* due_schedules *)
TickBegin(t) ==
  /\ tk[t].pc = "idle"
  /\ \E s \in Schedules : Due(s)
  /\ tk' = [tk EXCEPT ![t] = [pc |-> "loop", now |-> now, dirty |-> None,
                              due |-> {s \in Schedules : Due(s)}]]
  /\ UNCHANGED <<now, nextRun, jobs, advances, lastTick, torn, aborts>>

(* Mutant: the schedule is moved to the time of the tick. *)
CommitNoInterval(t) ==
  LET s == tk[t].dirty IN
  IF s = None THEN UNCHANGED <<nextRun, advances, torn>>
  ELSE /\ nextRun' = [nextRun EXCEPT ![s] = tk[t].now]
       /\ advances' = [advances EXCEPT ![s] = @ + 1]
       /\ torn' = torn \ {s}

(* A commit of ticker t's session writes the move it holds. *)
Commit(t) ==
  LET s == tk[t].dirty IN
  IF s = None THEN UNCHANGED <<nextRun, advances, torn>>
  ELSE /\ nextRun' = [nextRun EXCEPT ![s] = tk[t].now + Interval[s]]
       /\ advances' = [advances EXCEPT ![s] = @ + 1]
       /\ torn' = torn \ {s}

(* Mutant: the job is inserted through another session. *)
TickEnqueueApart(t, s) ==
  /\ tk[t].pc = "loop"
  /\ s \in tk[t].due
  /\ jobs' = [jobs EXCEPT ![s] = @ + 1]
  /\ lastTick' = [lastTick EXCEPT ![s] = tk[t].now]
  /\ tk' = [tk EXCEPT ![t].due = @ \ {s}, ![t].dirty = s]
  /\ UNCHANGED <<now, nextRun, advances, torn, aborts>>

(* enqueue's commit inserts the job and carries the previous move; the     *)
(* loop then moves this schedule in the session.                           *)
TickEnqueue(t, s) ==
  /\ tk[t].pc = "loop"
  /\ s \in tk[t].due
  /\ Commit(t)
  /\ jobs' = [jobs EXCEPT ![s] = @ + 1]
  /\ lastTick' = [lastTick EXCEPT ![s] = tk[t].now]
  /\ tk' = [tk EXCEPT ![t].due = @ \ {s}, ![t].dirty = s]
  /\ UNCHANGED <<now, aborts>>

(* Mutant: the tick never reports that it is over. *)
TickEndStuck(t) ==
  /\ tk[t].pc = "loop"
  /\ tk[t].due = {}
  /\ Commit(t)
  /\ tk' = [tk EXCEPT ![t].dirty = None]
  /\ UNCHANGED <<now, jobs, lastTick, aborts>>

TickEnd(t) ==
  /\ tk[t].pc = "loop"
  /\ tk[t].due = {}
  /\ Commit(t)
  /\ tk' = [tk EXCEPT ![t] = Idle]
  /\ UNCHANGED <<now, jobs, lastTick, aborts>>

(* The process dies, or an exception ends the tick and the session is      *)
(* rolled back: the move it holds is gone, the inserted job stays.         *)
TickAbort(t) ==
  /\ aborts < MaxAborts
  /\ tk[t].pc = "loop"
  /\ aborts' = aborts + 1
  /\ torn' = IF tk[t].dirty = None THEN torn ELSE torn \cup {tk[t].dirty}
  /\ tk' = [tk EXCEPT ![t] = Idle]
  /\ UNCHANGED <<now, nextRun, jobs, advances, lastTick>>

Clock ==
  /\ now < MaxTime
  /\ now' = now + 1
  /\ UNCHANGED <<nextRun, tk, jobs, advances, lastTick, torn, aborts>>

TickStep(t) == TickBegin(t) \/ (\E s \in Schedules : TickEnqueue(t, s)) \/ TickEnd(t)

Next ==
  \/ \E s \in Schedules : CreateSchedule(s)
  \/ \E t \in Tickers : TickStep(t) \/ TickAbort(t)
  \/ Clock

Spec == Init /\ [][Next]_vars

(* The scheduler's loop ticks for ever. *)
FairSpec == Spec /\ \A t \in Tickers : WF_vars(TickStep(t))

-----------------------------------------------------------------------------
(* Properties *)

(* Each tick cut short duplicates the job of at most one schedule, however *)
(* many schedules the tick was visiting: the jobs inserted exceed the      *)
(* recorded moves by at most the aborted ticks and the ticks in progress.  *)
OneDuplicatePerAbort ==
  MapThenSumSet(LAMBDA s : jobs[s] - advances[s], Schedules)
    <= aborts + Cardinality({t \in Tickers : tk[t].dirty # None})

(* A schedule's jobs come from ticks at least an interval apart, unless    *)
(* the move after the previous job was lost.  True of one ticker; with two *)
(* it fails, although keeping a single scheduler replica is documented "to *)
(* avoid duplicate scheduling".                                            *)
NoEarlyRepeat ==
  [][\A s \in Schedules : jobs'[s] > jobs[s]
        => lastTick'[s] >= lastTick[s] + Interval[s] \/ s \in torn]_vars

(* A due schedule is eventually moved on, aborted ticks or not. *)
DueEventuallyAdvances == \A s \in Schedules : Due(s) ~> ~Due(s)
=============================================================================
