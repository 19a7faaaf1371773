---------------------------- MODULE JobLifecycle ----------------------------
(***************************************************************************)
(* What the job engine promises of its jobs, with no table, no session and *)
(* no worker in sight: a job waits, is executed at most Budget times, and  *)
(* is settled or dies; only a dead job can be put back, with a new budget. *)
(*                                                                         *)
(* "Settled" is final.  A job that is being executed may be settled by an  *)
(* administrator, but a job that was settled is not executed again.        *)
(***************************************************************************)
EXTENDS Naturals

CONSTANTS
  Jobs,
  Budget   \* executions a job is granted each time it is put in the queue

VARIABLES
  phase,   \* where each job is
  left     \* executions it has left

Phases == {"absent", "waiting", "running", "settled", "dead"}

LifecycleInit ==
  /\ phase = [j \in Jobs |-> "absent"]
  /\ left = [j \in Jobs |-> Budget]

Becomes(j, from, to) ==
  /\ phase[j] = from
  /\ phase' = [phase EXCEPT ![j] = to]

Submit(j) == Becomes(j, "absent", "waiting") /\ UNCHANGED left

Execute(j) ==
  /\ Becomes(j, "waiting", "running")
  /\ left[j] > 0
  /\ left' = [left EXCEPT ![j] = @ - 1]

Retry(j) ==
  /\ Becomes(j, "running", "waiting")
  /\ left[j] > 0
  /\ UNCHANGED left

(* The job succeeded, or was canceled: waiting, running or dead. *)
Settle(j) ==
  /\ \E from \in {"waiting", "running", "dead"} : Becomes(j, from, "settled")
  /\ UNCHANGED left

Exhaust(j) ==
  /\ Becomes(j, "running", "dead")
  /\ UNCHANGED left

Replay(j) ==
  /\ Becomes(j, "dead", "waiting")
  /\ left' = [left EXCEPT ![j] = Budget]

LifecycleStep(j) ==
  Submit(j) \/ Execute(j) \/ Retry(j) \/ Settle(j) \/ Exhaust(j) \/ Replay(j)

LifecycleNext == \E j \in Jobs : LifecycleStep(j)

LifecycleSpec == LifecycleInit /\ [][LifecycleNext]_<<phase, left>>
=============================================================================
