--------------------------- MODULE JobRefinement ----------------------------
(***************************************************************************)
(* JobQueue with one worker and one administrator implements JobLifecycle. *)
(*                                                                         *)
(* The phase of a job is where its worker is with it, and only when no     *)
(* worker is at it what its row says: a row canceled while its handler     *)
(* runs belongs to a running job, and a row that says "running" with       *)
(* nobody at it to a job that is stuck there.                              *)
(***************************************************************************)
EXTENDS JobQueue

PhaseOfRow(status) ==
  CASE status \in Claimable               -> "waiting"
    [] status \in {"succeeded", "canceled"} -> "settled"
    [] OTHER                              -> status

PhaseOf(j) ==
  CASE \E w \in Workers : Executing(w, j)                          -> "running"
    [] \E w \in Workers : wk[w].pc = "starting" /\ wk[w].job = j   -> "waiting"
    [] OTHER                                                       -> PhaseOfRow(Status(j))

Promise == INSTANCE JobLifecycle
  WITH Jobs   <- JobIds,
       Budget <- MaxAttempts,
       phase  <- [j \in JobIds |-> PhaseOf(j)],
       left   <- [j \in JobIds |-> MaxAttempts - runs[j]]

(* Whatever the worker, the clients and the administrator do to the table, *)
(* a job goes through the phases that JobLifecycle allows: it is executed  *)
(* only while it waits and has executions left, a settled job stays        *)
(* settled, and only a dead one comes back.                                *)
KeepsPromise == Promise!LifecycleSpec
=============================================================================
