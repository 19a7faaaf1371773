------------------------------ MODULE DataSync ------------------------------
(***************************************************************************)
(* Imported provider data: the versioned snapshot store                    *)
(* (services/integrations/snapshots.py, service.py) and the portfolio      *)
(* synchronization that fills it (services/integrations/sync/service.py).  *)
(*                                                                         *)
(* A request fetches a target, reads the target's current snapshot and     *)
(* commits a new version beside it.  Nothing locks a target, and no        *)
(* constraint keeps its versions apart: requests that overlap read the     *)
(* same snapshot.  A target is one (connector, entity, dataset); the       *)
(* dataset is the operation a job has for the connector.  POST /run takes  *)
(* any connector names, so a job may be given targets without one.         *)
(***************************************************************************)
EXTENDS Naturals, Sequences, FiniteSetsExt

CONSTANTS
  Targets,      \* what a sync job is asked to fetch
  Unmapped,     \* targets of a connector that no operation is known for
  Importers,    \* API threads that import, synchronize or replay
  Contents,     \* what a provider answers, up to its hash
  NoTarget,
  MaxSnapshots, \* bound: rows of integration_snapshots
  MaxSyncJobs   \* bound: calls of run_sync

ASSUME NoTargetAssumption  == NoTarget \notin Targets
ASSUME UnmappedAssumption  == Unmapped \subseteq Targets
ASSUME SyncBoundAssumption == MaxSnapshots \in Nat /\ MaxSyncJobs \in Nat

VARIABLES
  snapshots, \* integration_snapshots of each target, in the order of their ids
  syncJobs,  \* status and kind of portfolio_sync_jobs, by id
  letters,   \* sync_dead_letters of each job and target
  importers  \* each request: what is left to do and what it has read

syncVars == <<snapshots, syncJobs, letters, importers>>

SyncJobIds == 1 .. MaxSyncJobs
Snapshot   == [version : Nat, content : Contents, current : BOOLEAN]
SyncJob    == [status : {"pending", "running", "completed", "partial"},
               full : BOOLEAN]
Letter     == {"none", "open", "resolved"}

(* An item is a target with the job it is fetched for (0: none). *)
Items    == (SyncJobIds \cup {0}) \X Targets
Importer == [pc   : {"idle", "begin", "next", "fetch", "save", "write"},
             op   : {"import", "sync", "replay"},
             job  : SyncJobIds \cup {0},
             todo : SUBSET Items, item : Items \cup {NoTarget},
             fetched : Contents \cup {NoTarget},
             seen : Nat, failed : BOOLEAN, marks : SUBSET Items]

IdleImporter == [pc |-> "idle", op |-> "import", job |-> 0, todo |-> {},
                 item |-> NoTarget, fetched |-> NoTarget, seen |-> 0,
                 failed |-> FALSE, marks |-> {}]

SyncTypeOK ==
  /\ snapshots \in [Targets -> Seq(Snapshot)]
  /\ syncJobs \in Seq(SyncJob)
  /\ letters \in [SyncJobIds \X Targets -> Letter]
  /\ importers \in [Importers -> Importer]
  /\ \A i \in Importers :
       importers[i].pc \in {"fetch", "save", "write"} => importers[i].item \in Items

SyncInit ==
  /\ snapshots = [x \in Targets |-> <<>>]
  /\ syncJobs = <<>>
  /\ letters = [l \in SyncJobIds \X Targets |-> "none"]
  /\ importers = [i \in Importers |-> IdleImporter]

-----------------------------------------------------------------------------
(* Mutant: the lowest version first. *)
CurrentSnapshotOldest(x) ==
  {n \in DOMAIN snapshots[x] :
     /\ snapshots[x][n].current
     /\ \A k \in DOMAIN snapshots[x] :
          snapshots[x][k].current => snapshots[x][k].version >= snapshots[x][n].version}

(* The rows current_snapshot may return: flagged current, of the highest   *)
(* version among those.                                                    *)
CurrentSnapshot(x) ==
  {n \in DOMAIN snapshots[x] :
     /\ snapshots[x][n].current
     /\ \A k \in DOMAIN snapshots[x] :
          snapshots[x][k].current => snapshots[x][k].version <= snapshots[x][n].version}

At(i, pc) == importers[i].pc = pc
Target(i) == importers[i].item[2]

(* POST /data/{connector}/import: what it stores has a dataset. *)
StartImport(i, x) ==
  /\ At(i, "idle")
  /\ importers' = [importers EXCEPT ![i] =
       [IdleImporter EXCEPT !.pc = "fetch", !.item = <<0, x>>]]
  /\ UNCHANGED <<snapshots, syncJobs, letters>>

(* start_job *)
StartSync(i, full) ==
  /\ At(i, "idle")
  /\ Len(syncJobs) < MaxSyncJobs
  /\ syncJobs' = Append(syncJobs, [status |-> "pending", full |-> full])
  /\ importers' = [importers EXCEPT ![i] =
       [IdleImporter EXCEPT !.pc = "begin", !.op = "sync", !.job = Len(syncJobs) + 1]]
  /\ UNCHANGED <<snapshots, letters>>

(* process_job: only the request that started a job processes it. *)
BeginSync(i) ==
  /\ At(i, "begin")
  /\ syncJobs' = [syncJobs EXCEPT ![importers[i].job].status = "running"]
  /\ importers' = [importers EXCEPT ![i].pc = "next",
                                    ![i].todo = {importers[i].job} \X Targets]
  /\ UNCHANGED <<snapshots, letters>>

(* replay_dead_letters reads the open letters once. *)
StartReplay(i) ==
  /\ At(i, "idle")
  /\ importers' = [importers EXCEPT ![i] =
       [IdleImporter EXCEPT !.pc = "next", !.op = "replay",
          !.todo = {l \in DOMAIN letters : letters[l] = "open"}]]
  /\ importers'[i].todo # {}
  /\ UNCHANGED <<snapshots, syncJobs, letters>>

(* A job passes over a target without an operation; an incremental one     *)
(* also over a target whose snapshot is not due yet.                       *)
SkipTarget(i, item) ==
  /\ At(i, "next") /\ importers[i].op = "sync"
  /\ item \in importers[i].todo
  /\ \/ item[2] \in Unmapped
     \/ ~syncJobs[importers[i].job].full /\ CurrentSnapshot(item[2]) # {}
  /\ importers' = [importers EXCEPT ![i].todo = @ \ {item}]
  /\ UNCHANGED <<snapshots, syncJobs, letters>>

PickTarget(i, item) ==
  /\ At(i, "next")
  /\ item \in importers[i].todo
  /\ importers[i].op = "sync" => item[2] \notin Unmapped
  /\ importers' = [importers EXCEPT ![i].pc = "fetch", ![i].item = item,
                                    ![i].todo = @ \ {item}]
  /\ UNCHANGED <<snapshots, syncJobs, letters>>

-----------------------------------------------------------------------------
Marked(i) == [l \in DOMAIN letters |->
                IF l \in importers[i].marks THEN "resolved" ELSE letters[l]]

Continued(s) == IF s.op = "import" THEN IdleImporter
                ELSE [s EXCEPT !.pc = "next", !.fetched = NoTarget, !.seen = 0]

(* The provider answers.  The call is logged with a commit of the caller's *)
(* session, which takes along the marks of a replay.                       *)
Fetch(i, content) ==
  /\ At(i, "fetch")
  /\ letters' = Marked(i)
  /\ importers' = [importers EXCEPT ![i].pc = "save", ![i].fetched = content,
                                    ![i].marks = {}]
  /\ UNCHANGED <<snapshots, syncJobs>>

(* save_snapshot reads the current snapshot. *)
ReadCurrent(i) ==
  /\ At(i, "save")
  /\ \/ /\ CurrentSnapshot(Target(i)) = {}
        /\ importers' = [importers EXCEPT ![i].pc = "write", ![i].seen = 0]
     \/ \E n \in CurrentSnapshot(Target(i)) :
          importers' = [importers EXCEPT ![i].pc = "write", ![i].seen = n]
  /\ UNCHANGED <<snapshots, syncJobs, letters>>

Imported(i) ==
  [Continued(importers[i]) EXCEPT
     !.marks = IF importers[i].op = "replay" THEN {importers[i].item} ELSE {}]

(* Equal content only refreshes the row that was read. *)
RefreshSnapshot(i) ==
  /\ At(i, "write") /\ importers[i].seen # 0
  /\ snapshots[Target(i)][importers[i].seen].content = importers[i].fetched
  /\ importers' = [importers EXCEPT ![i] = Imported(i)]
  /\ UNCHANGED <<snapshots, syncJobs, letters>>

Superseded(rows, n) ==
  IF n = 0 THEN rows ELSE [rows EXCEPT ![n].current = FALSE]

SaveSnapshot(i) ==
  LET rows == snapshots[Target(i)]
      n    == importers[i].seen
  IN
  /\ At(i, "write")
  /\ MapThenSumSet(LAMBDA x : Len(snapshots[x]), Targets) < MaxSnapshots
  /\ n # 0 => rows[n].content # importers[i].fetched
  /\ snapshots' = [snapshots EXCEPT ![Target(i)] =
       Append(Superseded(rows, n),
              [version |-> IF n = 0 THEN 1 ELSE rows[n].version + 1,
               content |-> importers[i].fetched, current |-> TRUE])]
  /\ importers' = [importers EXCEPT ![i] = Imported(i)]
  /\ UNCHANGED <<syncJobs, letters>>

(* A step of the import raises: a job tries the target again, a replay     *)
(* goes on after a rollback that takes its uncommitted marks with it, an   *)
(* import fails.                                                           *)
ImportRaises(i) ==
  /\ importers[i].pc \in {"fetch", "save", "write"}
  /\ importers' = [importers EXCEPT ![i] =
       IF @.op = "sync" THEN [@ EXCEPT !.pc = "fetch", !.fetched = NoTarget, !.seen = 0]
       ELSE [Continued(@) EXCEPT !.marks = {}]]
  /\ UNCHANGED <<snapshots, syncJobs, letters>>

(* Mutant: the dead letter is not kept. *)
ExhaustUnrecorded(i) ==
  /\ At(i, "fetch") /\ importers[i].op = "sync"
  /\ importers' = [importers EXCEPT ![i] = [Continued(@) EXCEPT !.failed = TRUE]]
  /\ UNCHANGED <<snapshots, syncJobs, letters>>

(* _sync_one gives up after its last attempt. *)
Exhaust(i) ==
  /\ At(i, "fetch") /\ importers[i].op = "sync"
  /\ letters' = [letters EXCEPT ![importers[i].item] = "open"]
  /\ importers' = [importers EXCEPT ![i] = [Continued(@) EXCEPT !.failed = TRUE]]
  /\ UNCHANGED <<snapshots, syncJobs>>

(* A fetch that fails without raising: a replay keeps the letter open. *)
FetchFails(i) ==
  /\ At(i, "fetch") /\ importers[i].op # "sync"
  /\ letters' = Marked(i)
  /\ importers' = [importers EXCEPT ![i] = [Continued(@) EXCEPT !.marks = {}]]
  /\ UNCHANGED <<snapshots, syncJobs>>

-----------------------------------------------------------------------------
(* Mutant: a job with dead letters ends "failed". *)
FinishSyncFailed(i) ==
  /\ At(i, "next") /\ importers[i].op = "sync" /\ importers[i].todo = {}
  /\ syncJobs' = [syncJobs EXCEPT ![importers[i].job].status =
                    IF importers[i].failed THEN "failed" ELSE "completed"]
  /\ importers' = [importers EXCEPT ![i] = IdleImporter]
  /\ UNCHANGED <<snapshots, letters>>

FinishSync(i) ==
  /\ At(i, "next") /\ importers[i].op = "sync" /\ importers[i].todo = {}
  /\ syncJobs' = [syncJobs EXCEPT ![importers[i].job].status =
                    IF importers[i].failed THEN "partial" ELSE "completed"]
  /\ importers' = [importers EXCEPT ![i] = IdleImporter]
  /\ UNCHANGED <<snapshots, letters>>

FinishReplay(i) ==
  /\ At(i, "next") /\ importers[i].op = "replay" /\ importers[i].todo = {}
  /\ letters' = Marked(i)
  /\ importers' = [importers EXCEPT ![i] = IdleImporter]
  /\ UNCHANGED <<snapshots, syncJobs>>

(* The process dies: a running job stays running. *)
CrashImporter(i) ==
  /\ ~At(i, "idle")
  /\ importers' = [importers EXCEPT ![i] = IdleImporter]
  /\ UNCHANGED <<snapshots, syncJobs, letters>>

ImporterStep(i) ==
  \/ \E x \in Targets \ Unmapped : StartImport(i, x)
  \/ \E full \in BOOLEAN : StartSync(i, full)
  \/ BeginSync(i) \/ StartReplay(i)
  \/ \E item \in Items : SkipTarget(i, item) \/ PickTarget(i, item)
  \/ \E content \in Contents : Fetch(i, content)
  \/ ReadCurrent(i) \/ RefreshSnapshot(i) \/ SaveSnapshot(i)
  \/ ImportRaises(i) \/ Exhaust(i) \/ FetchFails(i)
  \/ FinishSync(i) \/ FinishReplay(i) \/ CrashImporter(i)

SyncNext == \E i \in Importers : ImporterStep(i)

SyncSpec == SyncInit /\ [][SyncNext]_syncVars

-----------------------------------------------------------------------------
(* Properties *)

(* A target that has snapshots always has a current one, and the one       *)
(* current_snapshot returns is of the highest version there is, although   *)
(* overlapping imports give two rows one version, leave several of them    *)
(* flagged current and add low versions late.                              *)
NewestIsServed ==
  \A x \in Targets : snapshots[x] # <<>> =>
    \E n \in CurrentSnapshot(x) :
      \A k \in DOMAIN snapshots[x] : snapshots[x][k].version <= snapshots[x][n].version

(* A finished job accounts for every target it had an operation for: it is *)
(* completed exactly when it left no dead letter, and such a target        *)
(* without an open letter has data.  Overlapping imports, replays with     *)
(* rollbacks and crashes keep it so.  A target passed over for want of an  *)
(* operation leaves no trace: the job is completed without it.             *)
FinishedIsAccounted ==
  \A j \in DOMAIN syncJobs : syncJobs[j].status \in {"completed", "partial"} =>
    /\ syncJobs[j].status = "completed" <=> \A x \in Targets : letters[<<j, x>>] = "none"
    /\ \A x \in Targets \ Unmapped :
         letters[<<j, x>>] # "open" => CurrentSnapshot(x) # {}
=============================================================================
