# TLA+ model of the credit intelligence platform

This directory is a verification development for the backend under
`src/backend/app`: TLA+ modules translated from the Python source, TLC
configurations that check them on small instances, and theorems that TLAPS
checks for every instance. `PROJECT.json` is the index: components, runs, the
source lines each definition stands for, the hazards, and the theorems.

1. [The system](#1-the-system)
2. [The modules and the code](#2-the-modules-and-the-code)
3. [The runs](#3-the-runs)
4. [Where the documentation and the code differ](#4-where-the-documentation-and-the-code-differ)
5. [What is proved](#5-what-is-proved)
6. [What is only model-checked, and what is not modelled](#6-what-is-only-model-checked-and-what-is-not-modelled)
7. [Plan](#7-plan)

Paths below are relative to `src/backend/app` unless they start with `docs/` or
`backend/`.

## 1. The system

A FastAPI application serves each request in a thread with a SQLAlchemy session
of its own; a *worker* process and a *scheduler* process run beside it. They
share nothing but the database. Sessions run at the default isolation of the
database, no query takes a lock (`with_for_update` appears once, in the
document service), and no row carries a version. So the unit of atomicity
is one commit, and the distance between the read that decides and the commit
that writes is where the hard behaviours live.

| Component | State it keeps | Operations | Interacts with |
|---|---|---|---|
| Background job engine (`services/saas/jobs.py`, `workers/`) | `background_jobs`: status, attempts, available_at, priority, idempotency_key | enqueue, claim, run, fail with backoff, cancel, replay from the dead-letter queue | every feature that enqueues; events through `realtime.publish`, which commits |
| Recurring scheduler (`jobs.py`, `workers/scheduler.py`) | `job_schedules.next_run_at` | create_schedule, tick_schedules | enqueues into the job engine, in the same session |
| Application lifecycle (`services/lifecycle`) | `applications.status`, `application_status_history` | create, transition, rollback | driven by routes and by approvals |
| Approvals (`services/approvals`) | `approval_decisions` | submit_decision | calls the lifecycle, then records the decision in a second commit |
| Credit reviews (`services/credit_reviews`) | the case, its assessments, decisions, conditions | create, assign, save, submit, decide, resume, reopen, settle a condition | reads the company's data; nothing writes it back |
| Documents (`services/documents`) | document rows, files, extractions, `company_financials` | upload, extract, review, approve, reject, delete | the file store, outside the transaction |
| Loan committee (`services/banking_os/committee.py`) | meetings, agenda items, votes | open, close, cast_vote, finalize_decision | - |
| Model registry (`services/ml/registry`) | versions, approval status, production status, artifacts | register, submit, approve, reject, promote, rollback | retraining, serving |
| Snapshots and sync (`services/integrations/snapshots.py`, `sync/`) | versioned snapshots with a current flag, sync jobs, dead letters | import_dataset, save_snapshot, process_job, replay_dead_letters | connectors |
| Portfolio imports (`services/portfolio_imports.py`) | import records, the companies of a tenant | create, update_mapping, confirm, cancel | the company book |
| Exposure limits (`services/portfolio_risk.py`) | limits, breaches | create_limit, update_limit, evaluate_limits, acknowledge_breach | reads the exposures |
| Billing (`services/saas/billing`) | subscriptions, invoices | subscribe, change, cancel, invoice, pay | payment gateway |
| Object storage (`services/saas/storage.py`) | object rows, version rows, files | put, get, delete, lifecycle sweep | job engine (sweep) |
| Connector resilience (`services/integrations/base`, `factory.py`) | breaker state, token bucket, response cache, per connector object | call = limiter, cache, breaker, retries | every integration domain |
| Consents, tenancy, disaster recovery, cache, webhooks, tokens | see `PROJECT.json` | | |

### What is hard, and what correct means

* **Job engine.** Several workers poll one table; the worker's session keeps the
  rows of a pass loaded; administrators cancel and replay rows under it; a
  process may die, and a database error may hit any commit, the one that only
  publishes an event included. Correct means: the attempt budget is kept, dead
  rows are exhausted ones, backoff is waited for, a success stays a success, a
  row in `running` is really being run, keys are unique, and every queued row is
  settled in the end.
* **Scheduler.** The move of a schedule is committed by the *next* enqueue.
  Correct means: no schedule fires early, a tick cut short costs at most one
  duplicate, and no due schedule is forgotten.
* **Lifecycle and approvals.** A move is validated against the status one
  session loaded. Correct means: money goes out only after the review, a rollback returns to a status that really was.
* **Credit reviews.** Every status change is an UPDATE that asks for the status
  and the revision that were loaded, save one. Correct means: a decision rests on
  the newest assessment, which was submitted, and is not taken by the analyst.
* **Documents.** Files are written and removed outside the transaction, and the
  financials of a year are locked only if they exist. Correct means: approved
  financials keep an approved document with its bytes, and the newest extraction
  is the current one.
* **Committee.** Votes are tallied, then the decision is committed. Correct means:
  a decision has a quorum of distinct members and follows the votes.
* **Registry, snapshots.** One current (production) row per key, across races and
  crashes between the two commits of a switch; the newest data is served; a sync
  job that ends accounts for every target it could fetch.
* **Imports, billing, storage, limits.** A completed import has the rows of a
  mapping in the book; an
  invoice is charged once; a current version has its row and its file; the answer
  to a breach belongs to the breach it was given for.

`PROJECT.json` lists each hazard at its line, with the properties that cover it
or the reason none does. Several properties hold only outside a state that a
history variable marks (`races`, `torn`, `entangled`, `overtaken`, `recast`,
`collided`, `contested`, `taken`, `crossed`, `remapped`): there the code does what
the hazard fears, and the property says that nothing *else* leads to it. The note
of such a hazard says which part of it is excused and which is covered.

## 2. The modules and the code

| Module | Models | Instance | Proofs |
|---|---|---|---|
| `JobQueue` | job engine | `MCJobQueue`, `MCPlatform` | `JobQueueProofs`, `JobBudgetProofs` |
| `JobLifecycle` | what the job engine promises, abstractly | | |
| `JobRefinement` | the mapping from `JobQueue` to `JobLifecycle` | `MCJobQueue` | `JobBudgetProofs` |
| `JobScheduler` | recurring jobs | `MCJobScheduler` | `JobSchedulerProofs` |
| `ApplicationLifecycle` | lifecycle composed with approvals | `MCApplicationLifecycle`, `MCGovernance` | `ApplicationProofs` |
| `CreditReview` | one review case | `MCGovernance` | `GovernanceProofs` |
| `Documents` | documents and financials of one company and year | `MCGovernance` | `ApplicationProofs` |
| `Committee` | one agenda item of a meeting | `MCGovernance` | `GovernanceProofs` |
| `ModelRegistry` | versions of one model key | `MCModelRegistry` | `ModelRegistryProofs` |
| `DataSync` | snapshots and portfolio synchronization | `MCPlatform` | `DataSyncProofs` |
| `PortfolioImports` | portfolio imports | `MCPlatform` | `PlatformProofs` |
| `Billing` | subscriptions, invoices, payments | `MCPlatform` | `PlatformProofs` |
| `ObjectStore` | the objects of one key | `MCPlatform` | `PlatformProofs` |
| `ExposureLimits` | one limit and its breach | `MCPlatform` | `PlatformProofs` |
| `MCGovernance` | the four workflows side by side | itself | `GovernanceProofs` |
| `MCPlatform` | the six services side by side | itself | `PlatformProofs` |

Components that interact are composed in one module: the scheduler's tick with
the enqueue it shares a session with, an approval with the lifecycle it drives,
the synchronization with the snapshot store it fills, the documents with the
file store and the financials. The components of `MCGovernance`, and those of
`MCPlatform`, share no table and do not call one another, so their product would
say nothing: each of the two starts in one of its components (`area`) and runs
that one.

Operators marked *Mutant* in a module are variants of the definition that
follows them, each with a plausible mistake in it. They are in no next-state
relation; they show, for each property, a bug of the code that it notices.

### JobQueue

`rows` is the table, `wk` the worker sessions, `prod` and `adm` the API threads
between the read and the write of their call. A request is one action for each
transaction of the code, because everything between two commits of one session
is invisible to the others except for what it *read*, which is kept in the
session's record.

Three facts about SQLAlchemy carry the model (each is an external definition):

* **The flush writes only changed columns** (`Flushed`). Setting `status` to the
  value the session had loaded writes nothing, so a concurrent write of that
  column survives. `requeue_dead` setting `attempts = 0` on a copy that already
  had 0 is the other place where it shows.
* **Commit expires what is loaded** (`expire_on_commit`), so `_fail`, which runs
  after a commit or a rollback, reads the row anew (`Loaded`), whereas
  `_claim_next` hands out a row *as the session still has it loaded* although
  its WHERE clause looked at the table. `ClaimNext` does this: the worker of a
  pass keeps its last row loaded when `_fail` refreshed it, and forgets it
  when a `publish` committed after (`Fresh` in `Succeed`).
* **`realtime.publish` commits.** `_fail` sets `retrying` or `dead`, then calls
  `_notify`, whose event's commit carries the decision (`FailCommit`). When that
  commit raises, `_notify` rolls back and swallows the error: the decision is
  gone (`FailNotifyLost`), and the row stays `running`.

| Action | Code |
|---|---|
| `EnqueueLookup`, `EnqueueInsert` | `enqueue`, lines 111-119 and 120-131 |
| `ClaimNext`, `EndPass` | `_claim_next`; the end of `run_pending` and the session's close in `run_loop` |
| `Start` | `_run_job` up to its first commit |
| `Succeed`, `SucceedThenRaise`, `HandlerRaises` | the three ways out of the `try` of `_run_job` |
| `FailCommit`, `FailNotifyLost` | `_fail` with `_notify` succeeding or failing |
| `Crash` | a killed process, or an exception that leaves `run_pending` |
| `CancelRead`/`Commit`, `RequeueRead`/`Commit` | `cancel_job`, `requeue_dead` |
| `Tick` | the clock, which may always run up to the next backoff's end |

`runs`, `failedAt`, `lost`, `replays` and `crashes` are history variables; the
guards read only the last two, as bounds.

### JobLifecycle and JobRefinement

`JobLifecycle` is the promise without the table: a job is absent, waiting,
running, settled or dead, and has executions left. `JobRefinement` maps a row and
the worker at it to a phase. Where the two disagree the worker decides: a row
canceled while its handler runs belongs to a *running* job (the handler goes on
and may still succeed), and a row a worker has claimed from an old copy waits,
whatever the table says by now. `KeepsPromise` is `Promise!LifecycleSpec` under
this mapping. It needs one worker and one administrator, for the reasons
`two_executors` shows; a replay after which the worker goes on from its old copy
may grant *fewer* executions than the budget, never more.

### JobScheduler

A ticker's record holds the tick's timestamp, the schedules still to visit, and
`dirty`: the schedule whose `next_run_at` was assigned in the session and not
yet committed. `TickEnqueue` inserts the next job; its commit writes the previous
move. `TickAbort` loses `dirty` and keeps the jobs.

### ApplicationLifecycle

`status` is the column; `cameFrom[s]` is the `from_status` of the latest history
entry that moved into `s`, which is all of the history `rollback` looks at.
`LoadMove` stands for the routes that load the application and for
`validate_transition`; `CommitMove` for the assignment, the history row and the
commit; `InsertDecision` for the second commit of `submit_decision`, in which
`to_status` is read from the row *again*, because the commits of the transition,
of the audit record and of the notification have expired it. A rollback is three
steps: the application, the history, the commit. `Abandon` ends a request
anywhere, as a crash or a later error does.

The model starts after `create_application`, whose two commits nothing observes.

### ModelRegistry

The rows of one `model_key` (no operation crosses keys), as one function per
column, and the artifact files by version. `rq` holds what each request has read.
Several commits are easy to overlook, since `_event`, which only records, commits
whatever the session holds:

| Action | Code (`services/ml/registry/service.py`) |
|---|---|
| `RegisterVersion`, `SaveArtifact`, `InsertModel` | `register_model`: the number, then the current rows and the file, then the commit |
| `LoadReview`, `CommitReview` | `submit_for_approval`, `approve`, `reject`: the guard on the loaded row, the commit |
| `LoadPromote`, `ReadIncumbent`, `ArchiveIncumbent`, `Reload`, `Install` | `promote`: the guard, the row in production, the commit of its archiving (in `_event`), the row read again, the commit |
| `ReadCurrent`, `ReadTarget`, `Demote`, `Restore` | `rollback`, in the same way; without an archived row it is refused before anything is written |

`Reload` matters because an assignment of the loaded value writes nothing: a
promotion that loaded its row as `production` and found no incumbent leaves the
column alone. `approve` sets `staging` only if the row it *loaded* was in none,
and so may take a version that was promoted meanwhile out of production.
The reading of the current rows and the writing of the file are one step: no
other step reads the file, and the two touch different state. A retraining run
performs the same operations one after the other, which the interleavings
include.

`approved`, `lastArchived`, `races` and `torn` are history. `races` collects the
kinds of operation (register, review, switch) of which two were open together,
so that a property can ask for the operations of *one* kind to be serial and
leave everything else to interleave.

### CreditReview

`case` is the row, `assessments` and `decisions` the two tables that are only
appended to, and a request's record what it has read: the case when it checked
what it may do (`LoadCase`, `Permitted`), then the newest assessment and decision
(`ReadLatest`), then one commit. `MoveCase` is `_transition`, the UPDATE whose
WHERE clause names the loaded status and revision (`Unmoved`).

`SaveAssessment` is the exception the properties have to live with: a save that
does not change the status assigns `revision` through the ORM, unconditionally.
It may write over a submission, a decision or an assignment and bring an old
revision back; after that a request with the older case passes its WHERE clause.
`overtaken` records that this has happened, and the two action properties promise
nothing from then on.

| Action | Code (`services/credit_reviews/service.py`) |
|---|---|
| `LoadCase`, `ReadLatest` | `_case` and the checks of each operation; `_latest_assessment`, `_latest_decision` |
| `SubmitAssessment`, `SaveAssessment` | `save_assessment`, with and without a status change |
| `SubmitForApproval`, `Decide`, `Resume`, `Reopen` | the operations of these names, by `_transition` or its like |
| `Assign` | `assign_case` with its conditional UPDATE |
| `SettleCondition` | `update_condition`, whose UPDATE asks for an open condition |

### Documents

The file store is a set of documents with bytes, outside every transaction:
`SaveFile` precedes `InsertDocument`, and `DeleteFile` comes between the two
commits of `delete` (`MarkDeletion`, `DeleteRows`). `period` is the one row of
`company_financials` of the company and year, by the document it cites, and
`LockPeriod` the only `FOR UPDATE` of the program, which locks nothing when the
row does not exist. `NewVersion` clears the flags its UPDATE saw (`stale`) and not
those committed after. A status that equals the loaded one is not written
(`WriteStatus`).

Two requests on *one* document break each of the three properties, which is why
`entangled` excepts a document on which two requests were open together, two
approvals aside: an extraction that was let in before an approval makes an
approved document `processing`, a deletion marks a document approved meanwhile.
Requests on different documents of the period meet at the financials, and that is
what the run is about. A review that moves a document to another company or year
is left out.

### Committee

One agenda item. `cast_vote` is three steps (the meeting, the member's vote, the
commit), `finalize_decision` three (the item, the tally, the commit).
`InsertVote` has the unique constraint on (item, member) as its guard: every vote
that comes through the routes has a user, so the NULLs the constraint would let
pass do not occur. `UpdateVote`, `OpenMeeting` and `Finalize` write the columns
that differ from what was loaded, so two overlapping decisions may mix: one
that loaded the item `pending` writes both columns, one that loaded it as decided
the same way writes neither. `recast` says that a vote was written since the
tally behind the decision, `collided` that a decision was committed over one it
had not loaded.

### DataSync

A target is one (connector, entity, dataset), a snapshot its version, its content
(the hash) and its flag. An import is `Fetch`, `ReadCurrent`, and `SaveSnapshot` or,
when the content is the one that was read, `RefreshSnapshot`; a sync job does
this for every target (`PickTarget`), tries again when a step raises
(`ImportRaises`) and leaves a dead letter when it gives up (`Exhaust`); a replay
does it for every open letter. The marks of a replay (`resolved`) wait in its
session: the commit of the next call's log entry writes them (`Fetch`), and a
rollback takes them back (`ImportRaises`), so a letter whose target was imported
may stay open. How many attempts a job makes is a choice.

The dataset is the operation the job has for the connector, and the connectors of a
request are any strings (`SyncRequest.connectors`). `Unmapped` are the targets whose
connector has none: `process_job` passes over them (`SkipTarget`) in a job of either
kind, without an attempt and without a dead letter, so they never have a snapshot
and a job may be completed without them. `FinishedIsAccounted` speaks of the
others. Here a job is asked for every target, once.

### PortfolioImports

`CommitMapping`, `CommitCancel` and the three ways a confirmation can go
(`CommitConfirm`, `ConfirmRaises` then `MarkFailed`, or `AbandonImport`) decide on
the record that was loaded. The unique constraint on a tenant's external ids is
the guard of `CommitConfirm`. A cancellation that overlaps a confirmation may be
the last to write: the import is cancelled and its companies are in the book.

`rows` are the valid rows of the mapping that the record shows. A confirmation books
those it has loaded and writes the status, the count and the cleared `staged_data`
(`Confirmed`); the columns of the mapping are not its own, and `Written` leaves a
value alone that equals the loaded one. Two validations may have loaded one record;
if the second commits while the import is being confirmed, the record is completed
showing the second mapping, with the rows of the first in the book. `mapped`
keeps the valid rows of each mapping of an import, `remapped` the imports to which
this happened: `ConfirmedIsBooked` promises all rows of *one* mapping, and outside
`remapped` that it is the one shown.

### Billing

`charged` is the gateway's side: how often it was charged for a number. A payment
is `LoadInvoice`, `Charge`, `Settle`; an invoice takes its number from the count
of the invoices (`LoadNumber`) and the unique column refuses the second
(`InsertInvoice`). `contested` names the numbers of which two payments were
under way together, or one was cut short after its charge. Two subscribes that
overlap leave two live subscriptions, of which `active_subscription` shows the
newer; nothing in the source reads `cancel_at_period_end` back.

### ObjectStore

A file's name is the key and the version, not the object row; there may be two
rows for a key, and a deletion followed by a put starts again from version 1. So
a removal that is under way may delete the file a newer put has just written:
`taken` records it, and `CurrentIsStored` excepts it. `PutUpdate` and
`PutCreate` are the commits of `put_object`; `RemoveLoad`, `RemoveList`,
`RemoveFile`, `RemoveCommit` are both `delete_object` and the sweep, which differ
only in which rows they load.

### ExposureLimits

`Measure` reads the exposures, `ReadBreach` the breach, and `CommitEvaluation`
writes it column by column where it differs from the copy (`Column`). The answer
to a breach is abstracted to whether one is stored, its settlement likewise.
`crossed` records a commit over a breach that had changed after it was loaded.

## 3. The runs

| Run | Configuration | Checks | Shows |
|---|---|---|---|
| `worker` | 2 rows, 1 worker, 1 producer, 1 administrator, 2 attempts, 1 death, 1 replay, errors on | `TypeOK`, `ExecutionsBounded`, `DeadIsExhausted`, `BackoffRespected`, `SuccessIsFinal`, `KeepsPromise` | what one worker keeps while it is canceled, replayed and killed under, and that it implements `JobLifecycle` |
| `fleet` | 1 row, 2 workers, 1 administrator, 1 death, fair | `RunningIsOwnedOrLost`, `EventuallySettledOrLost` | two executors of one row still settle it |
| `one` | 2 schedules (intervals 1 and 2), 1 ticker, clock to 5, 2 aborts, fair | `TypeOK`, `OneDuplicatePerAbort`, `NoEarlyRepeat`, `DueEventuallyAdvances` | what a tick cut short costs |
| `race` | 2 requests, 7 moves | `ReviewPrecedesMoney`, `RollbackStaysInHistory` | what survives the lost updates of the lifecycle |
| `registry` | 2 models, 2 requests | `TypeOK`, `ProductionWasApproved`, `OneProduction`, `NeverUnserved`, `CurrentIsNewest`, `ArtifactsMatch` | what holds of a key under overlapping and interrupted operations |
| `governance` | lifecycle (1 request, 6 moves), review (2 users, 2 requests, 5 commits), documents (2 documents, 2 requests, 2 versions), committee (2 members, 2 requests, quorum 2) | `GovernanceTypeOK`, `PeriodIsBacked`, `FilesBehindRows`, `NewestIsCurrent`, `DecisionFollowsVotes`, `DecisionsInOrder`, `DutiesSeparated` | what the workflows that decide on credit keep under overlap and interruption (1.6 million states) |
| `platform` | enqueueing (3 rows, 2 keys, 1 producer, errors on), sync (2 targets and one without an operation, 2 requests, 3 snapshots, 1 job), imports (2 imports, 2 companies, 2 requests, 2 mappings), billing (2 requests, 2 subscriptions, 2 invoices, 2 charges), storage (2 calls, 2 object rows, 3 puts), limits (2 requests, 4 episodes) | `PlatformTypeOK`, `KeysUnique`, `NewestIsServed`, `FinishedIsAccounted`, `ConfirmedIsBooked`, `ChargedOnce`, `CurrentIsStored`, `AnswersFitBreach` | the same of the six services (1.3 million states) |
| `late_cancel`, `two_executors`, `terminal`, `rollback`, `failed_import` | minimal | one statement each | section 4 |

**Bounds.** Two rows are enough for a worker to hold one row's copy while it
works on another, which is what the identity map's staleness needs; one row and
two workers are enough for a double execution; the three rows of `platform` let a
key be taken, freed and taken again. Two attempts distinguish the first failure (retry) from
the last (dead). `MaxCrashes`, `MaxReplays`, `MaxAborts` bound the faults,
`MaxMoves` the history: seven moves reach every status from draft (the shortest
way to `disbursed` takes seven) and, in `race`, leave room for a second request
at every point of that way. `MaxTime` bounds the clock *beyond* pending backoffs;
`Tick` may always run while some row waits, so no bound stops a retry. In
`JobScheduler` the clock stops at `MaxTime`, after the slow schedule has come due
twice, the fast one each second.

In `governance`, two requests overlap at every point of both; five commits reach a
decision, a reopening and what comes after; two versions of an extraction are what
it takes to have an old one; two members, and a quorum of two, make a tie, a
majority with one abstention, and a re-vote after a decision; the weight is one,
since `Recommendation` sees only sums, and the sums of two kinds are equal or
not (weights 1 and 2 were checked apart, 0.8 million states). Its lifecycle part has one
request at a time, for the type invariant; the overlaps are in `race`. In `platform`,
`MaxSnapshots` counts the snapshots of all targets: three give two imports of
one target that read the same row, and a third on top. A third target has no
operation, so every job meets one. Two mappings of one import are the one its
confirmation loads and the one committed meanwhile. One key that is put three
times sees a version go up and start again. Two charges are a double charge, and
four episodes of a breach are two crossings and two recoveries of one overlap.

`ModelRegistry` needs no bound but the number of rows: its requests go on for
ever. Two versions make an incumbent and a challenger, with their archiving and
their rollback; the theorems of section 5 cover any number. Three versions are
what it takes to see `rollback` choose.

Deadlock checking is off except for the registry: the other models stop when the
ids, the moves or the clock are used up, which the program does not.

`registry` uses symmetry over models and requests, neither of which is ordered;
`governance` over requests, documents and members (the parts draw their requests
from one set, and the analyst the case starts with is fixed, because the two users
are alike); `platform` over importers and the targets with an operation.
`race` uses symmetry over the two requests and a view that leaves out the last
decision, which no guard and neither of its invariants reads. Neither liveness
run uses symmetry.

**Fairness.** `run_loop` (`workers/runtime.py`) calls its tick for ever and
catches whatever the tick raises, hence weak fairness of each worker's and each
ticker's steps. It covers the handler: the model assumes that handlers return or
raise. Time passes (`WF(Tick)`). Nobody who calls the API is fair, deaths are not,
and weak fairness suffices since a ready row stays ready until a worker or an
administrator takes it. Weak fairness of the *whole* worker step does not force a
handler to succeed: `EventuallySettledOrLost` holds because attempts run out.

`EventuallySettledOrLost` says "settled or lost" because the code has no reaper:
a row whose worker died in `running`, or whose failure event could not be
written, is never selected again. The same disjunct is in
`RunningIsOwnedOrLost`, and both state that *nothing else* strands a row.

## 4. Where the documentation and the code differ

Each is a run that TLC must find violated; the finding in `PROJECT.json` quotes
the line.

* `late_cancel`: "canceled jobs are not run" (`backend/tests/test_saas_jobs.py:77`)
  is false of a job that is canceled between claim and start.
* `two_executors`: the operator guide says to scale the worker horizontally for
  throughput; two workers that poll together run one row twice.
* `terminal`: "Terminal statuses cannot transition further (except via explicit
  rollback)" is false when a move validated before a cancel commits after it.
* `rollback`: the docstring and the report of phase 6 say that a rollback restores
  the version archived last; it restores the highest archived one. Promote 2,
  then 1, then 3, and roll back: version 2 comes back, not 1.
* `failed_import`: "no records were imported" is what the failure branch of a
  confirmation writes into the record it loads again; when a second confirmation
  loses to the first at the unique constraint, that record is the completed one.

The following were met while modelling and need no run of their own:

* The comment over `ALLOWED_TRANSITIONS` promises a cancel from any non-terminal
  status, "handled separately in can_transition"; rejected, disbursed and monitoring
  have none in the table, and nothing else handles it.
* An `approve` "should drop into the start of the pipeline" from three entry points
  (`approvals/workflow.py:111`); from submitted and documents_pending the table
  refuses the move, and a decision is recorded that moved nothing.
* The phase 6 report's "exactly one production model per key" is false when two
  switches of a key overlap, which is why `OneProduction` asks for serial switches.
* `IntegrationSnapshot` says that "only one row per (connector, entity_ref, dataset)
  is current"; two imports that overlap leave two, which is why `NewestIsServed`
  speaks of the row that is served.
* "An in-review case can be sent to the approval queue only when its latest
  assessment has been submitted" (`docs/product/CREDIT_REVIEW_WORKFLOWS.md:20`): `save_assessment`
  raises the revision without asking for the one it loaded
  (`credit_reviews/service.py:460`), so a draft may land beside the submission.
* "Closed meetings reject new votes" (phase 10 report): not a vote whose meeting was
  read before the close.
* A sync job ends `completed` (`integrations/sync/service.py:132`) although it has passed
  over targets whose connector it has no operation for; its record shows it only in
  counts that do not add up.
* A completed import may show another mapping than the one whose rows it booked, when
  that mapping was committed during the confirmation
  (`services/portfolio_imports.py:508`).
* An import that was cancelled while it was being confirmed may have its companies
  in the book, and a consent that has expired serves imports until somebody
  synchronizes it, since `import_statement` looks at the stored status only.

Two of the checked properties are statements about a single actor, and their
comments say so: `KeysUnique` fails with two producers (lookup and insert are two
transactions) and with an administrator (a replay revives a row whose key a later
enqueue has taken), `NoEarlyRepeat` with two tickers, which the operator guide warns of.

## 5. What is proved

TLAPS proves, for every value of the constants that satisfies the named
assumptions (`JobIdsAssumption`, `KeysAssumption`, ... in the modules that declare
the constants):

| Theorem | States | From |
|---|---|---|
| `JobQueueProofs!TypeCorrect` | `Spec => []TypeOK` | |
| `JobQueueProofs!RunningOwned` | `Spec => []RunningIsOwnedOrLost` | any number of workers, producers, administrators |
| `JobBudgetProofs!BudgetKept` | `Spec => []ExecutionsBounded` | `SingleWorker`, `SingleAdmin` |
| `JobBudgetProofs!DeadExhausted` | `Spec => []DeadIsExhausted` | `SingleWorker`, `SingleAdmin` |
| `JobBudgetProofs!BackoffKept` | `Spec => BackoffRespected` | `SingleWorker`, `SingleAdmin` |
| `JobBudgetProofs!SuccessKept` | `Spec => SuccessIsFinal` | `SingleWorker`, `SingleAdmin` |
| `JobBudgetProofs!KeysKept` | `Spec => []KeysUnique` | `SingleWorker`, `SingleProducer`, no administrator |
| `JobBudgetProofs!PromiseKept` | `Spec => KeepsPromise` | `SingleWorker`, `SingleAdmin` |
| `JobSchedulerProofs!SchedulerTyped` | `Spec => []TypeOK` | |
| `JobSchedulerProofs!RepeatsSpaced` | `Spec => NoEarlyRepeat` | `SingleTicker` |
| `JobSchedulerProofs!DuplicatesBounded` | `Spec => []OneDuplicatePerAbort` | any number of tickers and schedules |
| `ApplicationProofs!TypeCorrect` | `Spec => []TypeOK` | |
| `ApplicationProofs!ReviewFirst` | `Spec => []ReviewPrecedesMoney` | any number of concurrent requests |
| `ApplicationProofs!RollbackInHistory` | `Spec => []RollbackStaysInHistory` | any number of concurrent requests |
| `ApplicationProofs!DocumentsTyped` | `DocumentsSpec => []DocumentsTypeOK` | |
| `ApplicationProofs!PeriodBacked` | `DocumentsSpec => []PeriodIsBacked` | any number of documents and requests |
| `ApplicationProofs!FilesKept` | `DocumentsSpec => []FilesBehindRows` | any number of documents and requests |
| `ApplicationProofs!NewestCurrent` | `DocumentsSpec => []NewestIsCurrent` | any number of documents, versions, requests |
| `ModelRegistryProofs!RegistryTyped` | `Spec => []TypeOK` | |
| `ModelRegistryProofs!NothingUnapprovedServed` | `Spec => []ProductionWasApproved` | any number of versions and requests |
| `ModelRegistryProofs!SwitchesKeepOneProduction` | `Spec => []OneProduction` | any number of versions and requests |
| `ModelRegistryProofs!CurrentStaysNewest` | `Spec => []CurrentIsNewest` | any number of versions and requests |
| `ModelRegistryProofs!ArtifactsStayMatched` | `Spec => []ArtifactsMatch` | any number of versions and requests |
| `ModelRegistryProofs!AlwaysServed` | `Spec => []NeverUnserved` | any number of versions and requests |
| `GovernanceProofs!ReviewTyped` | `ReviewSpec => []ReviewTypeOK` | |
| `GovernanceProofs!Ordered` | `ReviewSpec => DecisionsInOrder` | any number of users and requests |
| `GovernanceProofs!Separated` | `ReviewSpec => DutiesSeparated` | any number of users and requests |
| `GovernanceProofs!DecisionsFollow` | `CommitteeSpec => []DecisionFollowsVotes` | any number of members, votes and requests |
| `GovernanceProofs!GovernanceTyped` | `GovernanceSpec => []GovernanceTypeOK` | |
| `GovernanceProofs!GovernanceSafe` | the eight properties of the four workflows, of `GovernanceSpec` | any values of the constants |
| `DataSyncProofs!SyncTyped` | `SyncSpec => []SyncTypeOK` | |
| `DataSyncProofs!NewestServed` | `SyncSpec => []NewestIsServed` | any number of targets and importers |
| `DataSyncProofs!FinishedAccounted` | `SyncSpec => []FinishedIsAccounted` | any number of targets, jobs, importers |
| `PlatformProofs!ImportsBooked` | `ImportsSpec => []ConfirmedIsBooked` | any number of imports, companies, requests |
| `PlatformProofs!ChargesOnce` | `BillingSpec => []ChargedOnce` | any number of requests and invoices |
| `PlatformProofs!CurrentStored` | `StoreSpec => []CurrentIsStored` | any number of calls, objects, versions |
| `PlatformProofs!AnswersFit` | `RiskSpec => []AnswersFitBreach` | any number of requests |
| `PlatformProofs!PlatformTyped` | `PlatformSpec => []PlatformTypeOK` | |
| `PlatformProofs!PlatformSafe` | the six safety properties of the services, of `PlatformSpec` | any values of the constants |

**Running rows.** That some worker is executing the row is not inductive: a worker
that loaded the row as `retrying` before another one started it does not
overwrite `running` when it records its own failure (`Flushed` leaves the column
alone). `RunningHasOwner` strengthens the executor to an `Owner`: a worker in the
handler, which has still to load the row, or one that is failing and *loaded* it as
`running`, whose decision is therefore written.

**The budget.** `ExecutionsBounded` needs `attempts` (a column) to follow `runs`
(what really happened), although the worker counts from a copy that may be older
than the table. `BudgetInv` relates the three. `RowInv`: the row's attempts cover
its runs, and a row somebody may claim has a run left. `CopyInv`: so do the
attempts of the worker's copy, a worker about to start has a run left, and no
copy that says `running` outlives the row's being claimable, since a start from
such a copy would leave the status alone and the row claimable during its own
run. `EditInv`: a pending replay holds a dead row. TLC checked `BudgetInv` as an
invariant before the proof. With two workers the property is false, hence
`SingleWorker`; two administrators who replay one row break it too, hence
`SingleAdmin`.

**The delay.** That handlers wait is not inductive; what the row promises is
(`BackoffInv`): while it may be claimed, its `available_at` lies at least
`Backoff(runs)` after the last recorded failure, and a worker about to start it
found that time past. The delay was computed from the attempts, which `BudgetInv`
keeps at or above the executions, and `Backoff` grows (`BackoffGrows`: `2 ^ n` counts
the subsets of `1 .. n`, the only way to compare powers without an induction over
data).

**Success.** `OutcomeInv`: whoever still handles or fails a row finds it `running` or
`canceled`, so nobody writes over a success, except after the refresh that raises
when its commit has been made, which `DbErrors` allows and the property excepts.

**Keys.** `KeysInv` adds to `KeysUnique` that a key looked up and found free stays free
until the insert. The one worker settles and claims only rows that were live, so only
a producer or an administrator could take it: hence one of the former and none of
the latter.

**Schedules.** A session holds back one move at a time, because the enqueue of the next
job commits it. With one ticker (`SpacedInv`) the next run of a schedule is an interval
after its last job, unless its move is the one held back or was lost, and the ones still
to be visited were due when the tick began. `DuplicateInv` needs no such hypothesis: the
jobs exceed the moves by at most one for each session that holds a move and one for
each abort. Both are about a sum over all schedules, which the model writes as a fold.
No induction theorem of the library can be used for it, since each takes an operator;
`ExcessCounted` shows by a minimal counterexample (`WFMin` over the subsets of a finite
set) that the fold is the difference of the sizes of two sets of pairs, and the steps
add or remove one pair.

**The review.** `PrecedenceInv` says of the set of statuses ever visited that each
stage was preceded by the one before it, and, what makes it inductive under lost
updates, that every status a request has *loaded*, every target of a rollback under
way and every `cameFrom` entry is in that set, while a move's target is one the
table allows after the status loaded. A stale request then cannot add a status
whose predecessors were never visited: that is
why `ReviewPrecedesMoney` survives the races that break `TerminalIsFinal`.

**Documents.** The properties speak of a document on which no two requests have met.
`DocumentOK` says what its open request may rely on until it commits: the status it
loaded is the row's, the flags it is about to clear are those that are set, an upload has
its file and no row, a delete meets no citation. Only approvals share a document
outside `entangled`, and they leave it reviewed or approved.

**The registry.** `ApprovedInv` and `RequestInv` carry the approval from the guard
of `promote`, and from the row a rollback reads, to the commit that uses it.
`SwitchInv` says who may be in production at each point of the only switch:
only the incumbent it read, until that is archived or demoted, then only the
model that takes over. Reviews may only take a version out of production, so they
preserve it from the side. `RegisterInv`: while registrations do not overlap, the open one
has a number above every row's and has read the current rows as they still are, so its
file is no other row's and its insert leaves one current row. `ServedInv`: while reviews do
not overlap, a review still finds the approval it loaded and an approved model stays so, so
no review takes a serving model out; and while switches do not overlap, a promotion that
loaded its model as the one in production, and will therefore not write its status, has
it there still. TLC checked all of them as invariants before the proof.

**The promise.** The refinement follows from `BudgetInv` as well. Every step touches
one row at most, and what it does to the phase of that row is one of the steps of
`JobLifecycle`: a row somebody may claim has executions left, the row of a busy
worker exists and is not dead, and what an administrator is about to replay is dead.
Two workers may execute one row at once, and then neither the phases nor the
executions left are those of the promise: hence `SingleWorker` once more.

**Review cases.** The conditional UPDATE compares a status and a revision; that
this says anything about the analyst, the assessments and the decisions is
`HeldInv`: until a save goes over a change, a revision is never used twice, so a
request that holds the current revision holds the current case, and what it read
after the case is still the newest. `AllowedInv` remembers what a deciding request
was allowed by. Together with the types they are inductive, and both action
properties follow from them for each commit.

**Committee.** A member has one vote (`OneVoteEach`), votes are never taken back, so
a quorum that was found stays one; a request that is about to decide holds the
recommendation of the votes until one of them is written (`DecidingInv`). The quorum of
distinct members is the bijection between votes and voters (`VotersCounted`).

**Synchronization.** `NewestIsServed` is nearly inductive: an import retires the
one row it read, however many are current when it writes. If that row is the
newest, the new version is above every other; if not, the newest stays current.

A finished job accounts for its targets by `AccountInv`: one request at a time runs a job and
is the only one that writes its status, a target that it has neither stored nor lettered is
still on its list unless it has no operation (`Covered`), and a replay marks only letters
that were open and whose import has stored data.

**The compositions.** A step of an area leaves the variables of the others alone, so
`PlatformSpec` and `GovernanceSpec` imply the specification of each of their parts
(`PlatformParts`, `GovernanceParts`), and what is proved of the parts holds of what TLC
runs.

**The other services.** `ImportsInv`: the book only grows, so what a confirmation
has seen booked still is when it commits (`SeenBooked`); a record that awaits its
confirmation shows a mapping that was committed (`ShowsMapping`), so the rows a
confirmation has loaded are those of one, and of the one the record still shows until
another is committed, which `remapped` notices while the confirmation is open
(`LoadedMapping`). `StoreInv`: a file that was written is
there or was taken by a removal, and a put that is about to commit has written its
file. `RiskInv`: until a request commits over a breach that changed, the breach and
every copy that will be written back fit their answers. `BillingInv`: numbers are
unique, an uncontested number has one payer, a request about to charge finds it
unpaid, and it has been charged exactly when it is paid or being settled.

## 6. What is only model-checked, and what is not modelled

* **TLC only:** the liveness properties, which rest on fairness and `ENABLED` (out of
  the prover's reach). Every invariant and every action property of a passing run is
  proved, some of them from the hypotheses that section 5 names, which are those of the
  runs. The properties of section 4 are refuted, and have nothing to prove.
* **Left out of the modelled components:** the queue filter of `_claim_next` and
  the tenant (every worker here serves the same queue); `available_at` given by
  the caller of `enqueue`; progress and log rows of a job; the `enabled` flag of a
  schedule, which nothing in the source clears; audit rows and notifications,
  except that their commits separate steps; workflow definitions of approvals,
  which name stages and do not steer the status; the datasets and the deployment
  events of the registry, and the caches of the serving layer; evidence and
  permissions of a review; a document that moves to another company or year; the
  attendance, minutes, agenda order and signatures of a committee; the number of
  attempts and the conflict statistics of a synchronization; amounts, custom plans
  and usage of billing; contents, encryption and multipart bookkeeping of objects;
  the company covenants beside the exposure limits, which are only appended to.
* **Assumed:** `max_attempts` and `interval_seconds` are positive. The API does
  not check it.
* **Components not modelled, and why:** connectors (`get_connector` builds a new one
  for each call, so breaker, limiter and cache start afresh each time; to a caller a
  connector is the choice of outcomes `DataSync` makes); refresh tokens and
  lockout (constructed in tests only); numeric scoring and analytics (floating
  point, no transitions), prompts and language models, document parsing, static
  permission tables, reports, routing and serialisation, the web client. These are
  most of the repository's lines, which is why the mapped share of it is small.
  Consents, tenancy, the backup catalog and the cache have states that could be
  modelled, and are in the plan.

## 7. Plan

In order of what the system would miss most:

1. **Components:** `Consents` (stored status against the provider's, and the imports
   that rely on it), invitations and memberships, the backup catalog under run,
   prune and restore, the cache with the readers that invalidate it. Each is small
   and shares no table with another, so each becomes an area of `MCGovernance` or
   `MCPlatform`.
2. **Operations:** a document moved to another company or year; a second sync job
   beside the replay of the first one's dead letters.
3. **Refinement:** the job a schedule promises, which `JobScheduler` implements up to
   duplicates.
4. **Proofs:** the variants of the job engine's theorems that hold for several workers: a
   bound on the executions of a row in terms of the sessions that may hold a copy of
   it, and `KeysUnique` with an administrator who replays no row whose key is taken.
