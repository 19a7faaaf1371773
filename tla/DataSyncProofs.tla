--------------------------- MODULE DataSyncProofs ---------------------------
(***************************************************************************)
(* Proofs about DataSync, for any number of targets, importers, snapshots  *)
(* and jobs: the rows keep their types, and the newest snapshot of a       *)
(* target is the one that is served.                                       *)
(*                                                                         *)
(* An import retires the one row it read, however many are current by the  *)
(* time it writes.  If that row is the newest, the new version is above    *)
(* every other; if it is not, the newest row stays current.                *)
(*                                                                         *)
(* A finished job accounts for each target it had an operation for by an   *)
(* open letter or by stored data.  It does because one request at a time   *)
(* runs a job and still has on its list each target without either, and    *)
(* because a replay resolves only letters whose import has stored data.    *)
(***************************************************************************)
EXTENDS DataSync, TLAPS

(* What a request holds while it imports an item. *)
Holds(s) ==
  /\ s.pc \in {"fetch", "save", "write"} => s.item \in Items
  /\ s.pc \in {"save", "write"} => s.fetched \in Contents
  /\ s.pc = "write" => s.seen \in 0 .. Len(snapshots[s.item[2]])
  /\ s.pc # "idle" /\ s.op = "sync" => s.job \in SyncJobIds

SyncInv ==
  /\ SyncTypeOK
  /\ NewestIsServed
  /\ \A i \in Importers : Holds(importers[i])

-----------------------------------------------------------------------------
LEMMA IdleImporterType ==
  IdleImporter \in Importer /\ IdleImporter.pc = "idle" /\ Holds(IdleImporter)
BY DEF IdleImporter, Importer, Holds

LEMMA SyncInvInit == SyncInit => SyncInv
<1> SUFFICES ASSUME SyncInit PROVE SyncInv
  OBVIOUS
<1>1. SyncTypeOK
  BY IdleImporterType DEF SyncInit, SyncTypeOK, Letter
<1>2. NewestIsServed
  BY DEF SyncInit, NewestIsServed
<1>3. \A i \in Importers : Holds(importers[i])
  BY IdleImporterType DEF SyncInit
<1> QED BY <1>1, <1>2, <1>3 DEF SyncInv

(* The form of every step that leaves the snapshots alone. *)
LEMMA ImporterChanges ==
  ASSUME SyncInv, NEW i \in Importers, NEW s \in Importer, Holds(s),
         importers' = [importers EXCEPT ![i] = s],
         UNCHANGED snapshots,
         syncJobs' \in Seq(SyncJob),
         letters' \in [SyncJobIds \X Targets -> Letter]
  PROVE  SyncInv'
<1> USE DEF SyncInv
<1>1. /\ importers'[i] = s
      /\ \A j \in Importers : j # i => importers'[j] = importers[j]
      /\ importers' \in [Importers -> Importer]
  BY DEF SyncTypeOK
<1>2. \A j \in Importers : Holds(importers'[j])
  BY <1>1
<1>3. \A j \in Importers : Holds(importers[j])'
  BY <1>2 DEF Holds
<1>4. SyncTypeOK'
  BY <1>1, <1>2 DEF SyncTypeOK, Holds
<1>5. NewestIsServed'
  BY DEF NewestIsServed, CurrentSnapshot
<1> QED BY <1>3, <1>4, <1>5

LEMMA SnapshotRow ==
  ASSUME NEW rows \in Seq(Snapshot), NEW k \in 1 .. Len(rows)
  PROVE  rows[k] \in Snapshot /\ rows[k].version \in Nat
<1>1. rows[k] \in Snapshot
  OBVIOUS
<1> QED BY <1>1 DEF Snapshot

(* Retiring a row changes its flag and nothing else. *)
LEMMA SupersededRows ==
  ASSUME NEW rows \in Seq(Snapshot), NEW n \in 0 .. Len(rows)
  PROVE  /\ Superseded(rows, n) \in Seq(Snapshot)
         /\ Len(Superseded(rows, n)) = Len(rows)
         /\ \A k \in 1 .. Len(rows) :
              /\ Superseded(rows, n)[k].version = rows[k].version
              /\ k # n => Superseded(rows, n)[k] = rows[k]
<1>1. CASE n = 0
  BY <1>1 DEF Superseded
<1>2. CASE n # 0
  <2> DEFINE old == rows[n]
             row == [old EXCEPT !.current = FALSE]
  <2>1. n \in 1 .. Len(rows) /\ old \in Snapshot
    BY <1>2
  <2>2. Superseded(rows, n) = [rows EXCEPT ![n] = row]
    BY <1>2, <2>1 DEF Superseded
  <2>3. row \in Snapshot /\ row.version = old.version
    <3> HIDE DEF old
    <3> QED BY <2>1 DEF Snapshot
  <2> HIDE DEF row
  <2> QED BY <2>1, <2>2, <2>3
<1> QED BY <1>1, <1>2

(* The rows of a target after a save. *)
Saved(rows, n, content) ==
  Append(Superseded(rows, n),
         [version |-> IF n = 0 THEN 1 ELSE rows[n].version + 1,
          content |-> content, current |-> TRUE])

LEMMA SavedRows ==
  ASSUME NEW rows \in Seq(Snapshot), NEW n \in 0 .. Len(rows), NEW content \in Contents
  PROVE  /\ Saved(rows, n, content) \in Seq(Snapshot)
         /\ Len(Saved(rows, n, content)) = Len(rows) + 1
         /\ Saved(rows, n, content)[Len(rows) + 1].current
         /\ Saved(rows, n, content)[Len(rows) + 1].version
              = IF n = 0 THEN 1 ELSE rows[n].version + 1
         /\ \A k \in 1 .. Len(rows) :
              /\ Saved(rows, n, content)[k].version = rows[k].version
              /\ k # n => Saved(rows, n, content)[k] = rows[k]
<1> DEFINE row == [version |-> IF n = 0 THEN 1 ELSE rows[n].version + 1,
                   content |-> content, current |-> TRUE]
           old == Superseded(rows, n)
<1>1. n # 0 => rows[n].version \in Nat
  BY SnapshotRow
<1>2. /\ row \in Snapshot /\ row.current
      /\ row.version = IF n = 0 THEN 1 ELSE rows[n].version + 1
  BY <1>1 DEF Snapshot
<1>3. /\ old \in Seq(Snapshot) /\ Len(old) = Len(rows)
      /\ \A k \in 1 .. Len(rows) :
           old[k].version = rows[k].version /\ (k # n => old[k] = rows[k])
  BY SupersededRows
<1>4. Saved(rows, n, content) = Append(old, row)
  BY DEF Saved
<1> HIDE DEF row, old
<1> QED BY <1>2, <1>3, <1>4

(* Retiring one row and adding the version above it leaves the newest      *)
(* version current.                                                        *)
Newest(rows, t) ==
  rows[t].current /\ \A k \in 1 .. Len(rows) : rows[k].version <= rows[t].version

LEMMA NewestStays ==
  ASSUME NEW rows \in Seq(Snapshot), NEW n \in 0 .. Len(rows), NEW content \in Contents,
         NEW top \in 1 .. Len(rows), Newest(rows, top)
  PROVE  \E t \in 1 .. Len(Saved(rows, n, content)) : Newest(Saved(rows, n, content), t)
<1> DEFINE new  == Saved(rows, n, content)
           last == Len(rows) + 1
<1>1. /\ Len(new) = last /\ new[last].current
      /\ new[last].version = IF n = 0 THEN 1 ELSE rows[n].version + 1
      /\ \A k \in 1 .. Len(rows) :
           new[k].version = rows[k].version /\ (k # n => new[k] = rows[k])
  BY SavedRows
<1>2. /\ \A k \in 1 .. Len(rows) : rows[k].version \in Nat
      /\ last \in 1 .. last /\ \A k \in 1 .. last : k = last \/ k \in 1 .. Len(rows)
  BY SnapshotRow
<1>3. new[last].version \in Nat
  BY <1>1, <1>2
<1> HIDE DEF new, last
<1>4. CASE top = n \/ rows[top].version <= new[last].version
  <2>1. rows[top].version <= new[last].version
    BY <1>1, <1>2, <1>4
  <2>2. \A k \in 1 .. last : new[k].version <= new[last].version
    BY <1>1, <1>2, <1>3, <2>1 DEF Newest
  <2> QED BY <1>1, <1>2, <2>2 DEF Newest, new
<1>5. CASE top # n /\ rows[top].version > new[last].version
  <2>1. new[top].current /\ new[top].version = rows[top].version
    BY <1>1, <1>5 DEF Newest
  <2>2. \A k \in 1 .. last : new[k].version <= new[top].version
    BY <1>1, <1>2, <1>3, <1>5, <2>1 DEF Newest
  <2>3. top \in 1 .. last
    BY DEF last
  <2> QED BY <1>1, <2>1, <2>2, <2>3 DEF Newest, new
<1> QED BY <1>2, <1>3, <1>4, <1>5

(* The row current_snapshot returns is the newest of the target. *)
LEMMA ServedIsNewest ==
  ASSUME NEW rows \in Seq(Snapshot)
  PROVE  (\E n \in {n \in DOMAIN rows :
                   /\ rows[n].current
                   /\ \A k \in DOMAIN rows :
                        rows[k].current => rows[k].version <= rows[n].version} :
            \A k \in DOMAIN rows : rows[k].version <= rows[n].version)
         <=> \E t \in 1 .. Len(rows) : Newest(rows, t)
BY DEF Newest

LEMMA NewestByRows ==
  ASSUME snapshots \in [Targets -> Seq(Snapshot)]
  PROVE  NewestIsServed <=>
           \A x \in Targets : snapshots[x] # <<>> =>
             \E t \in 1 .. Len(snapshots[x]) : Newest(snapshots[x], t)
<1>1. \A x \in Targets : snapshots[x] \in Seq(Snapshot)
  OBVIOUS
<1> QED BY <1>1, ServedIsNewest, Zenon DEF NewestIsServed, CurrentSnapshot

(* An item is done: the request goes on to its next one. *)
LEMMA ContinuedType ==
  ASSUME NEW s \in Importer, Holds(s), s.pc # "idle",
         NEW t, \/ t = [Continued(s) EXCEPT !.failed = TRUE]
                \/ \E marks \in SUBSET Items : t = [Continued(s) EXCEPT !.marks = marks]
  PROVE  t \in Importer /\ t.pc \in {"idle", "next"} /\ Holds(t)
<1> DEFINE u == Continued(s)
<1>1. u \in Importer /\ u.pc \in {"idle", "next"} /\ Holds(u)
  <2>1. CASE s.op = "import"
    BY <2>1, IdleImporterType DEF Continued
  <2>2. CASE s.op # "import"
    <3>1. u = [s EXCEPT !.pc = "next", !.fetched = NoTarget, !.seen = 0]
      BY <2>2 DEF Continued
    <3> HIDE DEF u
    <3>2. u \in Importer
      BY <3>1 DEF Importer
    <3>3. u.pc = "next" /\ u.op = s.op /\ u.job = s.job
      BY <3>1 DEF Importer
    <3> QED BY <3>2, <3>3 DEF Holds
  <2> QED BY <2>1, <2>2
<1> HIDE DEF u
<1>2. CASE t = [u EXCEPT !.failed = TRUE]
  <2>1. t \in Importer /\ t.pc = u.pc /\ t.op = u.op /\ t.job = u.job
    BY <1>1, <1>2 DEF Importer
  <2> QED BY <1>1, <2>1 DEF Holds
<1>3. ASSUME NEW marks \in SUBSET Items, t = [u EXCEPT !.marks = marks]
      PROVE  t \in Importer /\ t.pc \in {"idle", "next"} /\ Holds(t)
  <2>1. t \in Importer /\ t.pc = u.pc /\ t.op = u.op /\ t.job = u.job
    BY <1>1, <1>3 DEF Importer
  <2> QED BY <1>1, <2>1 DEF Holds
<1> QED BY <1>2, <1>3 DEF u

LEMMA ImportedType ==
  ASSUME NEW i \in Importers, importers[i] \in Importer, Holds(importers[i]),
         importers[i].pc \in {"fetch", "save", "write"}
  PROVE  Imported(i) \in Importer /\ Holds(Imported(i)) /\ Imported(i).pc \in {"idle", "next"}
<1> DEFINE marks == IF importers[i].op = "replay" THEN {importers[i].item} ELSE {}
<1>1. marks \in SUBSET Items
  BY DEF Holds
<1>2. Imported(i) = [Continued(importers[i]) EXCEPT !.marks = marks]
  BY DEF Imported
<1>3. importers[i].pc # "idle"
  OBVIOUS
<1> HIDE DEF marks
<1> QED BY <1>1, <1>2, <1>3, ContinuedType

LEMMA SaveKeeps ==
  ASSUME SyncInv, NEW i \in Importers, SaveSnapshot(i)
  PROVE  SyncInv'
<1> USE DEF SyncInv
<1> DEFINE s    == importers[i]
           x    == s.item[2]
           rows == snapshots[x]
           new  == Saved(rows, s.seen, s.fetched)
<1>1. /\ s \in Importer /\ s.pc = "write" /\ Holds(s)
  BY DEF SyncTypeOK, SaveSnapshot, At
<1>2. /\ x \in Targets /\ rows \in Seq(Snapshot)
      /\ s.seen \in 0 .. Len(rows) /\ s.fetched \in Contents
  BY <1>1 DEF Holds, Items, SyncTypeOK
<1>3. /\ snapshots' = [snapshots EXCEPT ![x] = new]
      /\ importers' = [importers EXCEPT ![i] = Imported(i)]
      /\ UNCHANGED <<syncJobs, letters>>
  BY DEF SaveSnapshot, Saved, Target
<1> HIDE DEF s, x, rows
<1>4. new \in Seq(Snapshot) /\ Len(new) = Len(rows) + 1
  BY <1>2, SavedRows
<1>5. \E t \in 1 .. Len(new) : Newest(new, t)
  <2>1. CASE rows = <<>>
    <3>1. s.seen = 0 /\ Len(rows) = 0
      BY <1>2, <2>1
    <3>2. /\ Len(new) = Len(rows) + 1 /\ new[Len(rows) + 1].current
          /\ new[Len(rows) + 1].version = IF s.seen = 0 THEN 1 ELSE rows[s.seen].version + 1
      BY <1>2, SavedRows
    <3> HIDE DEF new
    <3> QED BY <3>1, <3>2 DEF Newest
  <2>2. CASE rows # <<>>
    <3>1. PICK top \in 1 .. Len(rows) : Newest(rows, top)
      BY <1>2, <2>2, NewestByRows DEF SyncTypeOK, rows
    <3> QED BY <1>2, <3>1, NewestStays
  <2> QED BY <2>1, <2>2
<1> HIDE DEF new
<1>6. /\ snapshots' \in [Targets -> Seq(Snapshot)]
      /\ snapshots'[x] = new
      /\ \A y \in Targets : y # x => snapshots'[y] = snapshots[y]
      /\ \A y \in Targets : Len(snapshots[y]) <= Len(snapshots'[y])
  <2>1. /\ snapshots' \in [Targets -> Seq(Snapshot)] /\ snapshots'[x] = new
        /\ \A y \in Targets : y # x => snapshots'[y] = snapshots[y]
    BY <1>2, <1>3, <1>4 DEF SyncTypeOK
  <2>2. \A y \in Targets : Len(snapshots[y]) \in Nat
    BY DEF SyncTypeOK
  <2>3. ASSUME NEW y \in Targets PROVE Len(snapshots[y]) <= Len(snapshots'[y])
    <3>1. CASE y = x
      BY <1>4, <2>1, <2>2, <3>1 DEF rows
    <3>2. CASE y # x
      BY <2>1, <2>2, <3>2
    <3> QED BY <3>1, <3>2
  <2> QED BY <2>1, <2>3
<1>7. /\ Imported(i) \in Importer /\ Imported(i).pc \in {"idle", "next"}
      /\ Holds(Imported(i))
  BY <1>1, ImportedType DEF s
<1>8. /\ importers'[i] = Imported(i)
      /\ \A j \in Importers : j # i => importers'[j] = importers[j]
      /\ importers' \in [Importers -> Importer]
  BY <1>3, <1>7 DEF SyncTypeOK
<1>9. ASSUME NEW j \in Importers PROVE Holds(importers[j])'
  <2>1. CASE j = i
    BY <1>7, <1>8, <2>1 DEF Holds
  <2>2. CASE j # i
    <3>1. importers'[j] = importers[j] /\ Holds(importers[j])
      BY <1>8, <2>2
    <3>2. ASSUME importers[j].pc = "write"
          PROVE  importers[j].seen \in 0 .. Len(snapshots'[importers[j].item[2]])
      <4>1. /\ importers[j].item[2] \in Targets
            /\ importers[j].seen \in 0 .. Len(snapshots[importers[j].item[2]])
        BY <3>1, <3>2 DEF Holds, Items
      <4>2. /\ Len(snapshots[importers[j].item[2]]) \in Nat
            /\ Len(snapshots'[importers[j].item[2]]) \in Nat
        BY <1>6, <4>1 DEF SyncTypeOK
      <4> QED BY <1>6, <4>1, <4>2
    <3> QED BY <3>1, <3>2 DEF Holds
  <2> QED BY <2>1, <2>2
<1>10. SyncTypeOK'
  BY <1>3, <1>6, <1>8, <1>9 DEF SyncTypeOK, Holds
<1>11. NewestIsServed'
  <2>1. ASSUME NEW y \in Targets, snapshots'[y] # <<>>
        PROVE  \E t \in 1 .. Len(snapshots'[y]) : Newest(snapshots'[y], t)
    <3>1. CASE y = x
      BY <1>5, <1>6, <3>1
    <3>2. CASE y # x
      <4>1. snapshots'[y] = snapshots[y]
        BY <1>6, <3>2
      <4> QED BY <2>1, <4>1, NewestByRows DEF SyncTypeOK
    <3> QED BY <3>1, <3>2
  <2>2. (snapshots \in [Targets -> Seq(Snapshot)])'
    BY <1>6
  <2>3. \A y \in Targets : snapshots'[y] \in Seq(Snapshot)
    BY <2>2
  <2> QED BY <2>1, <2>3, ServedIsNewest, Zenon DEF NewestIsServed, CurrentSnapshot
<1> QED BY <1>9, <1>10, <1>11

-----------------------------------------------------------------------------
(* A job whose status is written. *)
LEMMA StatusType ==
  ASSUME NEW jobs \in Seq(SyncJob), NEW job,
         NEW status \in {"pending", "running", "completed", "partial"}
  PROVE  [jobs EXCEPT ![job].status = status] \in Seq(SyncJob)
<1>1. CASE job \in 1 .. Len(jobs)
  <2> DEFINE old == jobs[job]
  <2>1. old \in SyncJob
    BY <1>1
  <2> HIDE DEF old
  <2>2. [old EXCEPT !.status = status] \in SyncJob
    BY <2>1 DEF SyncJob
  <2> QED BY <1>1, <2>2 DEF old
<1>2. CASE job \notin 1 .. Len(jobs)
  <2>1. [jobs EXCEPT ![job].status = status] = jobs
    BY <1>2
  <2> QED BY <2>1
<1> QED BY <1>1, <1>2

LEMMA StartKeeps ==
  ASSUME SyncInv, NEW i \in Importers,
         \/ \E x \in Targets : StartImport(i, x)
         \/ \E full \in BOOLEAN : StartSync(i, full)
         \/ BeginSync(i) \/ StartReplay(i)
  PROVE  SyncInv'
<1> USE DEF SyncInv
<1>1. /\ syncJobs \in Seq(SyncJob) /\ letters \in [SyncJobIds \X Targets -> Letter]
      /\ importers[i] \in Importer /\ Holds(importers[i])
  BY DEF SyncTypeOK
<1>2. ASSUME NEW x \in Targets, StartImport(i, x) PROVE SyncInv'
  <2> DEFINE s == [IdleImporter EXCEPT !.pc = "fetch", !.item = <<0, x>>]
  <2>1. s \in Importer /\ s.pc = "fetch" /\ s.op = "import" /\ s.item = <<0, x>>
    BY DEF IdleImporter, Importer, Items
  <2>2. importers' = [importers EXCEPT ![i] = s] /\ UNCHANGED <<snapshots, syncJobs, letters>>
    BY <1>2 DEF StartImport
  <2> HIDE DEF s
  <2>3. Holds(s)
    BY <2>1 DEF Holds, Items
  <2> QED BY <1>1, <2>1, <2>2, <2>3, ImporterChanges
<1>3. ASSUME NEW full \in BOOLEAN, StartSync(i, full) PROVE SyncInv'
  <2> DEFINE job == Len(syncJobs) + 1
             s == [IdleImporter EXCEPT !.pc = "begin", !.op = "sync", !.job = job]
  <2>1. job \in SyncJobIds
    BY <1>1, <1>3, SyncBoundAssumption DEF StartSync, SyncJobIds
  <2>2. syncJobs' \in Seq(SyncJob)
    <3>1. [status |-> "pending", full |-> full] \in SyncJob
      BY DEF SyncJob
    <3> QED BY <1>1, <1>3, <3>1 DEF StartSync
  <2>3. s \in Importer /\ s.pc = "begin" /\ s.op = "sync" /\ s.job = job
    BY <2>1 DEF IdleImporter, Importer
  <2>4. importers' = [importers EXCEPT ![i] = s] /\ UNCHANGED <<snapshots, letters>>
    BY <1>3 DEF StartSync
  <2> HIDE DEF s, job
  <2>5. Holds(s)
    BY <2>1, <2>3 DEF Holds
  <2> QED BY <1>1, <2>2, <2>3, <2>4, <2>5, ImporterChanges
<1>4. CASE BeginSync(i)
  <2> DEFINE s == [importers[i] EXCEPT !.pc = "next", !.todo = {importers[i].job} \X Targets]
  <2>1. importers[i].job \in SyncJobIds \cup {0} /\ importers[i].pc = "begin"
    BY <1>1, <1>4 DEF BeginSync, At, Importer
  <2>2. s \in Importer /\ s.pc = "next" /\ s.op = importers[i].op /\ s.job = importers[i].job
    BY <1>1, <2>1 DEF Importer, Items
  <2>3. importers' = [importers EXCEPT ![i] = s] /\ UNCHANGED <<snapshots, letters>>
    BY <1>4 DEF BeginSync, SyncTypeOK
  <2>4. syncJobs' \in Seq(SyncJob)
    BY <1>1, <1>4, StatusType DEF BeginSync
  <2> HIDE DEF s
  <2>5. Holds(s)
    BY <1>1, <2>1, <2>2 DEF Holds
  <2> QED BY <1>1, <2>2, <2>3, <2>4, <2>5, ImporterChanges
<1>5. CASE StartReplay(i)
  <2> DEFINE todo == {l \in DOMAIN letters : letters[l] = "open"}
             s == [IdleImporter EXCEPT !.pc = "next", !.op = "replay", !.todo = todo]
  <2>1. todo \subseteq Items
    BY <1>1 DEF Items
  <2>2. importers' = [importers EXCEPT ![i] = s] /\ UNCHANGED <<snapshots, syncJobs, letters>>
    BY <1>5 DEF StartReplay
  <2> HIDE DEF todo
  <2>3. s \in Importer /\ s.pc = "next" /\ s.op = "replay"
    BY <2>1 DEF IdleImporter, Importer
  <2> HIDE DEF s
  <2>4. Holds(s)
    BY <2>3 DEF Holds
  <2> QED BY <1>1, <2>2, <2>3, <2>4, ImporterChanges
<1> QED BY <1>2, <1>3, <1>4, <1>5

(* The steps of one item, but for the save. *)
LEMMA ItemKeeps ==
  ASSUME SyncInv, NEW i \in Importers,
         \/ \E item \in Items : SkipTarget(i, item) \/ PickTarget(i, item)
         \/ \E content \in Contents : Fetch(i, content)
         \/ ReadCurrent(i) \/ RefreshSnapshot(i)
         \/ ImportRaises(i) \/ Exhaust(i) \/ FetchFails(i)
  PROVE  SyncInv'
<1> USE DEF SyncInv
<1> DEFINE s == importers[i]
<1>1. /\ syncJobs \in Seq(SyncJob) /\ letters \in [SyncJobIds \X Targets -> Letter]
      /\ s \in Importer /\ Holds(s)
      /\ snapshots \in [Targets -> Seq(Snapshot)]
      /\ importers \in [Importers -> Importer]
  BY DEF SyncTypeOK
<1>2. Marked(i) \in [SyncJobIds \X Targets -> Letter]
  BY <1>1 DEF Marked, Letter
<1>3. ASSUME NEW item \in Items, SkipTarget(i, item) PROVE SyncInv'
  <2> DEFINE t == [s EXCEPT !.todo = @ \ {item}]
  <2>1. t \in Importer /\ t.pc = "next" /\ t.op = s.op /\ t.job = s.job /\ s.pc = "next"
    BY <1>1, <1>3 DEF SkipTarget, At, Importer
  <2>2. importers' = [importers EXCEPT ![i] = t] /\ UNCHANGED <<snapshots, syncJobs, letters>>
    BY <1>1, <1>3 DEF SkipTarget
  <2> HIDE DEF t
  <2>3. Holds(t)
    BY <1>1, <2>1 DEF Holds
  <2> QED BY <1>1, <2>1, <2>2, <2>3, ImporterChanges
<1>4. ASSUME NEW item \in Items, PickTarget(i, item) PROVE SyncInv'
  <2> DEFINE t == [s EXCEPT !.pc = "fetch", !.item = item, !.todo = @ \ {item}]
  <2>1. /\ t \in Importer /\ t.pc = "fetch" /\ t.item = item
        /\ t.op = s.op /\ t.job = s.job /\ s.pc = "next"
    BY <1>1, <1>4 DEF PickTarget, At, Importer
  <2>2. importers' = [importers EXCEPT ![i] = t] /\ UNCHANGED <<snapshots, syncJobs, letters>>
    BY <1>1, <1>4 DEF PickTarget
  <2> HIDE DEF t
  <2>3. Holds(t)
    BY <1>1, <2>1 DEF Holds
  <2> QED BY <1>1, <2>1, <2>2, <2>3, ImporterChanges
<1>5. ASSUME NEW content \in Contents, Fetch(i, content) PROVE SyncInv'
  <2> DEFINE t == [s EXCEPT !.pc = "save", !.fetched = content, !.marks = {}]
  <2>1. /\ t \in Importer /\ t.pc = "save" /\ t.item = s.item /\ t.fetched = content
        /\ t.op = s.op /\ t.job = s.job /\ s.pc = "fetch"
    BY <1>1, <1>5 DEF Fetch, At, Importer
  <2>2. /\ importers' = [importers EXCEPT ![i] = t] /\ UNCHANGED <<snapshots, syncJobs>>
        /\ letters' = Marked(i)
    BY <1>1, <1>5 DEF Fetch
  <2> HIDE DEF t
  <2>3. Holds(t)
    BY <1>1, <2>1 DEF Holds
  <2> QED BY <1>1, <1>2, <2>1, <2>2, <2>3, ImporterChanges
<1>6. CASE ReadCurrent(i)
  <2>1. PICK n \in 0 .. Len(snapshots[s.item[2]]) :
          importers' = [importers EXCEPT ![i] = [s EXCEPT !.pc = "write", !.seen = n]]
    <3>1. s.item[2] \in Targets /\ snapshots[s.item[2]] \in Seq(Snapshot)
      BY <1>1, <1>6 DEF ReadCurrent, At, Holds, Items
    <3>2. CurrentSnapshot(Target(i)) \subseteq 1 .. Len(snapshots[s.item[2]])
      BY <3>1 DEF CurrentSnapshot, Target
    <3>3. \E n \in CurrentSnapshot(Target(i)) \cup {0} :
            importers' = [importers EXCEPT ![i] = [s EXCEPT !.pc = "write", !.seen = n]]
      BY <1>1, <1>6 DEF ReadCurrent
    <3>4. CurrentSnapshot(Target(i)) \cup {0} \subseteq 0 .. Len(snapshots[s.item[2]])
      <4>1. Len(snapshots[s.item[2]]) \in Nat
        BY <3>1
      <4> QED BY <3>2, <4>1
    <3> QED BY <3>3, <3>4, Zenon
  <2> DEFINE t == [s EXCEPT !.pc = "write", !.seen = n]
  <2>2. n \in Nat /\ s.pc = "save"
    BY <1>6 DEF ReadCurrent, At
  <2>3. /\ t \in Importer /\ t.pc = "write" /\ t.item = s.item /\ t.fetched = s.fetched
        /\ t.op = s.op /\ t.job = s.job /\ t.seen = n
    BY <1>1, <2>2 DEF Importer
  <2>4. importers' = [importers EXCEPT ![i] = t] /\ UNCHANGED <<snapshots, syncJobs, letters>>
    BY <1>6, <2>1 DEF ReadCurrent
  <2> HIDE DEF t
  <2>5. Holds(t)
    BY <1>1, <2>1, <2>2, <2>3 DEF Holds
  <2> QED BY <1>1, <2>3, <2>4, <2>5, ImporterChanges
<1>7. CASE RefreshSnapshot(i)
  <2>1. Imported(i) \in Importer /\ Holds(Imported(i))
    BY <1>1, <1>7, ImportedType DEF RefreshSnapshot, At
  <2> QED BY <1>1, <1>7, <2>1, ImporterChanges DEF RefreshSnapshot
<1>8. ASSUME s.pc \in {"fetch", "save", "write"}, UNCHANGED <<snapshots, syncJobs>>,
             letters' \in [SyncJobIds \X Targets -> Letter],
             \/ importers' = [importers EXCEPT ![i] = [Continued(s) EXCEPT !.marks = {}]]
             \/ importers' = [importers EXCEPT ![i] = [Continued(s) EXCEPT !.failed = TRUE]]
      PROVE  SyncInv'
  <2>1. PICK t : /\ importers' = [importers EXCEPT ![i] = t]
                 /\ \/ t = [Continued(s) EXCEPT !.failed = TRUE]
                    \/ \E marks \in SUBSET Items : t = [Continued(s) EXCEPT !.marks = marks]
    BY <1>8
  <2>2. s.pc # "idle"
    BY <1>8
  <2>3. t \in Importer /\ Holds(t)
    BY <1>1, <2>1, <2>2, ContinuedType
  <2> QED BY <1>1, <1>8, <2>1, <2>3, ImporterChanges
<1>9. CASE ImportRaises(i)
  <2>1. CASE s.op = "sync"
    <3> DEFINE t == [s EXCEPT !.pc = "fetch", !.fetched = NoTarget, !.seen = 0]
    <3>1. /\ t \in Importer /\ t.pc = "fetch" /\ t.item = s.item
          /\ t.op = s.op /\ t.job = s.job
      BY <1>1 DEF Importer
    <3>2. /\ importers' = [importers EXCEPT ![i] = t] /\ UNCHANGED <<snapshots, syncJobs, letters>>
          /\ s.pc \in {"fetch", "save", "write"}
      BY <1>1, <1>9, <2>1 DEF ImportRaises
    <3> HIDE DEF t
    <3>3. Holds(t)
      BY <1>1, <3>1, <3>2 DEF Holds
    <3> QED BY <1>1, <3>1, <3>2, <3>3, ImporterChanges
  <2>2. CASE s.op # "sync"
    BY <1>1, <1>8, <1>9, <2>2 DEF ImportRaises
  <2> QED BY <2>1, <2>2
<1>10. CASE Exhaust(i)
  <2>1. letters' \in [SyncJobIds \X Targets -> Letter]
    BY <1>1, <1>10 DEF Exhaust, Letter
  <2> QED BY <1>1, <1>8, <1>10, <2>1 DEF Exhaust, At
<1>11. CASE FetchFails(i)
  BY <1>1, <1>2, <1>8, <1>11 DEF FetchFails, At
<1> QED BY <1>3, <1>4, <1>5, <1>6, <1>7, <1>9, <1>10, <1>11

LEMMA EndKeeps ==
  ASSUME SyncInv, NEW i \in Importers, FinishSync(i) \/ FinishReplay(i) \/ CrashImporter(i)
  PROVE  SyncInv'
<1> USE DEF SyncInv
<1>1. /\ syncJobs \in Seq(SyncJob) /\ letters \in [SyncJobIds \X Targets -> Letter]
      /\ importers' = [importers EXCEPT ![i] = IdleImporter] /\ UNCHANGED snapshots
  BY DEF SyncTypeOK, FinishSync, FinishReplay, CrashImporter
<1>2. letters' \in [SyncJobIds \X Targets -> Letter]
  BY <1>1 DEF FinishSync, FinishReplay, CrashImporter, Marked, Letter
<1>3. syncJobs' \in Seq(SyncJob)
  <2>1. CASE FinishSync(i)
    BY <1>1, <2>1, StatusType DEF FinishSync
  <2> QED BY <1>1, <2>1 DEF FinishReplay, CrashImporter
<1> QED BY <1>1, <1>2, <1>3, IdleImporterType, ImporterChanges

LEMMA SyncInvNext == SyncInv /\ [SyncNext]_syncVars => SyncInv'
<1> SUFFICES ASSUME SyncInv, [SyncNext]_syncVars PROVE SyncInv'
  OBVIOUS
<1>1. CASE UNCHANGED syncVars
  BY <1>1 DEF syncVars, SyncInv, SyncTypeOK, NewestIsServed, CurrentSnapshot, Holds
<1>2. ASSUME NEW i \in Importers, ImporterStep(i) PROVE SyncInv'
  BY <1>2, StartKeeps, ItemKeeps, SaveKeeps, EndKeeps DEF ImporterStep
<1> QED BY <1>1, <1>2 DEF SyncNext

THEOREM SyncInvariant == SyncSpec => []SyncInv
BY SyncInvInit, SyncInvNext, PTL DEF SyncSpec

(* The rows of the snapshot store and what the requests hold keep their    *)
(* types: a request's snapshot, letter and job exist when it writes them.  *)
THEOREM SyncTyped == SyncSpec => []SyncTypeOK
<1>1. SyncInv => SyncTypeOK
  BY DEF SyncInv
<1> QED BY <1>1, SyncInvariant, PTL

(* The snapshot a target serves is of the highest version it has.          *)
THEOREM NewestServed == SyncSpec => []NewestIsServed
<1>1. SyncInv => NewestIsServed
  BY DEF SyncInv
<1> QED BY <1>1, SyncInvariant, PTL
-----------------------------------------------------------------------------
(* What a finished job accounts for.  While a request runs a job, no other *)
(* request writes its status, and each of its targets is still to be done, *)
(* has an open letter, has data or has no operation to fetch it by.  A     *)
(* replay resolves only letters that were open, and only those whose       *)
(* import has stored data.                                                 *)
Covered(x) == x \in Unmapped \/ snapshots[x] # <<>>
Busy(s)    == s.pc \in {"fetch", "save", "write"}
Runs(s, j) == s.pc # "idle" /\ s.op = "sync" /\ s.job = j
Pending(s) == s.todo \cup (IF Busy(s) THEN {s.item} ELSE {})

JobInv(s, j) ==
  /\ j \in DOMAIN syncJobs
  /\ syncJobs[j].status = IF s.pc = "begin" THEN "pending" ELSE "running"
  /\ s.failed <=> \E x \in Targets : letters[<<j, x>>] # "none"
  /\ s.pc # "begin" =>
       /\ Pending(s) \subseteq {j} \X Targets
       /\ \A x \in Targets :
            <<j, x>> \notin Pending(s) => letters[<<j, x>>] = "open" \/ Covered(x)

Lettered(l) == l \in SyncJobIds \X Targets /\ letters[l] # "none"

ReplayInv(s) ==
  /\ s.pc = "begin" => s.op = "sync"
  /\ s.op = "replay" => \A l \in Pending(s) : Lettered(l)
  /\ \A l \in s.marks : Lettered(l) /\ Covered(l[2])

JobAccounted(j) ==
  syncJobs[j].status \in {"completed", "partial"} =>
    /\ syncJobs[j].status = "completed" <=> \A x \in Targets : letters[<<j, x>>] = "none"
    /\ \A x \in Targets : letters[<<j, x>>] # "open" => Covered(x)

AccountInv ==
  /\ Len(syncJobs) <= MaxSyncJobs
  /\ \A i, k \in Importers, j \in SyncJobIds :
       Runs(importers[i], j) /\ Runs(importers[k], j) => i = k
  /\ \A i \in Importers, j \in SyncJobIds : Runs(importers[i], j) => JobInv(importers[i], j)
  /\ \A i \in Importers : ReplayInv(importers[i])
  /\ \A l \in SyncJobIds \X Targets : letters[l] # "none" => l[1] \in DOMAIN syncJobs
  /\ \A j \in DOMAIN syncJobs : JobAccounted(j)

LEMMA AccountInvInit == SyncInit => AccountInv
BY SyncBoundAssumption
   DEF SyncInit, AccountInv, Runs, ReplayInv, Pending, Busy, IdleImporter

(* A letter is written by the request that runs its job, or resolved once  *)
(* its target is covered.                                                  *)
LetterKept(s, l) ==
  \/ letters'[l] = letters[l]
  \/ Runs(s, l[1]) /\ letters'[l] = "open"
  \/ Lettered(l) /\ Covered(l[2]) /\ letters'[l] = "resolved"

LEMMA BecomesRequest ==
  ASSUME NEW k \in Importers, NEW u, importers'[k] = u
  PROVE  /\ \A j : Runs(u, j) <=> Runs(importers[k], j)'
         /\ \A j : JobInv(u, j)' => JobInv(importers[k], j)'
         /\ ReplayInv(u)' => ReplayInv(importers[k])'
<1>1. \A j : Runs(u, j) <=> Runs(importers[k], j)'
  BY DEF Runs
<1>2. \A j : JobInv(u, j)' => JobInv(importers[k], j)'
  BY DEF JobInv, Pending, Busy
<1>3. ReplayInv(u)' => ReplayInv(importers[k])'
  BY DEF ReplayInv, Pending, Busy
<1> QED BY <1>1, <1>2, <1>3

(* The form of every step: request i becomes s, what it did to its own job *)
(* is for the step to show, and the other jobs stay accounted for.         *)
LEMMA AccountChanges ==
  ASSUME SyncInv, SyncInv', AccountInv, NEW i \in Importers, NEW s,
         importers' = [importers EXCEPT ![i] = s],
         Len(syncJobs') <= MaxSyncJobs,
         \A x \in Targets : Covered(x) => Covered(x)',
         \A l \in SyncJobIds \X Targets : LetterKept(importers[i], l),
         \A j \in DOMAIN syncJobs : j \in DOMAIN syncJobs' /\
           (~ Runs(importers[i], j) => syncJobs'[j].status = syncJobs[j].status),
         \A j \in SyncJobIds : Runs(s, j) =>
           (Runs(importers[i], j) \/ j \notin DOMAIN syncJobs) /\ JobInv(s, j)',
         ReplayInv(s)',
         \A j \in DOMAIN syncJobs' :
           Runs(importers[i], j) \/ j \notin DOMAIN syncJobs => JobAccounted(j)'
  PROVE  AccountInv'
<1> USE DEF AccountInv
<1>1. /\ importers'[i] = s
      /\ \A k \in Importers : k # i => importers'[k] = importers[k]
  BY DEF SyncInv, SyncTypeOK
<1>2. /\ letters \in [SyncJobIds \X Targets -> Letter]
      /\ letters' \in [SyncJobIds \X Targets -> Letter]
  BY DEF SyncInv, SyncTypeOK
<1>3. \A l \in SyncJobIds \X Targets : Lettered(l) => Lettered(l)'
  BY DEF LetterKept, Lettered
<1>4. ASSUME NEW k \in Importers, NEW j \in SyncJobIds, k # i, Runs(importers[k], j)
      PROVE  /\ ~ Runs(importers[i], j) /\ j \in DOMAIN syncJobs
             /\ ~ Runs(s, j)
  BY <1>4 DEF JobInv
<1>5. ASSUME NEW j \in SyncJobIds, ~ Runs(importers[i], j), NEW x \in Targets
      PROVE  /\ letters'[<<j, x>>] # "none" <=> letters[<<j, x>>] # "none"
             /\ letters'[<<j, x>>] # letters[<<j, x>>] => Covered(x)
             /\ letters[<<j, x>>] = "open" => letters'[<<j, x>>] = "open" \/ Covered(x)'
  <2>1. <<j, x>> \in SyncJobIds \X Targets /\ <<j, x>>[1] = j /\ <<j, x>>[2] = x
    OBVIOUS
  <2>2. LetterKept(importers[i], <<j, x>>)
    BY <2>1
  <2> QED BY <1>5, <2>1, <2>2 DEF LetterKept, Lettered
<1>6. ASSUME NEW k \in Importers, NEW m \in Importers, NEW j \in SyncJobIds,
             Runs(importers[k], j)', Runs(importers[m], j)'
      PROVE  k = m
  <2>1. Runs(importers'[k], j) /\ Runs(importers'[m], j)
    BY <1>6, BecomesRequest
  <2> QED BY <1>1, <1>4, <2>1
<1>7. ASSUME NEW k \in Importers, NEW j \in SyncJobIds, Runs(importers[k], j)'
      PROVE  JobInv(importers[k], j)'
  <2>1. CASE k = i
    <3>1. Runs(s, j)
      BY <1>1, <1>7, <2>1, BecomesRequest
    <3> QED BY <1>1, <2>1, <3>1, BecomesRequest
  <2>2. CASE k # i
    <3>1. PICK u : u = importers[k] /\ importers'[k] = u /\ Runs(u, j)
      BY <1>1, <1>7, <2>2, BecomesRequest
    <3>2. ~ Runs(importers[i], j) /\ JobInv(u, j)
      BY <1>4, <2>2, <3>1
    <3>3. j \in DOMAIN syncJobs' /\ syncJobs'[j].status = syncJobs[j].status
      BY <3>2 DEF JobInv
    <3>4. \A x \in Targets :
            /\ letters'[<<j, x>>] # "none" <=> letters[<<j, x>>] # "none"
            /\ letters[<<j, x>>] = "open" \/ Covered(x) =>
                 letters'[<<j, x>>] = "open" \/ Covered(x)'
      BY <1>5, <3>2
    <3>5. JobInv(u, j)'
      BY <3>2, <3>3, <3>4 DEF JobInv
    <3> QED BY <3>1, <3>5, BecomesRequest
  <2> QED BY <2>1, <2>2
<1>8. ASSUME NEW k \in Importers PROVE ReplayInv(importers[k])'
  <2>1. CASE k = i
    BY <1>1, <2>1, BecomesRequest
  <2>2. CASE k # i
    <3>1. PICK u : importers'[k] = u /\ ReplayInv(u)
      BY <1>1, <2>2
    <3>2. \A l : Lettered(l) => Lettered(l)' /\ (Covered(l[2]) => Covered(l[2])')
      <4>1. \A l \in SyncJobIds \X Targets : l[2] \in Targets
        OBVIOUS
      <4> QED BY <1>3, <4>1 DEF Lettered
    <3>3. ReplayInv(u)'
      BY <3>1, <3>2 DEF ReplayInv
    <3> QED BY <3>1, <3>3, BecomesRequest
  <2> QED BY <2>1, <2>2
<1>9. ASSUME NEW l \in SyncJobIds \X Targets, letters'[l] # "none"
      PROVE  l[1] \in DOMAIN syncJobs'
  <2>1. l[1] \in SyncJobIds
    OBVIOUS
  <2>2. l[1] \in DOMAIN syncJobs
    BY <1>9, <2>1 DEF LetterKept, Lettered, JobInv
  <2> QED BY <2>2
<1>10. ASSUME NEW j \in DOMAIN syncJobs' PROVE JobAccounted(j)'
  <2>1. CASE Runs(importers[i], j) \/ j \notin DOMAIN syncJobs
    BY <2>1
  <2>2. CASE j \in DOMAIN syncJobs /\ ~ Runs(importers[i], j)
    <3>1. JobAccounted(j) /\ syncJobs'[j].status = syncJobs[j].status
      BY <2>2
    <3>2. j \in SyncJobIds
      BY <2>2, SyncBoundAssumption DEF SyncInv, SyncTypeOK, SyncJobIds
    <3>3. \A x \in Targets :
            /\ letters'[<<j, x>>] # "none" <=> letters[<<j, x>>] # "none"
            /\ (letters[<<j, x>>] # "open" => Covered(x)) =>
                 (letters'[<<j, x>>] # "open" => Covered(x)')
      BY <1>5, <2>2, <3>2
    <3> QED BY <3>1, <3>3 DEF JobAccounted
  <2> QED BY <2>1, <2>2
<1> QED BY <1>6, <1>7, <1>8, <1>9, <1>10

(* A request between two accesses to the database. *)
LEMMA QuietChanges ==
  ASSUME SyncInv, SyncInv', AccountInv, NEW i \in Importers, NEW s,
         importers' = [importers EXCEPT ![i] = s],
         UNCHANGED <<snapshots, syncJobs, letters>>,
         \A j \in SyncJobIds : Runs(s, j) => Runs(importers[i], j) /\ JobInv(s, j),
         ReplayInv(s)
  PROVE  AccountInv'
<1>1. /\ \A x \in Targets : Covered(x) => Covered(x)'
      /\ \A j \in SyncJobIds : JobInv(s, j) => JobInv(s, j)'
      /\ \A j \in DOMAIN syncJobs : JobAccounted(j) => JobAccounted(j)'
  BY DEF Covered, JobInv, JobAccounted
<1>2. ReplayInv(s)'
  BY DEF ReplayInv, Lettered, Covered
<1>3. \A l \in SyncJobIds \X Targets : LetterKept(importers[i], l)
  BY DEF LetterKept
<1>4. /\ Len(syncJobs') <= MaxSyncJobs
      /\ \A j \in DOMAIN syncJobs : JobAccounted(j)
  BY DEF AccountInv
<1>5. DOMAIN syncJobs' = DOMAIN syncJobs
  OBVIOUS
<1> QED BY <1>1, <1>2, <1>3, <1>4, <1>5, AccountChanges

(* Committing its marks, a replay resolves letters that keep the account.  *)
LEMMA MarkedKeeps ==
  ASSUME NEW i \in Importers, ReplayInv(importers[i]),
         letters \in [SyncJobIds \X Targets -> Letter],
         letters' = Marked(i), UNCHANGED <<snapshots, syncJobs>>
  PROVE  /\ \A l \in SyncJobIds \X Targets : LetterKept(importers[i], l)
         /\ \A l : Lettered(l) => Lettered(l)'
         /\ \A s : \A j \in SyncJobIds : JobInv(s, j) => JobInv(s, j)'
<1>1. \A l \in SyncJobIds \X Targets :
        \/ letters'[l] = letters[l]
        \/ Lettered(l) /\ Covered(l[2]) /\ letters'[l] = "resolved"
  BY DEF ReplayInv, Marked
<1>2. ASSUME NEW j \in SyncJobIds, NEW x \in Targets
      PROVE  /\ letters'[<<j, x>>] # "none" <=> letters[<<j, x>>] # "none"
             /\ letters[<<j, x>>] = "open" => letters'[<<j, x>>] = "open" \/ Covered(x)
  <2>1. <<j, x>> \in SyncJobIds \X Targets /\ <<j, x>>[2] = x
    OBVIOUS
  <2> QED BY <1>1, <2>1 DEF Lettered
<1>3. ASSUME NEW j \in SyncJobIds, NEW s, JobInv(s, j) PROVE JobInv(s, j)'
  <2>1. \A x \in Targets : Covered(x)' <=> Covered(x)
    BY DEF Covered
  <2> QED BY <1>2, <1>3, <2>1 DEF JobInv
<1> QED BY <1>1, <1>3 DEF LetterKept, Lettered

LEMMA MarkChanges ==
  ASSUME SyncInv, SyncInv', AccountInv, NEW i \in Importers, NEW s,
         importers' = [importers EXCEPT ![i] = s],
         letters' = Marked(i), UNCHANGED <<snapshots, syncJobs>>,
         \A j \in SyncJobIds : Runs(s, j) => Runs(importers[i], j) /\ JobInv(s, j),
         ReplayInv(s)
  PROVE  AccountInv'
<1>1. letters \in [SyncJobIds \X Targets -> Letter] /\ ReplayInv(importers[i])
  BY DEF SyncInv, SyncTypeOK, AccountInv
<1>2. /\ \A l \in SyncJobIds \X Targets : LetterKept(importers[i], l)
      /\ \A l : Lettered(l) => Lettered(l)'
      /\ \A j \in SyncJobIds : JobInv(s, j) => JobInv(s, j)'
      /\ \A j \in SyncJobIds : JobInv(importers[i], j) =>
           syncJobs[j].status \in {"pending", "running"}
  BY <1>1, MarkedKeeps DEF JobInv
<1>3. \A x \in Targets : Covered(x) => Covered(x)'
  BY DEF Covered
<1>4. ReplayInv(s)'
  BY <1>2 DEF ReplayInv, Covered
<1>5. /\ Len(syncJobs') <= MaxSyncJobs /\ DOMAIN syncJobs' = DOMAIN syncJobs
      /\ DOMAIN syncJobs \subseteq SyncJobIds
  BY SyncBoundAssumption DEF AccountInv, SyncInv, SyncTypeOK, SyncJobIds
<1>6. ASSUME NEW j \in DOMAIN syncJobs, Runs(importers[i], j)
      PROVE  JobAccounted(j)'
  <2>1. syncJobs[j].status \in {"pending", "running"}
    BY <1>2, <1>5, <1>6 DEF AccountInv
  <2> QED BY <2>1 DEF JobAccounted
<1> QED BY <1>2, <1>3, <1>4, <1>5, <1>6, AccountChanges

LEMMA IdleAccounts ==
  /\ ReplayInv(IdleImporter) /\ \A j : ~ Runs(IdleImporter, j)
  /\ IdleImporter.pc = "idle" /\ IdleImporter.marks = {}
BY DEF IdleImporter, ReplayInv, Runs, Pending, Busy

(* What is known of the request that takes a step. *)
LEMMA RequestFacts ==
  ASSUME SyncInv, AccountInv, NEW i \in Importers
  PROVE  /\ importers \in [Importers -> Importer]
         /\ importers[i] \in Importer /\ Holds(importers[i]) /\ ReplayInv(importers[i])
         /\ \A j \in SyncJobIds : Runs(importers[i], j) => JobInv(importers[i], j)
         /\ letters \in [SyncJobIds \X Targets -> Letter]
         /\ DOMAIN syncJobs = 1 .. Len(syncJobs) /\ Len(syncJobs) \in Nat
         /\ DOMAIN syncJobs \subseteq SyncJobIds
<1>1. /\ syncJobs \in Seq(SyncJob) /\ Len(syncJobs) <= MaxSyncJobs /\ MaxSyncJobs \in Nat
  BY SyncBoundAssumption DEF SyncInv, SyncTypeOK, AccountInv
<1> QED BY <1>1 DEF SyncInv, SyncTypeOK, AccountInv, SyncJobIds

LEMMA StartAccounts ==
  ASSUME SyncInv, SyncInv', AccountInv, NEW i \in Importers,
         \/ \E x \in Targets : StartImport(i, x)
         \/ \E full \in BOOLEAN : StartSync(i, full)
         \/ BeginSync(i) \/ StartReplay(i)
  PROVE  AccountInv'
<1>1. PICK r : /\ r = importers[i] /\ r \in Importer /\ Holds(r) /\ ReplayInv(r)
               /\ \A j \in SyncJobIds : Runs(r, j) => JobInv(r, j)
  BY RequestFacts
<1>2. /\ syncJobs \in Seq(SyncJob) /\ Len(syncJobs) <= MaxSyncJobs
      /\ importers \in [Importers -> Importer]
      /\ letters \in [SyncJobIds \X Targets -> Letter]
      /\ DOMAIN syncJobs = 1 .. Len(syncJobs) /\ Len(syncJobs) \in Nat
      /\ DOMAIN syncJobs \subseteq SyncJobIds
      /\ \A j \in DOMAIN syncJobs : JobAccounted(j)
      /\ \A l \in SyncJobIds \X Targets : letters[l] # "none" => l[1] \in DOMAIN syncJobs
  BY RequestFacts DEF SyncInv, SyncTypeOK, AccountInv
<1>3. ASSUME NEW x \in Targets, StartImport(i, x) PROVE AccountInv'
  <2>1. PICK s : s = [IdleImporter EXCEPT !.pc = "fetch", !.item = <<0, x>>]
    OBVIOUS
  <2>2. s.pc = "fetch" /\ s.op = "import" /\ s.marks = {}
    BY <2>1 DEF IdleImporter
  <2>3. importers' = [importers EXCEPT ![i] = s] /\ UNCHANGED <<snapshots, syncJobs, letters>>
    BY <1>3, <2>1 DEF StartImport
  <2>4. ReplayInv(s) /\ \A j \in SyncJobIds : ~ Runs(s, j)
    BY <2>2 DEF ReplayInv, Runs
  <2> QED BY <2>3, <2>4, QuietChanges
<1>4. ASSUME NEW full \in BOOLEAN, StartSync(i, full) PROVE AccountInv'
  <2>1. PICK s : s = [IdleImporter EXCEPT !.pc = "begin", !.op = "sync",
                                          !.job = Len(syncJobs) + 1]
    OBVIOUS
  <2>2. /\ s.pc = "begin" /\ s.op = "sync" /\ s.job = Len(syncJobs) + 1
        /\ s.marks = {} /\ ~ s.failed
    BY <2>1 DEF IdleImporter
  <2>3. /\ importers' = [importers EXCEPT ![i] = s] /\ UNCHANGED <<snapshots, letters>>
        /\ Len(syncJobs) < MaxSyncJobs
        /\ syncJobs' = Append(syncJobs, [status |-> "pending", full |-> full])
    BY <1>4, <2>1 DEF StartSync
  <2>4. /\ Len(syncJobs') = Len(syncJobs) + 1
        /\ \A j \in DOMAIN syncJobs : syncJobs'[j] = syncJobs[j]
        /\ syncJobs'[Len(syncJobs) + 1].status = "pending"
        /\ DOMAIN syncJobs' = 1 .. Len(syncJobs) + 1
    <3>1. [status |-> "pending", full |-> full] \in SyncJob
      BY DEF SyncJob
    <3>2. [status |-> "pending", full |-> full].status = "pending"
      OBVIOUS
    <3> QED BY <1>2, <2>3, <3>1, <3>2
  <2>5. Len(syncJobs') <= MaxSyncJobs
    BY <1>2, <2>3, <2>4, SyncBoundAssumption
  <2>6. ~ Runs(r, Len(syncJobs) + 1) /\ Len(syncJobs) + 1 \notin DOMAIN syncJobs
        /\ Len(syncJobs) + 1 \in SyncJobIds
    BY <1>1, <1>2, <1>4, <2>3, SyncBoundAssumption DEF StartSync, At, Runs, SyncJobIds
  <2>7. ASSUME NEW x \in Targets PROVE letters[<<Len(syncJobs) + 1, x>>] = "none"
    <3>1. /\ <<Len(syncJobs) + 1, x>> \in SyncJobIds \X Targets
          /\ <<Len(syncJobs) + 1, x>>[1] = Len(syncJobs) + 1
      BY <2>6
    <3> QED BY <1>2, <2>6, <3>1
  <2>8. \A j \in SyncJobIds : Runs(s, j) => j \notin DOMAIN syncJobs /\ JobInv(s, j)'
    <3>1. SUFFICES ASSUME NEW j \in SyncJobIds, Runs(s, j)
                   PROVE  j \notin DOMAIN syncJobs /\ JobInv(s, j)'
      OBVIOUS
    <3>2. j = Len(syncJobs) + 1
      BY <2>2, <3>1 DEF Runs
    <3>3. j \in DOMAIN syncJobs' /\ syncJobs'[j].status = "pending"
      BY <1>2, <2>4, <3>2
    <3>4. \A x \in Targets : letters'[<<j, x>>] = "none"
      BY <2>3, <2>7, <3>2
    <3>5. JobInv(s, j)'
      BY <2>2, <3>3, <3>4 DEF JobInv
    <3> QED BY <2>6, <3>2, <3>5
  <2>9. ReplayInv(s)'
    BY <2>2 DEF ReplayInv
  <2>10. \A j \in DOMAIN syncJobs' :
           Runs(r, j) \/ j \notin DOMAIN syncJobs => JobAccounted(j)'
    <3>1. \A j \in DOMAIN syncJobs : ~ Runs(r, j)
      BY <1>1, <1>4 DEF StartSync, At, Runs
    <3>2. \A j \in DOMAIN syncJobs' : j \in DOMAIN syncJobs \/ j = Len(syncJobs) + 1
      BY <1>2, <2>4
    <3> QED BY <2>4, <3>1, <3>2 DEF JobAccounted
  <2>11. /\ \A l \in SyncJobIds \X Targets : LetterKept(r, l)
         /\ \A x \in Targets : Covered(x) => Covered(x)'
    BY <2>3 DEF LetterKept, Covered
  <2>12. \A j \in DOMAIN syncJobs :
           j \in DOMAIN syncJobs' /\ syncJobs'[j].status = syncJobs[j].status
    BY <1>2, <2>4
  <2> QED BY <1>1, <2>3, <2>5, <2>8, <2>9, <2>10, <2>11, <2>12, AccountChanges
<1>5. CASE BeginSync(i)
  <2>1. PICK s : s = [r EXCEPT !.pc = "next", !.todo = {r.job} \X Targets]
    OBVIOUS
  <2>2. /\ r.pc = "begin" /\ r.op = "sync" /\ r.job \in SyncJobIds
        /\ s.pc = "next" /\ s.op = "sync" /\ s.job = r.job /\ s.marks = r.marks
        /\ s.todo = {r.job} \X Targets /\ s.failed = r.failed
    BY <1>1, <1>5, <2>1 DEF BeginSync, At, Importer, ReplayInv, Holds
  <2>3. /\ importers' = [importers EXCEPT ![i] = s] /\ UNCHANGED <<snapshots, letters>>
        /\ syncJobs' = [syncJobs EXCEPT ![r.job].status = "running"]
    BY <1>1, <1>2, <1>5, <2>1 DEF BeginSync
  <2>4. Runs(r, r.job) /\ JobInv(r, r.job) /\ r.job \in 1 .. Len(syncJobs)
    <3>1. Runs(r, r.job)
      BY <2>2 DEF Runs
    <3>2. JobInv(r, r.job)
      BY <1>1, <2>2, <3>1
    <3> QED BY <1>2, <3>1, <3>2 DEF JobInv
  <2>5. /\ DOMAIN syncJobs' = DOMAIN syncJobs /\ Len(syncJobs') = Len(syncJobs)
        /\ syncJobs'[r.job].status = "running"
        /\ \A j \in DOMAIN syncJobs : j # r.job => syncJobs'[j] = syncJobs[j]
    <3>1. syncJobs[r.job] \in SyncJob
      BY <1>2, <2>4
    <3> QED BY <1>2, <2>3, <2>4, <3>1 DEF SyncJob
  <2>6. ASSUME NEW j \in SyncJobIds, Runs(s, j) PROVE Runs(r, j) /\ JobInv(s, j)'
    <3>1. j = r.job /\ Runs(r, j)
      BY <2>2, <2>4, <2>6 DEF Runs
    <3>2. Pending(s) = {j} \X Targets
      BY <2>2, <3>1 DEF Pending, Busy
    <3> QED BY <2>2, <2>3, <2>4, <2>5, <3>1, <3>2 DEF JobInv
  <2>7. ReplayInv(s)'
    BY <1>1, <2>2, <2>3 DEF ReplayInv, Lettered, Covered
  <2>8. \A j \in DOMAIN syncJobs' :
          Runs(r, j) \/ j \notin DOMAIN syncJobs => JobAccounted(j)'
    BY <2>5 DEF JobAccounted, Runs
  <2>9. /\ \A l \in SyncJobIds \X Targets : LetterKept(r, l)
        /\ \A x \in Targets : Covered(x) => Covered(x)'
    BY <2>3 DEF LetterKept, Covered
  <2>10. \A j \in DOMAIN syncJobs : j \in DOMAIN syncJobs' /\
           (~ Runs(r, j) => syncJobs'[j].status = syncJobs[j].status)
    BY <2>4, <2>5
  <2>11. Len(syncJobs') <= MaxSyncJobs
    BY <1>2, <2>5
  <2> QED BY <1>1, <2>3, <2>6, <2>7, <2>8, <2>9, <2>10, <2>11, AccountChanges
<1>6. CASE StartReplay(i)
  <2>1. PICK s : s = [IdleImporter EXCEPT !.pc = "next", !.op = "replay",
                        !.todo = {l \in DOMAIN letters : letters[l] = "open"}]
    OBVIOUS
  <2>2. /\ s.pc = "next" /\ s.op = "replay" /\ s.marks = {}
        /\ s.todo = {l \in DOMAIN letters : letters[l] = "open"}
    BY <2>1 DEF IdleImporter
  <2>3. importers' = [importers EXCEPT ![i] = s] /\ UNCHANGED <<snapshots, syncJobs, letters>>
    BY <1>6, <2>1 DEF StartReplay
  <2>4. ReplayInv(s) /\ \A j \in SyncJobIds : ~ Runs(s, j)
    BY <1>2, <2>2 DEF ReplayInv, Runs, Pending, Busy, Lettered
  <2> QED BY <2>3, <2>4, QuietChanges
<1> QED BY <1>3, <1>4, <1>5, <1>6

LEMMA CurrentCovers ==
  ASSUME NEW x \in Targets, CurrentSnapshot(x) # {}, snapshots[x] \in Seq(Snapshot)
  PROVE  Covered(x)
BY DEF CurrentSnapshot, Covered

(* An item that was imported has data, whoever stored it.                  *)
LEMMA ImportedAccounts ==
  ASSUME SyncInv, SyncInv', AccountInv, NEW i \in Importers,
         importers[i].pc = "write",
         importers' = [importers EXCEPT ![i] = Imported(i)],
         UNCHANGED <<syncJobs, letters>>,
         \A x \in Targets : Covered(x) \/ x = importers[i].item[2] => Covered(x)'
  PROVE  AccountInv'
<1>1. PICK r : /\ r = importers[i] /\ r \in Importer /\ Holds(r) /\ ReplayInv(r)
               /\ \A j \in SyncJobIds : Runs(r, j) => JobInv(r, j)
  BY RequestFacts
<1>2. PICK marks : marks = IF r.op = "replay" THEN {r.item} ELSE {}
  OBVIOUS
<1>3. PICK s : s = [Continued(r) EXCEPT !.marks = marks]
  OBVIOUS
<1>4. importers' = [importers EXCEPT ![i] = s]
  BY <1>1, <1>2, <1>3 DEF Imported
<1>5. /\ s.marks = marks /\ r.pc = "write" /\ r.op \in {"import", "sync", "replay"}
      /\ r.op = "import" => s.pc = "idle"
      /\ r.op # "import" =>
           /\ s.pc = "next" /\ s.op = r.op /\ s.job = r.job
           /\ s.todo = r.todo /\ s.failed = r.failed
  <2>1. r.pc = "write" /\ r.op \in {"import", "sync", "replay"}
    BY <1>1 DEF Importer
  <2>2. CASE r.op = "import"
    BY <1>3, <2>1, <2>2 DEF Continued, IdleImporter
  <2>3. CASE r.op # "import"
    BY <1>1, <1>3, <2>1, <2>3 DEF Continued, Importer
  <2> QED BY <2>2, <2>3
<1>6. /\ r.item \in Pending(r) /\ r.item \in Items
      /\ r.op # "import" => Pending(r) = Pending(s) \cup {r.item}
  BY <1>1, <1>5 DEF Pending, Busy, Holds
<1>7. ASSUME NEW j \in SyncJobIds, Runs(s, j) PROVE Runs(r, j) /\ JobInv(s, j)'
  <2>1. r.op = "sync" /\ s.pc = "next" /\ Runs(r, j)
    BY <1>5, <1>7 DEF Runs
  <2>2. JobInv(r, j)
    BY <1>1, <2>1
  <2>3. \A x \in Targets : <<j, x>> \notin Pending(s) =>
          letters[<<j, x>>] = "open" \/ Covered(x)'
    <3>1. \A x \in Targets : <<j, x>> = r.item => Covered(x)'
      <4>1. \A x \in Targets : <<j, x>> = r.item => x = r.item[2]
        OBVIOUS
      <4> QED BY <1>1, <4>1
    <3> QED BY <1>5, <1>6, <2>1, <2>2, <3>1 DEF JobInv
  <2>4. Pending(s) \subseteq {j} \X Targets
    BY <1>5, <1>6, <2>1, <2>2 DEF JobInv
  <2> QED BY <1>5, <2>1, <2>2, <2>3, <2>4 DEF JobInv
<1>8. ReplayInv(s)'
  <2>1. \A l : Lettered(l) => Lettered(l)'
    BY DEF Lettered
  <2>2. r.op = "replay" => Lettered(r.item) /\ Covered(r.item[2])'
    <3>1. r.op = "replay" => r.item[2] \in Targets
      BY <1>6 DEF Items
    <3> QED BY <1>1, <1>6, <3>1 DEF ReplayInv
  <2>3. s.op = "replay" => \A l \in Pending(s) : Lettered(l)
    <3>1. CASE r.op = "import"
      BY <1>3, <3>1 DEF Continued, IdleImporter
    <3> QED BY <1>1, <1>5, <1>6, <3>1 DEF ReplayInv
  <2> QED BY <1>2, <1>5, <2>1, <2>2, <2>3 DEF ReplayInv
<1>9. /\ Len(syncJobs') <= MaxSyncJobs /\ DOMAIN syncJobs' = DOMAIN syncJobs
      /\ DOMAIN syncJobs \subseteq SyncJobIds
  BY SyncBoundAssumption DEF AccountInv, SyncInv, SyncTypeOK, SyncJobIds
<1>10. ASSUME NEW j \in DOMAIN syncJobs, Runs(r, j) PROVE JobAccounted(j)'
  <2>1. JobInv(r, j)
    BY <1>1, <1>9, <1>10
  <2> QED BY <2>1 DEF JobInv, JobAccounted
<1>11. \A l \in SyncJobIds \X Targets : LetterKept(r, l)
  BY DEF LetterKept
<1> QED BY <1>1, <1>4, <1>7, <1>8, <1>9, <1>10, <1>11, AccountChanges

(* The steps of one item that store no snapshot. *)
LEMMA ItemAccounts ==
  ASSUME SyncInv, SyncInv', AccountInv, NEW i \in Importers,
         \/ \E item \in Items : SkipTarget(i, item) \/ PickTarget(i, item)
         \/ \E content \in Contents : Fetch(i, content)
         \/ ReadCurrent(i) \/ ImportRaises(i) \/ Exhaust(i) \/ FetchFails(i)
  PROVE  AccountInv'
<1>1. PICK r : /\ r = importers[i] /\ r \in Importer /\ Holds(r) /\ ReplayInv(r)
               /\ \A j \in SyncJobIds : Runs(r, j) => JobInv(r, j)
  BY RequestFacts
<1>2. /\ importers \in [Importers -> Importer]
      /\ letters \in [SyncJobIds \X Targets -> Letter]
      /\ \A x \in Targets : snapshots[x] \in Seq(Snapshot)
      /\ DOMAIN syncJobs = 1 .. Len(syncJobs) /\ Len(syncJobs) \in Nat
      /\ DOMAIN syncJobs \subseteq SyncJobIds
      /\ Len(syncJobs) <= MaxSyncJobs
  BY RequestFacts DEF SyncInv, SyncTypeOK, AccountInv
(* What is still to do, the marks and the job stay as they are. *)
<1>3. ASSUME NEW s, Pending(s) = Pending(r), s.op = r.op, s.job = r.job,
             s.failed = r.failed, s.marks \subseteq r.marks,
             r.pc \notin {"idle", "begin"}, s.pc \notin {"idle", "begin"}
      PROVE  /\ ReplayInv(s)
             /\ \A j \in SyncJobIds : Runs(s, j) => Runs(r, j) /\ JobInv(s, j)
  <2>1. ReplayInv(s)
    BY <1>1, <1>3 DEF ReplayInv
  <2>2. \A j \in SyncJobIds : Runs(s, j) => Runs(r, j)
    BY <1>3 DEF Runs
  <2>3. \A j \in SyncJobIds : Runs(s, j) => JobInv(s, j)
    BY <1>1, <1>3, <2>2 DEF JobInv
  <2> QED BY <2>1, <2>2, <2>3
<1>4. ASSUME NEW item \in Items, SkipTarget(i, item) PROVE AccountInv'
  <2>1. PICK s : s = [r EXCEPT !.todo = @ \ {item}]
    OBVIOUS
  <2>2. /\ s.pc = "next" /\ r.pc = "next" /\ s.op = "sync" /\ r.op = "sync"
        /\ s.job = r.job /\ s.failed = r.failed /\ s.marks = r.marks
        /\ s.todo = r.todo \ {item}
        /\ item[2] \in Unmapped \/ CurrentSnapshot(item[2]) # {}
    BY <1>1, <1>4, <2>1 DEF SkipTarget, At, Importer
  <2>3. importers' = [importers EXCEPT ![i] = s] /\ UNCHANGED <<snapshots, syncJobs, letters>>
    BY <1>1, <1>2, <1>4, <2>1 DEF SkipTarget
  <2>4. ReplayInv(s)
    BY <1>1, <2>2 DEF ReplayInv
  <2>5. ASSUME NEW j \in SyncJobIds, Runs(s, j) PROVE Runs(r, j) /\ JobInv(s, j)
    <3>1. Runs(r, j) /\ JobInv(r, j)
      BY <1>1, <2>2, <2>5 DEF Runs
    <3>2. Pending(s) = Pending(r) \ {item}
      BY <2>2 DEF Pending, Busy
    <3>3. \A x \in Targets : <<j, x>> = item => Covered(x)
      BY <1>2, <2>2, CurrentCovers DEF Covered
    <3> QED BY <2>2, <3>1, <3>2, <3>3 DEF JobInv
  <2> QED BY <1>1, <2>3, <2>4, <2>5, QuietChanges
<1>5. ASSUME NEW item \in Items, PickTarget(i, item) PROVE AccountInv'
  <2>1. PICK s : s = [r EXCEPT !.pc = "fetch", !.item = item, !.todo = @ \ {item}]
    OBVIOUS
  <2>2. /\ s.pc = "fetch" /\ r.pc = "next" /\ s.op = r.op /\ s.job = r.job
        /\ s.failed = r.failed /\ s.marks = r.marks /\ s.item = item
        /\ s.todo = r.todo \ {item} /\ item \in r.todo
    BY <1>1, <1>5, <2>1 DEF PickTarget, At, Importer
  <2>3. importers' = [importers EXCEPT ![i] = s] /\ UNCHANGED <<snapshots, syncJobs, letters>>
    BY <1>1, <1>2, <1>5, <2>1 DEF PickTarget
  <2>4. Pending(s) = Pending(r)
    BY <2>2 DEF Pending, Busy
  <2> QED BY <1>1, <1>3, <2>2, <2>3, <2>4, QuietChanges
<1>6. ASSUME NEW content \in Contents, Fetch(i, content) PROVE AccountInv'
  <2>1. PICK s : s = [r EXCEPT !.pc = "save", !.fetched = content, !.marks = {}]
    OBVIOUS
  <2>2. /\ s.pc = "save" /\ r.pc = "fetch" /\ s.op = r.op /\ s.job = r.job
        /\ s.failed = r.failed /\ s.marks = {} /\ s.item = r.item /\ s.todo = r.todo
    BY <1>1, <1>6, <2>1 DEF Fetch, At, Importer
  <2>3. /\ importers' = [importers EXCEPT ![i] = s]
        /\ letters' = Marked(i) /\ UNCHANGED <<snapshots, syncJobs>>
    BY <1>1, <1>2, <1>6, <2>1 DEF Fetch
  <2>4. Pending(s) = Pending(r)
    BY <2>2 DEF Pending, Busy
  <2> QED BY <1>1, <1>3, <2>2, <2>3, <2>4, MarkChanges
<1>7. CASE ReadCurrent(i)
  <2>1. PICK n : importers' = [importers EXCEPT ![i] = [r EXCEPT !.pc = "write", !.seen = n]]
    BY <1>1, <1>2, <1>7 DEF ReadCurrent
  <2>2. PICK s : s = [r EXCEPT !.pc = "write", !.seen = n]
    OBVIOUS
  <2>3. /\ s.pc = "write" /\ r.pc = "save" /\ s.op = r.op /\ s.job = r.job
        /\ s.failed = r.failed /\ s.marks = r.marks /\ s.item = r.item /\ s.todo = r.todo
    BY <1>1, <1>7, <2>2 DEF ReadCurrent, At, Importer
  <2>4. importers' = [importers EXCEPT ![i] = s] /\ UNCHANGED <<snapshots, syncJobs, letters>>
    BY <1>7, <2>1, <2>2 DEF ReadCurrent
  <2>5. Pending(s) = Pending(r)
    BY <2>3 DEF Pending, Busy
  <2> QED BY <1>1, <1>3, <2>3, <2>4, <2>5, QuietChanges
(* A request that is not a job gives its item up. *)
<1>8. ASSUME NEW s, s = [Continued(r) EXCEPT !.marks = {}], r.op # "sync"
      PROVE  ReplayInv(s) /\ \A j \in SyncJobIds : ~ Runs(s, j)
  <2>1. CASE r.op = "import"
    <3>1. s.pc = "idle" /\ s.op = "import" /\ s.marks = {}
      BY <1>8, <2>1 DEF Continued, IdleImporter
    <3> QED BY <3>1 DEF ReplayInv, Runs
  <2>2. CASE r.op # "import"
    <3>1. s.marks = {} /\ s.pc = "next" /\ s.op = r.op /\ s.todo = r.todo
      BY <1>1, <1>8, <2>2 DEF Continued, Importer
    <3>2. r.op = "replay" /\ Pending(s) \subseteq Pending(r)
      BY <1>1, <1>8, <2>2, <3>1 DEF Importer, Pending, Busy
    <3> QED BY <1>1, <3>1, <3>2 DEF ReplayInv, Runs
  <2> QED BY <2>1, <2>2
<1>9. CASE ImportRaises(i)
  <2>1. CASE r.op = "sync"
    <3>1. PICK s : s = [r EXCEPT !.pc = "fetch", !.fetched = NoTarget, !.seen = 0]
      OBVIOUS
    <3>2. /\ s.pc = "fetch" /\ r.pc \in {"fetch", "save", "write"}
          /\ s.op = r.op /\ s.job = r.job
          /\ s.failed = r.failed /\ s.marks = r.marks /\ s.item = r.item /\ s.todo = r.todo
      BY <1>1, <1>9, <3>1 DEF ImportRaises, Importer
    <3>3. importers' = [importers EXCEPT ![i] = s] /\ UNCHANGED <<snapshots, syncJobs, letters>>
      BY <1>1, <1>2, <1>9, <2>1, <3>1 DEF ImportRaises
    <3>4. Pending(s) = Pending(r)
      BY <3>2 DEF Pending, Busy
    <3> QED BY <1>1, <1>3, <3>2, <3>3, <3>4, QuietChanges
  <2>2. CASE r.op # "sync"
    <3>1. PICK s : s = [Continued(r) EXCEPT !.marks = {}]
      OBVIOUS
    <3>2. importers' = [importers EXCEPT ![i] = s] /\ UNCHANGED <<snapshots, syncJobs, letters>>
      BY <1>1, <1>2, <1>9, <2>2, <3>1 DEF ImportRaises
    <3> QED BY <1>8, <2>2, <3>1, <3>2, QuietChanges
  <2> QED BY <2>1, <2>2
<1>10. CASE FetchFails(i)
  <2>1. PICK s : s = [Continued(r) EXCEPT !.marks = {}]
    OBVIOUS
  <2>2. /\ importers' = [importers EXCEPT ![i] = s]
        /\ letters' = Marked(i) /\ UNCHANGED <<snapshots, syncJobs>> /\ r.op # "sync"
    BY <1>1, <1>2, <1>10, <2>1 DEF FetchFails
  <2> QED BY <1>8, <2>1, <2>2, MarkChanges
<1>11. CASE Exhaust(i)
  <2>1. PICK s : s = [Continued(r) EXCEPT !.failed = TRUE]
    OBVIOUS
  <2>2. /\ r.pc = "fetch" /\ r.op = "sync"
        /\ s.pc = "next" /\ s.op = "sync" /\ s.job = r.job
        /\ s.todo = r.todo /\ s.failed /\ s.marks = r.marks
    BY <1>1, <1>11, <2>1 DEF Exhaust, At, Continued, Importer
  <2>3. /\ importers' = [importers EXCEPT ![i] = s] /\ UNCHANGED <<snapshots, syncJobs>>
        /\ letters' = [letters EXCEPT ![r.item] = "open"]
    BY <1>1, <1>2, <1>11, <2>1 DEF Exhaust
  <2>4. /\ r.job \in SyncJobIds /\ Runs(r, r.job) /\ JobInv(r, r.job)
        /\ r.item \in {r.job} \X Targets
    <3>1. r.job \in SyncJobIds /\ Runs(r, r.job)
      BY <1>1, <2>2 DEF Holds, Runs
    <3>2. JobInv(r, r.job) /\ r.item \in Pending(r)
      BY <1>1, <2>2, <3>1 DEF Pending, Busy
    <3> QED BY <2>2, <3>1, <3>2 DEF JobInv
  <2>5. /\ letters'[r.item] = "open" /\ r.item \in SyncJobIds \X Targets /\ r.item[1] = r.job
        /\ \A l \in SyncJobIds \X Targets : l # r.item => letters'[l] = letters[l]
    BY <1>2, <2>3, <2>4
  <2>6. /\ \A l \in SyncJobIds \X Targets : LetterKept(r, l)
        /\ \A l : Lettered(l) => Lettered(l)'
        /\ \A x \in Targets : Covered(x) => Covered(x)'
    BY <2>3, <2>4, <2>5 DEF LetterKept, Lettered, Covered
  <2>7. ReplayInv(s)'
    BY <1>1, <2>2, <2>3, <2>6 DEF ReplayInv, Covered
  <2>8. ASSUME NEW j \in SyncJobIds, Runs(s, j) PROVE Runs(r, j) /\ JobInv(s, j)'
    <3>1. j = r.job
      BY <2>2, <2>8 DEF Runs
    <3>2. Pending(r) = Pending(s) \cup {r.item} /\ Pending(s) = r.todo
      BY <2>2 DEF Pending, Busy
    <3>3. \E x \in Targets : letters'[<<j, x>>] # "none"
      <4>1. PICK x \in Targets : r.item = <<j, x>>
        BY <2>4, <3>1
      <4> QED BY <2>5, <4>1
    <3>4. \A x \in Targets : <<j, x>> \notin Pending(s) =>
            letters'[<<j, x>>] = "open" \/ Covered(x)'
      <4>1. SUFFICES ASSUME NEW x \in Targets, <<j, x>> \notin Pending(s)
                     PROVE  letters'[<<j, x>>] = "open" \/ Covered(x)'
        OBVIOUS
      <4>2. CASE <<j, x>> = r.item
        BY <2>5, <4>2
      <4>3. CASE <<j, x>> # r.item
        <5>1. letters[<<j, x>>] = "open" \/ Covered(x)
          BY <2>2, <2>4, <3>1, <3>2, <4>1, <4>3 DEF JobInv
        <5> QED BY <2>3, <2>5, <4>3, <5>1 DEF Covered
      <4> QED BY <4>2, <4>3
    <3>5. Pending(s) \subseteq {j} \X Targets
      BY <2>2, <2>4, <3>1, <3>2 DEF JobInv
    <3> QED BY <2>2, <2>3, <2>4, <3>1, <3>3, <3>4, <3>5 DEF JobInv
  <2>9. ASSUME NEW j \in DOMAIN syncJobs, Runs(r, j) PROVE JobAccounted(j)'
    <3>1. JobInv(r, j)
      BY <1>1, <1>2, <2>9
    <3> QED BY <2>3, <3>1 DEF JobInv, JobAccounted
  <2> QED BY <1>1, <1>2, <2>3, <2>6, <2>7, <2>8, <2>9, AccountChanges
<1> QED BY <1>4, <1>5, <1>6, <1>7, <1>9, <1>10, <1>11

LEMMA WriteAccounts ==
  ASSUME SyncInv, SyncInv', AccountInv, NEW i \in Importers,
         RefreshSnapshot(i) \/ SaveSnapshot(i)
  PROVE  AccountInv'
<1>1. /\ importers[i].pc = "write" /\ UNCHANGED <<syncJobs, letters>>
      /\ importers' = [importers EXCEPT ![i] = Imported(i)]
  BY DEF RefreshSnapshot, SaveSnapshot, At
<1>2. /\ importers[i].item \in Items /\ importers[i].item[2] \in Targets
      /\ importers[i].seen \in 0 .. Len(snapshots[importers[i].item[2]])
      /\ \A x \in Targets : snapshots[x] \in Seq(Snapshot)
  BY <1>1, RequestFacts DEF Holds, Items, SyncInv, SyncTypeOK
<1>3. \A x \in Targets : Covered(x) \/ x = importers[i].item[2] => Covered(x)'
  <2>1. CASE RefreshSnapshot(i)
    <3>1. UNCHANGED snapshots /\ importers[i].seen # 0
      BY <2>1 DEF RefreshSnapshot
    <3>2. Covered(importers[i].item[2])
      BY <1>2, <3>1 DEF Covered
    <3> QED BY <3>1, <3>2 DEF Covered
  <2>2. CASE SaveSnapshot(i)
    <3>1. PICK rows, row :
            snapshots' = [snapshots EXCEPT ![importers[i].item[2]] = Append(rows, row)]
      BY <2>2 DEF SaveSnapshot, Target
    <3>2. Append(rows, row) # <<>>
      <4>1. DOMAIN Append(rows, row) # {} => Append(rows, row) # <<>>
        OBVIOUS
      <4> QED BY <4>1
    <3> QED BY <1>2, <3>1, <3>2 DEF Covered, SyncInv, SyncTypeOK
  <2> QED BY <2>1, <2>2
<1> QED BY <1>1, <1>3, ImportedAccounts

LEMMA EndAccounts ==
  ASSUME SyncInv, SyncInv', AccountInv, NEW i \in Importers,
         FinishSync(i) \/ FinishReplay(i) \/ CrashImporter(i)
  PROVE  AccountInv'
<1>1. PICK s : s = IdleImporter /\ importers' = [importers EXCEPT ![i] = s]
  BY DEF FinishSync, FinishReplay, CrashImporter
<1>2. ReplayInv(s) /\ \A j \in SyncJobIds : ~ Runs(s, j)
  BY <1>1, IdleAccounts
<1>3. CASE CrashImporter(i)
  BY <1>1, <1>2, <1>3, QuietChanges DEF CrashImporter
<1>4. CASE FinishReplay(i)
  BY <1>1, <1>2, <1>4, MarkChanges DEF FinishReplay
<1>5. CASE FinishSync(i)
  <2>1. PICK r : /\ r = importers[i] /\ r \in Importer /\ Holds(r)
                 /\ \A j \in SyncJobIds : Runs(r, j) => JobInv(r, j)
    BY RequestFacts
  <2>2. PICK job \in SyncJobIds : r.job = job /\ Runs(r, job) /\ JobInv(r, job)
    BY <1>5, <2>1 DEF FinishSync, At, Holds, Runs
  <2>3. /\ syncJobs \in Seq(SyncJob) /\ Len(syncJobs) <= MaxSyncJobs
        /\ job \in 1 .. Len(syncJobs)
    BY <2>2 DEF SyncInv, SyncTypeOK, AccountInv, JobInv
  <2>4. PICK status :
          /\ status = IF r.failed THEN "partial" ELSE "completed"
          /\ syncJobs' = [syncJobs EXCEPT ![job].status = status]
          /\ UNCHANGED <<snapshots, letters>> /\ r.pc = "next" /\ r.todo = {}
    BY <1>5, <2>1, <2>2 DEF FinishSync, At
  <2>5. /\ DOMAIN syncJobs' = DOMAIN syncJobs /\ Len(syncJobs') = Len(syncJobs)
        /\ syncJobs'[job].status = status
        /\ \A j \in DOMAIN syncJobs : j # job => syncJobs'[j] = syncJobs[j]
    <3>1. syncJobs[job] \in SyncJob
      BY <2>3
    <3> QED BY <2>3, <2>4, <3>1 DEF SyncJob
  <2>6. JobAccounted(job)'
    <3>1. \A x \in Targets : letters[<<job, x>>] = "open" \/ Covered(x)
      BY <2>2, <2>4 DEF JobInv, Pending, Busy
    <3>2. r.failed <=> \E x \in Targets : letters[<<job, x>>] # "none"
      BY <2>2 DEF JobInv
    <3>3. r.failed \in BOOLEAN
      BY <2>1 DEF Importer
    <3>4. \A x \in Targets : letters'[<<job, x>>] # "open" => Covered(x)'
      BY <2>4, <3>1 DEF Covered
    <3>5. syncJobs'[job].status = "completed" <=>
            \A x \in Targets : letters'[<<job, x>>] = "none"
      <4>1. CASE r.failed
        <5>1. status = "partial" /\ letters' = letters /\ syncJobs'[job].status = status
          BY <2>4, <2>5, <4>1
        <5>2. \E x \in Targets : letters[<<job, x>>] # "none"
          BY <3>2, <4>1
        <5> QED BY <5>1, <5>2
      <4>2. CASE ~ r.failed
        BY <2>4, <2>5, <3>2, <4>2
      <4> QED BY <3>3, <4>1, <4>2
    <3> QED BY <3>4, <3>5 DEF JobAccounted
  <2>7. \A j \in DOMAIN syncJobs' :
          Runs(r, j) \/ j \notin DOMAIN syncJobs => JobAccounted(j)'
    BY <2>2, <2>5, <2>6 DEF Runs
  <2>8. /\ \A l \in SyncJobIds \X Targets : LetterKept(r, l)
        /\ \A x \in Targets : Covered(x) => Covered(x)'
    BY <2>4 DEF LetterKept, Covered
  <2>9. \A j \in DOMAIN syncJobs : j \in DOMAIN syncJobs' /\
          (~ Runs(r, j) => syncJobs'[j].status = syncJobs[j].status)
    BY <2>2, <2>5
  <2>10. ReplayInv(s)'
    BY <1>1 DEF ReplayInv, IdleImporter
  <2> QED BY <1>1, <1>2, <2>1, <2>3, <2>5, <2>7, <2>8, <2>9, <2>10, AccountChanges
<1> QED BY <1>3, <1>4, <1>5

LEMMA AccountInvNext ==
  SyncInv /\ SyncInv' /\ AccountInv /\ [SyncNext]_syncVars => AccountInv'
<1> SUFFICES ASSUME SyncInv, SyncInv', AccountInv, [SyncNext]_syncVars PROVE AccountInv'
  OBVIOUS
<1>1. CASE UNCHANGED syncVars
  <2>1. UNCHANGED <<snapshots, syncJobs, letters, importers>>
    BY <1>1 DEF syncVars
  <2>2. \A i, j : Runs(importers[i], j)' <=> Runs(importers[i], j)
    BY <2>1 DEF Runs
  <2>3. \A i, j : JobInv(importers[i], j)' <=> JobInv(importers[i], j)
    BY <2>1 DEF JobInv, Pending, Busy, Covered
  <2>4. \A i : ReplayInv(importers[i])' <=> ReplayInv(importers[i])
    BY <2>1 DEF ReplayInv, Pending, Busy, Lettered, Covered
  <2>5. \A j : JobAccounted(j)' <=> JobAccounted(j)
    BY <2>1 DEF JobAccounted, Covered
  <2> QED BY <2>1, <2>2, <2>3, <2>4, <2>5 DEF AccountInv
<1>2. ASSUME NEW i \in Importers, ImporterStep(i) PROVE AccountInv'
  BY <1>2, StartAccounts, ItemAccounts, WriteAccounts, EndAccounts DEF ImporterStep
<1> QED BY <1>1, <1>2 DEF SyncNext

(* A finished job is completed exactly when it left no dead letter, and    *)
(* each target it had an operation for and that has no open letter has     *)
(* data, although any number of imports, jobs and replays overlap and      *)
(* crash.                                                                  *)
THEOREM FinishedAccounted == SyncSpec => []FinishedIsAccounted
<1>1. ASSUME SyncInv, AccountInv PROVE FinishedIsAccounted
  <2>1. \A x \in Targets \ Unmapped : Covered(x) => CurrentSnapshot(x) # {}
    BY <1>1 DEF SyncInv, NewestIsServed, Covered
  <2>2. \A j \in DOMAIN syncJobs : JobAccounted(j)
    BY <1>1 DEF AccountInv
  <2> QED BY <2>1, <2>2 DEF FinishedIsAccounted, JobAccounted
<1> QED BY <1>1, AccountInvInit, AccountInvNext, SyncInvariant, PTL DEF SyncSpec
=============================================================================
