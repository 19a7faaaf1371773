----------------------------- MODULE Documents ------------------------------
(***************************************************************************)
(* The documents of one company and fiscal year, their files and the row   *)
(* of company_financials they are approved into:                           *)
(* services/documents/document_service.py and storage.py behind the API    *)
(* threads of routes/documents.py.                                         *)
(*                                                                         *)
(* The file store is no part of the transaction: a file is written before  *)
(* its row is committed, and removed between the two commits of a delete.  *)
(* A request checks the document it has loaded and writes it in a later    *)
(* commit; only approve locks the financials of the period, if there are   *)
(* any, and the pair (company, year) is unique.                            *)
(***************************************************************************)
EXTENDS Naturals, FiniteSets

CONSTANTS
  Docs,          \* documents uploaded for the company and the year
  DocRequests,   \* concurrent API requests
  NoDoc,         \* None
  MaxVersions    \* bound: extractions of a document

ASSUME NoDocAssumption    == NoDoc \notin Docs
ASSUME VersionsAssumption == MaxVersions \in Nat

VARIABLES
  docStatus,  \* documents.status, or "absent"
  files,      \* documents whose bytes are in the store
  current,    \* extractions of a document whose is_current is set
  versions,   \* number of extractions of a document
  period,     \* the row of company_financials: its source document
  dr,         \* each request: what it has read
  (* History: *)
  entangled   \* documents two of whose requests were open together, not both approvals

docVars == <<docStatus, files, current, versions, period, dr, entangled>>

-----------------------------------------------------------------------------
DocStatuses == {"uploaded", "processing", "needs_review", "reviewed", "approved",
                "rejected", "failed", "deletion_pending"}
Reviewable  == {"needs_review", "reviewed", "rejected"}
Rejectable  == {"needs_review", "reviewed"}

DocRequest ==
  [pc : {"idle", "saved", "loaded", "working", "superseding", "locked", "unlocked",
         "pending", "unfiled"},
   op : {"none", "upload", "extract", "review", "approve", "reject", "delete"},
   doc : Docs \cup {NoDoc}, seen : DocStatuses \cup {"absent"},
   stale : SUBSET (1 .. MaxVersions)]

NoRequest == [pc |-> "idle", op |-> "none", doc |-> NoDoc, seen |-> "absent",
              stale |-> {}]

Stored(d) == docStatus[d] # "absent"

DocumentsTypeOK ==
  /\ docStatus \in [Docs -> DocStatuses \cup {"absent"}]
  /\ files \subseteq Docs
  /\ versions \in [Docs -> 0 .. MaxVersions]
  /\ current \in [Docs -> SUBSET (1 .. MaxVersions)]
  /\ \A d \in Docs : current[d] \subseteq 1 .. versions[d]
  /\ period \in Docs \cup {NoDoc}
  /\ dr \in [DocRequests -> DocRequest]
  /\ \A r \in DocRequests : dr[r].pc # "idle" => dr[r].doc # NoDoc
  /\ entangled \subseteq Docs

DocumentsInit ==
  /\ docStatus = [d \in Docs |-> "absent"]
  /\ files = {}
  /\ current = [d \in Docs |-> {}]
  /\ versions = [d \in Docs |-> 0]
  /\ period = NoDoc
  /\ dr = [r \in DocRequests |-> NoRequest]
  /\ entangled = {}

-----------------------------------------------------------------------------
At(r, pc, op) == dr[r].pc = pc /\ dr[r].op = op

Goto(r, pc) == dr' = [dr EXCEPT ![r].pc = pc]
Answer(r)   == dr' = [dr EXCEPT ![r] = NoRequest]

(* A flush writes the status unless it equals the one that was loaded, and *)
(* fails when the row is gone.                                             *)
WriteStatus(r, new) ==
  LET d == dr[r].doc IN
  /\ Stored(d)
  /\ docStatus' = IF new = dr[r].seen THEN docStatus
                  ELSE [docStatus EXCEPT ![d] = new]

Entangle(r, d, op) ==
  entangled' = IF \E q \in DocRequests \ {r} :
                    dr[q].doc = d /\ {op, dr[q].op} # {"approve"}
               THEN entangled \cup {d} ELSE entangled

(* upload: the file first, under a name of its own, then the row. *)
SaveFile(r, d) ==
  /\ dr[r].pc = "idle"
  /\ ~Stored(d) /\ d \notin files /\ versions[d] = 0
  /\ \A q \in DocRequests : dr[q].doc # d
  /\ files' = files \cup {d}
  /\ dr' = [dr EXCEPT ![r] = [NoRequest EXCEPT !.pc = "saved", !.op = "upload", !.doc = d]]
  /\ UNCHANGED <<docStatus, current, versions, period, entangled>>

InsertDocument(r) ==
  /\ At(r, "saved", "upload")
  /\ docStatus' = [docStatus EXCEPT ![dr[r].doc] = "uploaded"]
  /\ Answer(r)
  /\ UNCHANGED <<files, current, versions, period, entangled>>

(* The commit raises: the file is removed again. *)
UploadFails(r) ==
  /\ At(r, "saved", "upload")
  /\ files' = files \ {dr[r].doc}
  /\ Answer(r)
  /\ UNCHANGED <<docStatus, current, versions, period, entangled>>

-----------------------------------------------------------------------------
(* Every other route loads the document and the handler checks what was    *)
(* loaded; delete also asks whether the financials cite the document.      *)

(* Mutants: extract takes approved documents; delete forgets the citation. *)
AcceptsExtractAny(op, d) ==
  \/ op = "extract"
  \/ op = "review" /\ docStatus[d] \in Reviewable /\ current[d] # {}
  \/ op = "approve" /\ docStatus[d] = "reviewed" /\ current[d] # {}
  \/ op = "reject" /\ docStatus[d] \in Rejectable
  \/ op = "delete" /\ period # d

Accepts(op, d) ==
  \/ op = "extract" /\ docStatus[d] # "approved"
  \/ op = "review" /\ docStatus[d] \in Reviewable /\ current[d] # {}
  \/ op = "approve" /\ docStatus[d] = "reviewed" /\ current[d] # {}
  \/ op = "reject" /\ docStatus[d] \in Rejectable
  \/ op = "delete" /\ period # d

LoadDocument(r, op, d) ==
  /\ dr[r].pc = "idle"
  /\ Stored(d)
  /\ Accepts(op, d)
  /\ dr' = [dr EXCEPT ![r] = [NoRequest EXCEPT !.pc = "loaded", !.op = op, !.doc = d,
                                               !.seen = docStatus[d]]]
  /\ Entangle(r, d, op)
  /\ UNCHANGED <<docStatus, files, current, versions, period>>

(* extract commits "processing", then works on the row as it is by then. *)
BeginExtract(r) ==
  /\ At(r, "loaded", "extract")
  /\ WriteStatus(r, "processing")
  /\ dr' = [dr EXCEPT ![r].pc = "working", ![r].seen = docStatus'[dr[r].doc]]
  /\ UNCHANGED <<files, current, versions, period, entangled>>

(* Reading or parsing raises: rollback, then a commit of "failed". *)
ExtractFails(r) ==
  /\ dr[r].op = "extract" /\ dr[r].pc \in {"working", "superseding"}
  /\ Stored(dr[r].doc)
  /\ docStatus' = [docStatus EXCEPT ![dr[r].doc] = "failed"]
  /\ Answer(r)
  /\ UNCHANGED <<files, current, versions, period, entangled>>

(* _new_version clears the flags its UPDATE sees, numbers the extraction   *)
(* and inserts it.  What is committed after the UPDATE looked stays set.   *)
Supersede(r) ==
  LET d == dr[r].doc IN
  /\ \/ At(r, "working", "extract") /\ d \in files
     \/ At(r, "loaded", "review")
  /\ Stored(d) /\ versions[d] < MaxVersions
  /\ dr' = [dr EXCEPT ![r].pc = "superseding", ![r].stale = current[d]]
  /\ UNCHANGED <<docStatus, files, current, versions, period, entangled>>

(* Mutant: the flag of the version before is not cleared. *)
NewVersionBeside(r) ==
  LET d == dr[r].doc IN
  /\ versions' = [versions EXCEPT ![d] = @ + 1]
  /\ current' = [current EXCEPT ![d] = @ \cup {versions[d] + 1}]

NewVersion(r) ==
  LET d == dr[r].doc IN
  /\ versions' = [versions EXCEPT ![d] = @ + 1]
  /\ current' = [current EXCEPT ![d] = (@ \ dr[r].stale) \cup {versions[d] + 1}]

FinishExtract(r) ==
  /\ At(r, "superseding", "extract") /\ versions[dr[r].doc] < MaxVersions
  /\ \E outcome \in {"needs_review", "failed"} : WriteStatus(r, outcome)
  /\ NewVersion(r)
  /\ Answer(r)
  /\ UNCHANGED <<files, period, entangled>>

FinishReview(r) ==
  /\ At(r, "superseding", "review") /\ versions[dr[r].doc] < MaxVersions
  /\ \E outcome \in {"needs_review", "reviewed"} : WriteStatus(r, outcome)
  /\ NewVersion(r)
  /\ Answer(r)
  /\ UNCHANGED <<files, period, entangled>>

-----------------------------------------------------------------------------
(* approve: SELECT ... FOR UPDATE of the period.  If there is a row its    *)
(* lock is held until the commit; if there is none nothing is locked.      *)
LockPeriod(r) ==
  /\ At(r, "loaded", "approve")
  /\ \A q \in DocRequests : dr[q].pc # "locked"
  /\ period # dr[r].doc
  /\ Goto(r, IF period = NoDoc THEN "unlocked" ELSE "locked")
  /\ UNCHANGED <<docStatus, files, current, versions, period, entangled>>

(* The period already rests on this document: it is returned. *)
ApproveAgain(r) ==
  /\ At(r, "loaded", "approve")
  /\ \A q \in DocRequests : dr[q].pc # "locked"
  /\ period = dr[r].doc
  /\ Answer(r)
  /\ UNCHANGED <<docStatus, files, current, versions, period, entangled>>

(* The first approval of the period; a second insert violates the          *)
(* constraint.                                                             *)
InsertPeriod(r) ==
  /\ dr[r].pc = "unlocked"
  /\ period = NoDoc
  /\ WriteStatus(r, "approved")
  /\ period' = dr[r].doc
  /\ Answer(r)
  /\ UNCHANGED <<files, current, versions, entangled>>

(* replace_existing *)
RestatePeriod(r) ==
  /\ dr[r].pc = "locked"
  /\ WriteStatus(r, "approved")
  /\ period' = dr[r].doc
  /\ Answer(r)
  /\ UNCHANGED <<files, current, versions, entangled>>

Reject(r) ==
  /\ At(r, "loaded", "reject")
  /\ WriteStatus(r, "rejected")
  /\ Answer(r)
  /\ UNCHANGED <<files, current, versions, period, entangled>>

-----------------------------------------------------------------------------
(* delete *)

(* Mutant: the file is removed before the document is marked. *)
MarkDeletionLate(r) ==
  /\ At(r, "loaded", "delete")
  /\ Goto(r, "pending")
  /\ UNCHANGED <<docStatus, files, current, versions, period, entangled>>

MarkDeletion(r) ==
  /\ At(r, "loaded", "delete")
  /\ WriteStatus(r, "deletion_pending")
  /\ Goto(r, "pending")
  /\ UNCHANGED <<files, current, versions, period, entangled>>

DeleteFile(r) ==
  /\ dr[r].pc = "pending"
  /\ files' = files \ {dr[r].doc}
  /\ Goto(r, "unfiled")
  /\ UNCHANGED <<docStatus, current, versions, period, entangled>>

(* The financials reference the document and its extraction: if they do by *)
(* now, the database refuses.                                              *)
DeleteRows(r) ==
  LET d == dr[r].doc IN
  /\ dr[r].pc = "unfiled"
  /\ Stored(d) /\ period # d
  /\ docStatus' = [docStatus EXCEPT ![d] = "absent"]
  /\ current' = [current EXCEPT ![d] = {}]
  /\ Answer(r)
  /\ UNCHANGED <<files, versions, period, entangled>>

(* A refusal, an error or the death of the process, anywhere. *)
DropRequest(r) ==
  /\ dr[r].pc # "idle"
  /\ Answer(r)
  /\ UNCHANGED <<docStatus, files, current, versions, period, entangled>>

DocumentStep(r) ==
  \/ \E d \in Docs : SaveFile(r, d)
  \/ \E op \in {"extract", "review", "approve", "reject", "delete"}, d \in Docs :
       LoadDocument(r, op, d)
  \/ InsertDocument(r) \/ UploadFails(r)
  \/ BeginExtract(r) \/ ExtractFails(r) \/ Supersede(r)
  \/ FinishExtract(r) \/ FinishReview(r)
  \/ LockPeriod(r) \/ ApproveAgain(r) \/ InsertPeriod(r) \/ RestatePeriod(r)
  \/ Reject(r)
  \/ MarkDeletion(r) \/ DeleteFile(r) \/ DeleteRows(r)
  \/ DropRequest(r)

DocumentsNext == \E r \in DocRequests : DocumentStep(r)

DocumentsSpec == DocumentsInit /\ [][DocumentsNext]_docVars

-----------------------------------------------------------------------------
(* Properties *)

(* The financials of the period rest on an approved document whose file    *)
(* can be opened, through overlapping approvals and restatements and       *)
(* through deletes that die halfway, unless two other requests on that     *)
(* document overlapped.                                                    *)
PeriodIsBacked ==
  period # NoDoc /\ period \notin entangled =>
    docStatus[period] = "approved" /\ period \in files

(* Bytes are missing only behind a document whose deletion was begun, or   *)
(* that failed when extract was called on such a document: nothing that    *)
(* can be reviewed or approved lacks its file, wherever an upload or a     *)
(* delete dies (same exception).                                           *)
FilesBehindRows ==
  \A d \in Docs \ entangled :
    docStatus[d] \notin {"absent", "deletion_pending", "processing", "failed"}
      => d \in files

(* A document has one current extraction, and only the newest is current   *)
(* (same exception).                                                       *)
NewestIsCurrent ==
  \A d \in Docs \ entangled :
    Stored(d) /\ versions[d] > 0 => current[d] = {versions[d]}
=============================================================================
