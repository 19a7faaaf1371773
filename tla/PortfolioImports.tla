-------------------------- MODULE PortfolioImports --------------------------
(***************************************************************************)
(* Customer portfolio imports: services/portfolio_imports.py behind the    *)
(* API threads of routes/portfolio_imports.py.                             *)
(*                                                                         *)
(* A file is uploaded, a mapping of its columns is validated, and its      *)
(* valid rows are confirmed into the tenant's companies, or the import is  *)
(* cancelled.  A request decides on the record it has loaded and writes    *)
(* it later without a condition; companies are unique by external id.      *)
(***************************************************************************)
EXTENDS Naturals, FiniteSets

CONSTANTS
  Imports,        \* rows of portfolio_imports
  Companies,      \* external ids
  ImportRequests, \* concurrent API requests
  NoImport,
  MaxValidations  \* bound: mappings committed

ASSUME NoImportAssumption    == NoImport \notin Imports
ASSUME ValidationsAssumption == MaxValidations \in Nat
ASSUME CompaniesAssumption   == IsFiniteSet(Companies)

VARIABLES
  imports,   \* each record
  companies, \* the import that created a company, NoImport if there is none
  importing, \* each request: the record it loaded, the companies it saw
  (* History: *)
  validations,
  mapped,    \* the valid rows of each mapping committed for an import
  remapped   \* imports a mapping was committed for while they were confirmed

importVars == <<imports, companies, importing, validations, mapped, remapped>>
history    == <<validations, mapped, remapped>>

AwaitingStatuses == {"awaiting_mapping", "awaiting_confirmation"}
DoneStatuses     == {"completed", "completed_with_errors"}
ImportStatuses   == {"absent", "cancelled", "failed"} \cup AwaitingStatuses \cup DoneStatuses

(* rows: external ids of the valid rows of the mapping the record shows,   *)
(* staged with it until staged_data is cleared; errors: whether            *)
(* invalid_rows is above zero.                                             *)
ImportRow == [status : ImportStatuses, rows : SUBSET Companies, errors : BOOLEAN,
              staged : BOOLEAN, imported : Nat]
ImportCall == [pc : {"idle", "validate", "confirm", "cancel", "insert", "failing"},
               record : Imports \cup {NoImport}, seen : ImportRow,
               existing : SUBSET Companies]

NoRecord == [status |-> "absent", rows |-> {}, errors |-> FALSE,
             staged |-> FALSE, imported |-> 0]
NoCall   == [pc |-> "idle", record |-> NoImport, seen |-> NoRecord, existing |-> {}]

ImportsTypeOK ==
  /\ imports \in [Imports -> ImportRow]
  /\ companies \in [Companies -> Imports \cup {NoImport}]
  /\ importing \in [ImportRequests -> ImportCall]
  /\ \A c \in ImportRequests :
       importing[c].pc # "idle" => importing[c].record \in Imports
  /\ validations \in Nat
  /\ mapped \in [Imports -> SUBSET SUBSET Companies]
  /\ remapped \subseteq Imports

ImportsInit ==
  /\ imports = [i \in Imports |-> NoRecord]
  /\ companies = [x \in Companies |-> NoImport]
  /\ importing = [c \in ImportRequests |-> NoCall]
  /\ validations = 0
  /\ mapped = [i \in Imports |-> {}]
  /\ remapped = {}

-----------------------------------------------------------------------------
(* create_import; the upload was inspected. *)
CreateImport(i) ==
  /\ imports[i].status = "absent"
  /\ imports' = [imports EXCEPT ![i].status = "awaiting_mapping", ![i].staged = TRUE]
  /\ UNCHANGED <<companies, importing, history>>

(* What the loaded record lets a request do; any other answer is a 409, or *)
(* the record itself when it is completed.                                 *)
Allows(row, op) ==
  \/ op = "validate" /\ row.status = "awaiting_mapping" /\ row.staged
  \/ op = "confirm" /\ row.status = "awaiting_confirmation" /\ row.staged
  \/ op = "cancel" /\ row.status \in AwaitingStatuses

LoadImport(c, i, op) ==
  /\ importing[c].pc = "idle"
  /\ Allows(imports[i], op)
  /\ importing' = [importing EXCEPT ![c] =
       [NoCall EXCEPT !.pc = op, !.record = i, !.seen = imports[i]]]
  /\ UNCHANGED <<imports, companies, history>>

Written(old, new, stored) == IF new = old THEN stored ELSE new

Confirming(c, i) == importing[c].record = i /\ importing[c].pc \in {"confirm", "insert"}

(* validate_mapping: the rows it finds valid depend on the mapping.  A     *)
(* count of invalid rows that is the loaded one is not written.            *)
CommitMapping(c) ==
  LET i == importing[c].record IN
  /\ importing[c].pc = "validate"
  /\ validations < MaxValidations
  /\ \E rows \in SUBSET Companies, errors \in BOOLEAN :
       /\ imports' = [imports EXCEPT ![i].status = "awaiting_confirmation",
                        ![i].rows = rows, ![i].staged = TRUE,
                        ![i].errors = Written(importing[c].seen.errors, errors, @)]
       /\ mapped' = [mapped EXCEPT ![i] = @ \cup {rows}]
  /\ remapped' = IF \E q \in ImportRequests : Confirming(q, i)
                 THEN remapped \cup {i} ELSE remapped
  /\ validations' = validations + 1
  /\ importing' = [importing EXCEPT ![c] = NoCall]
  /\ UNCHANGED companies

(* cancel_import *)
CommitCancel(c) ==
  /\ importing[c].pc = "cancel"
  /\ imports' = [imports EXCEPT ![importing[c].record].status = "cancelled",
                                ![importing[c].record].staged = FALSE]
  /\ importing' = [importing EXCEPT ![c] = NoCall]
  /\ UNCHANGED <<companies, history>>

-----------------------------------------------------------------------------
(* confirm_import: the companies that exist, then the commit. *)
Booked == {x \in Companies : companies[x] # NoImport}

ReadExisting(c) ==
  /\ importing[c].pc = "confirm"
  /\ importing' = [importing EXCEPT ![c].pc = "insert", ![c].existing = Booked]
  /\ UNCHANGED <<imports, companies, history>>

(* The confirmed record: the columns of the mapping are not written, and a *)
(* counter only if it changed.                                             *)
Confirmed(c, new) ==
  LET i    == importing[c].record
      seen == importing[c].seen
  IN [imports EXCEPT
        ![i].status   = IF seen.errors THEN "completed_with_errors" ELSE "completed",
        ![i].staged   = FALSE,
        ![i].imported = Written(seen.imported, Cardinality(new), @)]

(* Mutant: the error of the unique constraint counts as rows to skip. *)
CommitConfirmSwallowed(c) ==
  LET new == importing[c].seen.rows \ importing[c].existing IN
  /\ importing[c].pc = "insert"
  /\ companies' = [x \in Companies |-> IF new \cap Booked = {} /\ x \in new
                                       THEN importing[c].record ELSE companies[x]]
  /\ imports' = Confirmed(c, new)
  /\ importing' = [importing EXCEPT ![c] = NoCall]
  /\ UNCHANGED history

(* The unique constraint refuses a company that exists by now. *)
CommitConfirm(c) ==
  LET new == importing[c].seen.rows \ importing[c].existing IN
  /\ importing[c].pc = "insert"
  /\ new \cap Booked = {}
  /\ companies' = [x \in Companies |-> IF x \in new THEN importing[c].record
                                       ELSE companies[x]]
  /\ imports' = Confirmed(c, new)
  /\ importing' = [importing EXCEPT ![c] = NoCall]
  /\ UNCHANGED history

(* Any error of the confirmation is rolled back, *)
ConfirmRaises(c) ==
  /\ importing[c].pc \in {"confirm", "insert"}
  /\ importing' = [importing EXCEPT ![c].pc = "failing"]
  /\ UNCHANGED <<imports, companies, history>>

(* and the record, loaded again, is failed whatever its status. *)
MarkFailed(c) ==
  /\ importing[c].pc = "failing"
  /\ imports' = [imports EXCEPT ![importing[c].record].status = "failed",
                                ![importing[c].record].staged = FALSE]
  /\ importing' = [importing EXCEPT ![c] = NoCall]
  /\ UNCHANGED <<companies, history>>

(* The process dies, or the request is refused. *)
AbandonImport(c) ==
  /\ importing[c].pc # "idle"
  /\ importing' = [importing EXCEPT ![c] = NoCall]
  /\ UNCHANGED <<imports, companies, history>>

ImportStep(c) ==
  \/ \E i \in Imports, op \in {"validate", "confirm", "cancel"} : LoadImport(c, i, op)
  \/ CommitMapping(c) \/ CommitCancel(c)
  \/ ReadExisting(c) \/ CommitConfirm(c) \/ ConfirmRaises(c) \/ MarkFailed(c)
  \/ AbandonImport(c)

ImportsNext ==
  \/ \E i \in Imports : CreateImport(i)
  \/ \E c \in ImportRequests : ImportStep(c)

ImportsSpec == ImportsInit /\ [][ImportsNext]_importVars

-----------------------------------------------------------------------------
(* Properties *)

(* A completed import has in the book all valid rows of one of its         *)
(* mappings, created by it or by another import, although confirmations,   *)
(* cancellations and mappings overlap and a row taken meanwhile undoes a   *)
(* confirmation whole.  That mapping is the one its record shows, unless   *)
(* another was committed while the import was being confirmed: the         *)
(* confirmation books the rows it has loaded and leaves the newer mapping  *)
(* in the record.                                                          *)
ConfirmedIsBooked ==
  \A i \in Imports : imports[i].status \in DoneStatuses =>
    \E rows \in mapped[i] :
      /\ rows \subseteq Booked
      /\ i \notin remapped => rows = imports[i].rows

(* Statements of the code *)

(* A failed import says "Persistence failed; no records were imported." *)
FailedImportedNothing ==
  \A i \in Imports : imports[i].status = "failed" =>
    \A x \in Companies : companies[x] # i
=============================================================================
