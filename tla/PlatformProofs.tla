--------------------------- MODULE PlatformProofs ---------------------------
(***************************************************************************)
(* Proofs about four platform services, for any number of requests and     *)
(* rows: exposure limits, portfolio imports, object storage and billing.   *)
(* Each checks a row it has loaded and writes later; each invariant says   *)
(* what the copy a request holds is still good for.  With them and with    *)
(* JobQueueProofs and DataSyncProofs, what the instance MCPlatform runs    *)
(* keeps for every value of its constants.                                 *)
(***************************************************************************)
EXTENDS MCPlatform, JobQueueProofs, DataSyncProofs, FiniteSetTheorems, TLAPS

-----------------------------------------------------------------------------
(* Exposure limits.  Until a request commits over a breach that changed,   *)
(* the breach fits its answers and so does every copy that will be         *)
(* written back.                                                           *)
Fits(b) ==
  /\ b.status \in {"none", "open"} => ~b.answered
  /\ b.status = "acknowledged" => b.answered
  /\ b.settled <=> b.status = "resolved"

Answerable(r) ==
  risk[r].pc = "acknowledge" => risk[r].seen.status \in {"open", "acknowledged"}

RiskInv ==
  /\ RiskTypeOK
  /\ ~crossed => Fits(breach)
  /\ \A r \in RiskRequests : Answerable(r)

LEMMA EvaluatedFits ==
  ASSUME NEW seen \in Breach, NEW over \in BOOLEAN, Fits(seen)
  PROVE  Fits(Evaluated(seen, over))
BY DEF Evaluated, Fits, Breach

LEMMA WrittenType ==
  ASSUME RiskTypeOK, NEW seen \in Breach, NEW over \in BOOLEAN
  PROVE  /\ WrittenOver(seen, Evaluated(seen, over)) \in Breach
         /\ breach = seen =>
              WrittenOver(seen, Evaluated(seen, over)) = Evaluated(seen, over)
<1> DEFINE new == Evaluated(seen, over)
<1>1. new \in Breach
  BY DEF Evaluated, Breach
<1>2. breach \in Breach
  BY DEF RiskTypeOK
<1> HIDE DEF new
<1>3. WrittenOver(seen, new) \in Breach
  BY <1>1, <1>2 DEF WrittenOver, Column, Breach
<1>4. ASSUME breach = seen PROVE WrittenOver(seen, new) = new
  BY <1>1, <1>4 DEF WrittenOver, Column, Breach
<1> QED BY <1>3, <1>4 DEF new

LEMMA RiskInvInit == RiskInit => RiskInv
<1> SUFFICES ASSUME RiskInit PROVE RiskInv
  OBVIOUS
<1>1. NoBreach \in Breach /\ Fits(NoBreach)
  BY DEF NoBreach, Breach, Fits
<1>2. NoRiskCall \in RiskCall /\ NoRiskCall.pc = "idle"
  BY <1>1 DEF NoRiskCall, RiskCall
<1> QED
  BY <1>1, <1>2 DEF RiskInit, RiskInv, RiskTypeOK, Answerable, Exposures

LEMMA RiskInvNext == RiskInv /\ [RiskNext]_riskVars => RiskInv'
<1> SUFFICES ASSUME RiskInv, [RiskNext]_riskVars PROVE RiskInv'
  OBVIOUS
<1> USE DEF RiskInv
<1>1. CASE UNCHANGED riskVars
  BY <1>1 DEF riskVars, RiskTypeOK, Fits, Answerable
<1>2. CASE ExposureChanges \/ UpdateLimit
  BY <1>2, EpisodesAssumption
     DEF ExposureChanges, UpdateLimit, RiskTypeOK, Fits, Answerable
<1>3. ASSUME NEW r \in RiskRequests, RiskStep(r) PROVE RiskInv'
  <2>1. /\ breach \in Breach /\ risk[r] \in RiskCall
        /\ risk[r].seen \in Breach /\ risk[r].over \in BOOLEAN
        /\ NoRiskCall \in RiskCall /\ NoRiskCall.pc = "idle"
    BY DEF RiskTypeOK, RiskCall, NoRiskCall, NoBreach, Breach
  <2>2. CASE LoadLimit(r) \/ Measure(r)
    BY <2>1, <2>2 DEF LoadLimit, Measure, RiskTypeOK, RiskCall, Fits, Answerable
  <2>3. CASE ReadBreach(r)
    BY <2>1, <2>3 DEF ReadBreach, RiskTypeOK, RiskCall, Fits, Answerable
  <2>4. CASE CommitEvaluation(r)
    <3> DEFINE new == WrittenOver(risk[r].seen, Evaluated(risk[r].seen, risk[r].over))
    <3>1. /\ breach' = new
          /\ crossed' = (crossed \/ breach # risk[r].seen)
          /\ risk' = [risk EXCEPT ![r] = NoRiskCall]
          /\ UNCHANGED <<limit, exposure, episodes>>
      BY <2>4 DEF CommitEvaluation
    <3>2. new \in Breach
      BY <2>1, WrittenType
    <3>3. ASSUME ~crossed' PROVE Fits(new)
      <4>1. ~crossed /\ breach = risk[r].seen
        BY <3>1, <3>3
      <4> QED BY <2>1, <4>1, WrittenType, EvaluatedFits
    <3> HIDE DEF new
    <3>4. RiskTypeOK'
      BY <2>1, <3>1, <3>2 DEF RiskTypeOK
    <3>5. \A q \in RiskRequests : Answerable(q)'
      BY <2>1, <3>1 DEF Answerable, RiskTypeOK
    <3> QED BY <3>1, <3>3, <3>4, <3>5 DEF Fits
  <2>5. CASE LoadBreach(r)
    <3>1. [NoRiskCall EXCEPT !.pc = "acknowledge", !.seen = breach] \in RiskCall
      BY <2>1 DEF NoRiskCall, RiskCall
    <3>2. [NoRiskCall EXCEPT !.pc = "acknowledge", !.seen = breach].seen = breach
      BY DEF NoRiskCall
    <3> QED BY <2>5, <3>1, <3>2 DEF LoadBreach, RiskTypeOK, Fits, Answerable
  <2>6. CASE CommitAcknowledgement(r)
    <3>1. /\ breach' = [breach EXCEPT
                !.status = Column(risk[r].seen.status, "acknowledged", breach.status),
                !.answered = TRUE]
          /\ crossed' = (crossed \/ breach # risk[r].seen)
          /\ risk' = [risk EXCEPT ![r] = NoRiskCall]
          /\ UNCHANGED <<limit, exposure, episodes>>
          /\ risk[r].seen.status \in {"open", "acknowledged"}
      BY <2>1, <2>6 DEF CommitAcknowledgement, Answerable, Breach
    <3>2. /\ breach' \in Breach /\ breach'.answered
          /\ breach'.settled = breach.settled
          /\ breach'.status = Column(risk[r].seen.status, "acknowledged", breach.status)
      BY <2>1, <3>1 DEF Column, Breach
    <3>3. ASSUME ~crossed' PROVE Fits(breach')
      <4>1. ~crossed /\ breach = risk[r].seen
        BY <3>1, <3>3
      <4>2. breach'.status = "acknowledged" /\ ~breach.settled
        BY <2>1, <3>1, <3>2, <4>1 DEF Column, Fits
      <4> QED BY <3>2, <4>2 DEF Fits
    <3>4. RiskTypeOK'
      BY <2>1, <3>1, <3>2 DEF RiskTypeOK
    <3>5. \A q \in RiskRequests : Answerable(q)'
      BY <2>1, <3>1 DEF Answerable, RiskTypeOK
    <3> QED BY <3>3, <3>4, <3>5 DEF Fits
  <2>7. CASE AbandonRisk(r)
    BY <2>1, <2>7 DEF AbandonRisk, RiskTypeOK, Fits, Answerable
  <2> QED BY <1>3, <2>2, <2>3, <2>4, <2>5, <2>6, <2>7 DEF RiskStep
<1> QED BY <1>1, <1>2, <1>3 DEF RiskNext

THEOREM RiskInvariant == RiskSpec => []RiskInv
BY RiskInvInit, RiskInvNext, PTL DEF RiskSpec

(* A breach is answered when it is acknowledged and not before, and only a *)
(* resolved breach is settled, whichever evaluations and acknowledgements  *)
(* overlap, as long as none of them overwrites what changed after it read. *)
THEOREM AnswersFit == RiskSpec => []AnswersFitBreach
<1>1. RiskInv => AnswersFitBreach
  BY DEF RiskInv, Fits, AnswersFitBreach
<1> QED BY <1>1, RiskInvariant, PTL

-----------------------------------------------------------------------------
(* Portfolio imports.  The book only grows, so the companies a             *)
(* confirmation has seen are still there when it commits.  The rows it has *)
(* loaded are those of a mapping, and the record shows that mapping until  *)
(* another is committed, which is noticed while the confirmation is open.  *)
SeenBooked(c) == importing[c].pc = "insert" => importing[c].existing \subseteq Booked

LoadedMapping(c) ==
  importing[c].pc \in {"confirm", "insert"} =>
    LET i == importing[c].record IN
    /\ importing[c].seen.rows \in mapped[i]
    /\ i \notin remapped => importing[c].seen.rows = imports[i].rows

ShowsMapping(i) ==
  imports[i].status = "awaiting_confirmation" => imports[i].rows \in mapped[i]

ImportsInv ==
  /\ ImportsTypeOK
  /\ ConfirmedIsBooked
  /\ \A i \in Imports : ShowsMapping(i)
  /\ \A c \in ImportRequests : SeenBooked(c) /\ LoadedMapping(c)

LEMMA NoCallType ==
  /\ NoRecord \in ImportRow /\ NoRecord.status \notin DoneStatuses
  /\ NoCall \in ImportCall /\ NoCall.pc = "idle"
<1>1. NoRecord \in ImportRow /\ NoRecord.status \notin DoneStatuses
  BY DEF NoRecord, ImportRow, ImportStatuses, AwaitingStatuses, DoneStatuses
<1> QED BY <1>1 DEF NoCall, ImportCall

LEMMA ImportsInvInit == ImportsInit => ImportsInv
<1> SUFFICES ASSUME ImportsInit PROVE ImportsInv
  OBVIOUS
<1>1. ImportsTypeOK
  BY NoCallType DEF ImportsInit, ImportsTypeOK
<1> QED
  BY <1>1, NoCallType
     DEF ImportsInit, ImportsInv, ConfirmedIsBooked, SeenBooked, LoadedMapping, ShowsMapping,
         NoRecord

(* What a step owes to a record that is completed after it. *)
Owed(row, i) ==
  \E valid \in mapped'[i] :
    valid \subseteq Booked' /\ (i \notin remapped' => valid = row.rows)

(* The form of every step that changes one record and ends its request: a  *)
(* record that becomes completed has the rows of a mapping in the book,    *)
(* and a record that shows another mapping says so to who confirms it.     *)
LEMMA RecordChanges ==
  ASSUME ImportsInv, ImportsTypeOK', NEW c \in ImportRequests, NEW i \in Imports,
         NEW row \in ImportRow,
         imports' = [imports EXCEPT ![i] = row],
         importing' = [importing EXCEPT ![c] = NoCall],
         Booked \subseteq Booked', remapped \subseteq remapped',
         \A j \in Imports : mapped[j] \subseteq mapped'[j],
         row.rows = imports[i].rows \/ \A q \in ImportRequests : Confirming(q, i) => i \in remapped',
         row.status = "awaiting_confirmation" => row.rows \in mapped'[i],
         row.status \in DoneStatuses => Owed(row, i)
  PROVE  ImportsInv'
<1> USE DEF ImportsInv
<1>1. /\ importing'[c] = NoCall
      /\ \A q \in ImportRequests : q # c => importing'[q] = importing[q]
      /\ imports'[i] = row
      /\ \A j \in Imports : j # i => imports'[j] = imports[j]
  BY DEF ImportsTypeOK
<1>2. ConfirmedIsBooked'
  <2> SUFFICES ASSUME NEW j \in Imports, imports'[j].status \in DoneStatuses
               PROVE  Owed(imports'[j], j)
    BY DEF ConfirmedIsBooked, Owed
  <2>1. CASE j = i
    BY <1>1, <2>1 DEF Owed
  <2>2. CASE j # i
    <3>1. imports'[j] = imports[j] /\ imports[j].status \in DoneStatuses
      BY <1>1, <2>2
    <3>2. PICK valid \in mapped[j] :
            valid \subseteq Booked /\ (j \notin remapped => valid = imports[j].rows)
      BY <3>1 DEF ConfirmedIsBooked
    <3>3. valid \in mapped'[j] /\ valid \subseteq Booked'
      BY <3>2
    <3> QED BY <3>1, <3>2, <3>3 DEF Owed
  <2> QED BY <2>1, <2>2
<1>3. ASSUME NEW j \in Imports PROVE ShowsMapping(j)'
  BY <1>1 DEF ShowsMapping
<1>4. ASSUME NEW q \in ImportRequests PROVE SeenBooked(q)' /\ LoadedMapping(q)'
  <2>1. CASE q = c
    BY <1>1, <2>1, NoCallType DEF SeenBooked, LoadedMapping
  <2>2. CASE q # c
    <3>1. importing'[q] = importing[q] /\ SeenBooked(q) /\ LoadedMapping(q)
      BY <1>1, <2>2
    <3>2. importing[q].pc \in {"confirm", "insert"} => importing[q].record \in Imports
      BY DEF ImportsTypeOK
    <3> QED BY <1>1, <3>1, <3>2 DEF SeenBooked, LoadedMapping, Confirming
  <2> QED BY <2>1, <2>2
<1> QED BY <1>2, <1>3, <1>4

(* The form of every step that changes only what a request holds. *)
LEMMA CallChanges ==
  ASSUME ImportsInv, NEW c \in ImportRequests, NEW call \in ImportCall,
         importing' = [importing EXCEPT ![c] = call],
         UNCHANGED <<imports, companies, history>>,
         call.pc # "idle" => call.record \in Imports,
         call.pc = "insert" => call.existing \subseteq Booked,
         call.pc \in {"confirm", "insert"} =>
           /\ call.seen.rows \in mapped[call.record]
           /\ call.record \notin remapped => call.seen.rows = imports[call.record].rows
  PROVE  ImportsInv'
<1> USE DEF ImportsInv
<1>1. /\ importing'[c] = call
      /\ \A q \in ImportRequests : q # c => importing'[q] = importing[q]
      /\ Booked' = Booked /\ mapped' = mapped /\ remapped' = remapped
  BY DEF ImportsTypeOK, Booked, history
<1>2. ImportsTypeOK'
  BY <1>1 DEF ImportsTypeOK, history
<1>3. ConfirmedIsBooked' /\ \A i \in Imports : ShowsMapping(i)'
  BY <1>1 DEF ConfirmedIsBooked, ShowsMapping
<1>4. \A q \in ImportRequests : SeenBooked(q)' /\ LoadedMapping(q)'
  BY <1>1 DEF SeenBooked, LoadedMapping
<1> QED BY <1>2, <1>3, <1>4

LEMMA ConfirmKeeps ==
  ASSUME ImportsInv, NEW c \in ImportRequests, CommitConfirm(c)
  PROVE  ImportsInv'
<1> USE DEF ImportsInv
<1> DEFINE call == importing[c]
           i    == call.record
           new  == call.seen.rows \ call.existing
           done == IF call.seen.errors THEN "completed_with_errors" ELSE "completed"
           row  == [imports[i] EXCEPT
                     !.status = done, !.staged = FALSE,
                     !.imported = Written(call.seen.imported, Cardinality(new), @)]
<1>1. /\ call \in ImportCall /\ i \in Imports /\ call.seen \in ImportRow
      /\ imports[i] \in ImportRow
      /\ call.pc = "insert"
  BY DEF ImportsTypeOK, CommitConfirm, ImportCall
<1>2. new \subseteq Companies /\ Cardinality(new) \in Nat
  <2>1. new \subseteq Companies
    BY <1>1 DEF ImportRow
  <2> QED BY <2>1, CompaniesAssumption, FS_Subset, FS_CardinalityType
<1>3. /\ companies' = [x \in Companies |-> IF x \in new THEN i ELSE companies[x]]
      /\ imports' = Confirmed(c, new)
      /\ importing' = [importing EXCEPT ![c] = NoCall]
      /\ UNCHANGED history
  BY DEF CommitConfirm
<1>4. imports' = [imports EXCEPT ![i] = row]
  BY <1>1, <1>3 DEF Confirmed, ImportsTypeOK
<1>5. companies' \in [Companies -> Imports \cup {NoImport}]
  BY <1>1, <1>3 DEF ImportsTypeOK
<1>6. Booked \subseteq Booked' /\ new \subseteq Booked'
  BY <1>1, <1>2, <1>3, NoImportAssumption DEF Booked
<1>7. call.seen.rows \subseteq Booked'
  BY <1>1, <1>6 DEF SeenBooked
<1>8. row \in ImportRow /\ row.rows = imports[i].rows /\ row.status = done
  <2>1. imports[i].imported \in Nat
    BY <1>1 DEF ImportRow
  <2>2. Written(call.seen.imported, Cardinality(new), imports[i].imported) \in Nat
    BY <1>2, <2>1 DEF Written
  <2>3. done \in ImportStatuses
    BY DEF ImportStatuses, DoneStatuses
  <2> HIDE DEF done, new
  <2> QED BY <1>1, <2>2, <2>3 DEF ImportRow
<1>9. mapped' = mapped /\ remapped' = remapped /\ validations' = validations
  BY <1>3 DEF history
<1>10. ImportsTypeOK'
  <2>1. imports' \in [Imports -> ImportRow]
    BY <1>1, <1>4, <1>8 DEF ImportsTypeOK
  <2>2. importing' \in [ImportRequests -> ImportCall]
    BY <1>3, NoCallType DEF ImportsTypeOK
  <2>3. \A q \in ImportRequests : importing'[q].pc # "idle" => importing'[q].record \in Imports
    BY <1>3, NoCallType DEF ImportsTypeOK
  <2> QED BY <1>5, <1>9, <2>1, <2>2, <2>3 DEF ImportsTypeOK
<1>11. Owed(row, i) /\ row.status # "awaiting_confirmation"
  <2>1. LoadedMapping(c)
    OBVIOUS
  <2>2. /\ call.seen.rows \in mapped'[i]
        /\ i \notin remapped' => call.seen.rows = row.rows
    BY <1>1, <1>8, <1>9, <2>1 DEF LoadedMapping
  <2> QED BY <1>7, <1>8, <2>2 DEF Owed
<1> HIDE DEF row, i
<1> QED BY <1>1, <1>3, <1>4, <1>6, <1>8, <1>9, <1>10, <1>11, RecordChanges

LEMMA RecordWritesKeep ==
  ASSUME ImportsInv, NEW c \in ImportRequests,
         CommitMapping(c) \/ CommitCancel(c) \/ MarkFailed(c)
  PROVE  ImportsInv'
<1> USE DEF ImportsInv
<1> DEFINE i == importing[c].record
<1>1. i \in Imports /\ imports[i] \in ImportRow
  BY DEF ImportsTypeOK, CommitMapping, CommitCancel, MarkFailed
<1>2. UNCHANGED companies /\ importing' = [importing EXCEPT ![c] = NoCall]
  BY DEF CommitMapping, CommitCancel, MarkFailed
<1>3. /\ Booked' = Booked /\ companies' \in [Companies -> Imports \cup {NoImport}]
      /\ importing' \in [ImportRequests -> ImportCall]
      /\ \A q \in ImportRequests :
           importing'[q].pc # "idle" => importing'[q].record \in Imports
  BY <1>2, NoCallType DEF Booked, ImportsTypeOK
<1>4. CASE CommitMapping(c)
  <2>1. PICK valid \in SUBSET Companies, errors \in BOOLEAN :
          /\ imports' = [imports EXCEPT ![i].status = "awaiting_confirmation",
                           ![i].rows = valid, ![i].staged = TRUE,
                           ![i].errors = Written(importing[c].seen.errors, errors, @)]
          /\ mapped' = [mapped EXCEPT ![i] = @ \cup {valid}]
    BY <1>4 DEF CommitMapping
  <2>2. /\ remapped' = IF \E q \in ImportRequests : Confirming(q, i)
                        THEN remapped \cup {i} ELSE remapped
        /\ validations' = validations + 1
    BY <1>4 DEF CommitMapping
  <2> DEFINE kept == Written(importing[c].seen.errors, errors, imports[i].errors)
             row  == [imports[i] EXCEPT !.status = "awaiting_confirmation", !.rows = valid,
                                        !.staged = TRUE, !.errors = kept]
  <2>3. imports' = [imports EXCEPT ![i] = row]
    BY <1>1, <2>1 DEF ImportsTypeOK
  <2>4. kept \in BOOLEAN
    BY <1>1, Zenon DEF Written, ImportRow
  <2>5. /\ row \in ImportRow /\ row.status = "awaiting_confirmation"
        /\ row.status \notin DoneStatuses /\ row.rows = valid
    <3> HIDE DEF kept
    <3> QED BY <1>1, <2>4 DEF ImportRow, ImportStatuses, AwaitingStatuses, DoneStatuses
  <2>6. /\ mapped' \in [Imports -> SUBSET SUBSET Companies]
        /\ \A j \in Imports : mapped[j] \subseteq mapped'[j]
        /\ valid \in mapped'[i]
    BY <1>1, <2>1 DEF ImportsTypeOK
  <2>7. /\ remapped' \subseteq Imports /\ remapped \subseteq remapped'
        /\ \A q \in ImportRequests : Confirming(q, i) => i \in remapped'
    BY <1>1, <2>2 DEF ImportsTypeOK
  <2> HIDE DEF row, i
  <2>8. ImportsTypeOK'
    <3>1. imports' \in [Imports -> ImportRow]
      BY <2>3, <2>5 DEF ImportsTypeOK
    <3>2. validations' \in Nat
      BY <2>2 DEF ImportsTypeOK
    <3> QED BY <1>3, <2>6, <2>7, <3>1, <3>2 DEF ImportsTypeOK
  <2> QED BY <1>1, <1>2, <1>3, <2>3, <2>5, <2>6, <2>7, <2>8, RecordChanges
<1>5. ASSUME NEW status \in {"cancelled", "failed"}, UNCHANGED history,
             imports' = [imports EXCEPT ![i].status = status, ![i].staged = FALSE]
      PROVE  ImportsInv'
  <2> DEFINE row == [imports[i] EXCEPT !.status = status, !.staged = FALSE]
  <2>1. imports' = [imports EXCEPT ![i] = row]
    BY <1>1, <1>5 DEF ImportsTypeOK
  <2>2. /\ row \in ImportRow /\ row.rows = imports[i].rows
        /\ row.status \notin DoneStatuses /\ row.status # "awaiting_confirmation"
    BY <1>1 DEF ImportRow, ImportStatuses, DoneStatuses
  <2>3. mapped' = mapped /\ remapped' = remapped /\ validations' = validations
    BY <1>5 DEF history
  <2> HIDE DEF row, i
  <2>4. ImportsTypeOK'
    BY <1>1, <1>3, <2>1, <2>2, <2>3 DEF ImportsTypeOK
  <2> QED BY <1>1, <1>2, <1>3, <2>1, <2>2, <2>3, <2>4, RecordChanges
<1> QED BY <1>4, <1>5 DEF CommitCancel, MarkFailed

LEMMA ImportsInvNext == ImportsInv /\ [ImportsNext]_importVars => ImportsInv'
<1> SUFFICES ASSUME ImportsInv, [ImportsNext]_importVars PROVE ImportsInv'
  OBVIOUS
<1> USE DEF ImportsInv
<1>1. CASE UNCHANGED importVars
  BY <1>1 DEF importVars, ImportsTypeOK, ConfirmedIsBooked, SeenBooked, LoadedMapping,
              ShowsMapping, Booked
<1>2. ASSUME NEW i \in Imports, CreateImport(i) PROVE ImportsInv'
  <2>1. /\ imports[i] \in ImportRow
        /\ imports' = [imports EXCEPT ![i].status = "awaiting_mapping", ![i].staged = TRUE]
        /\ UNCHANGED <<companies, importing, history>>
    BY <1>2 DEF CreateImport, ImportsTypeOK
  <2>2. imports' \in [Imports -> ImportRow]
    BY <2>1 DEF ImportsTypeOK, ImportRow, ImportStatuses, AwaitingStatuses
  <2>3. /\ imports'[i].status = "awaiting_mapping" /\ imports'[i].rows = imports[i].rows
        /\ \A j \in Imports : j # i => imports'[j] = imports[j]
    BY <2>1 DEF ImportsTypeOK, ImportRow
  <2>4. ImportsTypeOK' /\ Booked' = Booked /\ mapped' = mapped /\ remapped' = remapped
    BY <2>1, <2>2 DEF ImportsTypeOK, Booked, history
  <2>5. ConfirmedIsBooked' /\ \A j \in Imports : ShowsMapping(j)'
    BY <2>3, <2>4 DEF ConfirmedIsBooked, ShowsMapping, DoneStatuses
  <2>6. \A c \in ImportRequests : SeenBooked(c)' /\ LoadedMapping(c)'
    BY <2>1, <2>3, <2>4 DEF SeenBooked, LoadedMapping, ImportsTypeOK
  <2> QED BY <2>4, <2>5, <2>6
<1>3. ASSUME NEW c \in ImportRequests, ImportStep(c) PROVE ImportsInv'
  <2>1. importing[c] \in ImportCall
    BY DEF ImportsTypeOK
  <2>2. ASSUME NEW i \in Imports, NEW op \in {"validate", "confirm", "cancel"},
               LoadImport(c, i, op)
        PROVE  ImportsInv'
    <3> DEFINE call == [NoCall EXCEPT !.pc = op, !.record = i, !.seen = imports[i]]
    <3>1. /\ call \in ImportCall /\ call.record \in Imports /\ call.pc = op
          /\ call.record = i /\ call.seen = imports[i]
      BY NoCallType DEF ImportsTypeOK, ImportCall, NoCall
    <3>2. importing' = [importing EXCEPT ![c] = call] /\ UNCHANGED <<imports, companies, history>>
      BY <2>2 DEF LoadImport
    <3>3. op = "confirm" => imports[i].rows \in mapped[i]
      BY <2>2 DEF LoadImport, Allows, ShowsMapping
    <3> HIDE DEF call
    <3> QED BY <3>1, <3>2, <3>3, CallChanges
  <2>3. CASE ReadExisting(c)
    <3> DEFINE call == [importing[c] EXCEPT !.pc = "insert", !.existing = Booked]
    <3>1. importing[c].record \in Imports
      BY <2>3 DEF ReadExisting, ImportsTypeOK
    <3>2. /\ call \in ImportCall /\ call.record \in Imports /\ call.existing \subseteq Booked
          /\ call.record = importing[c].record /\ call.seen = importing[c].seen
      BY <2>1, <3>1 DEF ImportCall, Booked
    <3>3. importing' = [importing EXCEPT ![c] = call] /\ UNCHANGED <<imports, companies, history>>
      BY <2>3 DEF ReadExisting, ImportsTypeOK
    <3>4. LoadedMapping(c) /\ importing[c].pc = "confirm"
      BY <2>3 DEF ReadExisting
    <3> HIDE DEF call
    <3> QED BY <3>2, <3>3, <3>4, CallChanges DEF LoadedMapping
  <2>4. CASE ConfirmRaises(c)
    <3> DEFINE call == [importing[c] EXCEPT !.pc = "failing"]
    <3>1. importing[c].record \in Imports
      BY <2>4 DEF ConfirmRaises, ImportsTypeOK
    <3>2. call \in ImportCall /\ call.record \in Imports /\ call.pc = "failing"
      BY <2>1, <3>1 DEF ImportCall
    <3>3. importing' = [importing EXCEPT ![c] = call] /\ UNCHANGED <<imports, companies, history>>
      BY <2>4 DEF ConfirmRaises, ImportsTypeOK
    <3> HIDE DEF call
    <3> QED BY <3>2, <3>3, CallChanges
  <2>5. CASE AbandonImport(c)
    BY <2>5, NoCallType, CallChanges DEF AbandonImport
  <2> QED
    BY <1>3, <2>2, <2>3, <2>4, <2>5, ConfirmKeeps, RecordWritesKeep DEF ImportStep
<1> QED BY <1>1, <1>2, <1>3 DEF ImportsNext

THEOREM ImportsInvariant == ImportsSpec => []ImportsInv
BY ImportsInvInit, ImportsInvNext, PTL DEF ImportsSpec

(* A completed import has all valid rows of one of its mappings in the     *)
(* book, the one its record shows unless another was committed while it    *)
(* was being confirmed, for any number of imports and requests.            *)
THEOREM ImportsBooked == ImportsSpec => []ConfirmedIsBooked
<1>1. ImportsInv => ConfirmedIsBooked
  BY DEF ImportsInv
<1> QED BY <1>1, ImportsInvariant, PTL

-----------------------------------------------------------------------------
(* Object storage.  A file that was written is kept or was taken by a      *)
(* removal; a put that is about to commit has written its file; a removal  *)
(* only lists versions of the objects it removes.                          *)
Kept(file) == file \in blobs \cup taken

Prepared(s) ==
  /\ storing[s].pc \in {"write", "commit"} => storing[s].version \in PutNumbers
  /\ storing[s].new => storing[s].version = 1
  /\ storing[s].pc = "commit" => Kept(storing[s].version)
  /\ storing[s].ids \subseteq DOMAIN objects
  /\ storing[s].unlisted \subseteq storing[s].ids
  /\ \A v \in storing[s].listed : v[1] \in storing[s].ids

StoreInv ==
  /\ StoreTypeOK
  /\ CurrentIsStored
  /\ \A s \in StoreCalls : Prepared(s)

LEMMA RowsTyped ==
  ASSUME NEW S, NEW list \in Seq(S), NEW n \in 1 .. Len(list)
  PROVE  list[n] \in S
OBVIOUS

LEMMA NoStoreCallType ==
  /\ NoStoreCall \in StoreCall /\ NoStoreCall.pc = "idle" /\ ~NoStoreCall.new
  /\ NoStoreCall.unlisted = {} /\ NoStoreCall.listed = {} /\ NoStoreCall.ids = {}
  /\ NoStoreCall.files = {}
BY DEF NoStoreCall, StoreCall

LEMMA StoreInvInit == StoreInit => StoreInv
<1> SUFFICES ASSUME StoreInit PROVE StoreInv
  OBVIOUS
<1>1. StoreTypeOK
  <2>1. objects \in Seq([live : BOOLEAN, current : PutNumbers]) /\ Len(objects) <= MaxObjects
    BY StoreBoundAssumption DEF StoreInit
  <2> QED BY <2>1, NoStoreCallType DEF StoreInit, StoreTypeOK
<1>2. CurrentIsStored
  BY DEF StoreInit, CurrentIsStored, LiveObjects
<1>3. \A s \in StoreCalls : Prepared(s)
  BY NoStoreCallType DEF StoreInit, Prepared
<1> QED BY <1>1, <1>2, <1>3 DEF StoreInv

(* The form of the steps that leave the rows alone: what a call holds      *)
(* changes, and a file that was kept stays kept.                           *)
LEMMA HoldingChanges ==
  ASSUME StoreInv, NEW s \in StoreCalls, NEW call \in StoreCall,
         storing' = [storing EXCEPT ![s] = call],
         UNCHANGED <<objects, versions>>,
         blobs' \subseteq PutNumbers, taken' \subseteq PutNumbers,
         blobs \cup taken \subseteq blobs' \cup taken',
         call.pc \in {"write", "commit"} => call.version \in PutNumbers,
         call.new => call.version = 1,
         call.pc = "commit" => call.version \in blobs' \cup taken',
         call.ids \subseteq DOMAIN objects,
         call.unlisted \subseteq call.ids,
         \A v \in call.listed : v[1] \in call.ids
  PROVE  StoreInv'
<1> USE DEF StoreInv
<1>1. /\ storing'[s] = call
      /\ \A q \in StoreCalls : q # s => storing'[q] = storing[q]
  BY DEF StoreTypeOK
<1>2. StoreTypeOK'
  BY <1>1 DEF StoreTypeOK
<1>3. CurrentIsStored'
  BY DEF CurrentIsStored, LiveObjects
<1>4. \A q \in StoreCalls : Prepared(q)'
  BY <1>1 DEF Prepared, Kept
<1> QED BY <1>2, <1>3, <1>4

(* The form of the commits: the call ends, the files stay. *)
LEMMA RowsChange ==
  ASSUME StoreInv, NEW s \in StoreCalls,
         storing' = [storing EXCEPT ![s] = NoStoreCall],
         UNCHANGED <<blobs, taken>>,
         objects' \in Seq([live : BOOLEAN, current : PutNumbers]),
         Len(objects') <= MaxObjects,
         DOMAIN objects \subseteq DOMAIN objects',
         versions' \subseteq ObjectIds \X PutNumbers,
         CurrentIsStored'
  PROVE  StoreInv'
<1> USE DEF StoreInv
<1>1. /\ storing'[s] = NoStoreCall
      /\ \A q \in StoreCalls : q # s => storing'[q] = storing[q]
  BY DEF StoreTypeOK
<1>2. StoreTypeOK'
  BY <1>1, NoStoreCallType DEF StoreTypeOK
<1>3. \A q \in StoreCalls : Prepared(q)'
  BY <1>1, NoStoreCallType DEF Prepared, Kept
<1> QED BY <1>2, <1>3

LEMMA PutKeeps ==
  ASSUME StoreInv, NEW s \in StoreCalls,
         PutLoad(s) \/ PutWrite(s) \/ PutCreate(s) \/ PutUpdate(s)
  PROVE  StoreInv'
<1> USE DEF StoreInv
<1>1. /\ objects \in Seq([live : BOOLEAN, current : PutNumbers])
      /\ Len(objects) \in Nat /\ Len(objects) <= MaxObjects
      /\ DOMAIN objects = 1 .. Len(objects)
      /\ versions \subseteq ObjectIds \X PutNumbers
      /\ blobs \subseteq PutNumbers /\ taken \subseteq PutNumbers
      /\ storing[s] \in StoreCall
      /\ 1 \in PutNumbers
  BY StoreBoundAssumption DEF StoreTypeOK, PutNumbers
<1>2. ASSUME NEW o \in LiveObjects
      PROVE  o \in ObjectIds /\ o \in DOMAIN objects /\ objects[o].current \in PutNumbers
  <2>1. o \in 1 .. Len(objects)
    BY <1>1 DEF LiveObjects
  <2>2. objects[o] \in [live : BOOLEAN, current : PutNumbers]
    BY <1>1, <2>1, RowsTyped
  <2> QED BY <1>1, <2>1, <2>2, StoreBoundAssumption DEF ObjectIds
<1>3. CASE PutLoad(s)
  <2>1. CASE storing' = [storing EXCEPT ![s] =
               [NoStoreCall EXCEPT !.pc = "write", !.new = TRUE, !.version = 1]]
    <3> DEFINE call == [NoStoreCall EXCEPT !.pc = "write", !.new = TRUE, !.version = 1]
    <3>1. /\ call \in StoreCall /\ call.version = 1 /\ call.pc = "write"
          /\ call.ids = {} /\ call.unlisted = {} /\ call.listed = {}
      BY <1>1 DEF NoStoreCall, StoreCall
    <3> HIDE DEF call
    <3> QED BY <1>1, <1>3, <2>1, <3>1, HoldingChanges DEF PutLoad, call
  <2>2. ASSUME NEW o \in LiveObjects, objects[o].current < MaxPuts,
               storing' = [storing EXCEPT ![s] =
                 [NoStoreCall EXCEPT !.pc = "write", !.ids = {o},
                                     !.version = objects[o].current + 1]]
        PROVE  StoreInv'
    <3> DEFINE call == [NoStoreCall EXCEPT !.pc = "write", !.ids = {o},
                                           !.version = objects[o].current + 1]
    <3>1. objects[o].current + 1 \in PutNumbers
      BY <1>2, <2>2, StoreBoundAssumption DEF PutNumbers
    <3>2. /\ call \in StoreCall /\ call.version \in PutNumbers /\ call.pc = "write"
          /\ ~call.new /\ call.ids = {o} /\ call.unlisted = {} /\ call.listed = {}
      BY <1>2, <3>1 DEF NoStoreCall, StoreCall
    <3> HIDE DEF call
    <3> QED BY <1>1, <1>2, <1>3, <2>2, <3>2, HoldingChanges DEF PutLoad, call
  <2> QED BY <1>3, <2>1, <2>2 DEF PutLoad
<1>4. CASE PutWrite(s)
  <2> DEFINE call == [storing[s] EXCEPT !.pc = "commit"]
  <2>1. /\ storing[s].pc = "write" /\ storing' = [storing EXCEPT ![s] = call]
        /\ blobs' = blobs \cup {storing[s].version}
        /\ taken' = taken \ {storing[s].version}
        /\ UNCHANGED <<objects, versions>>
    BY <1>4 DEF PutWrite, Calls, StoreTypeOK
  <2>2. storing[s].version \in PutNumbers /\ Prepared(s)
    BY <2>1 DEF Prepared
  <2>3. /\ call \in StoreCall /\ call.pc = "commit"
        /\ call.version = storing[s].version /\ call.new = storing[s].new
        /\ call.unlisted = storing[s].unlisted /\ call.listed = storing[s].listed
        /\ call.ids = storing[s].ids
    BY <1>1 DEF StoreCall
  <2> HIDE DEF call
  <2> QED BY <1>1, <2>1, <2>2, <2>3, HoldingChanges DEF Prepared
<1>5. CASE PutCreate(s)
  <2> DEFINE row == [live |-> TRUE, current |-> 1]
             id  == Len(objects) + 1
  <2>1. /\ objects' = Append(objects, row) /\ versions' = versions \cup {<<id, 1>>}
        /\ storing' = [storing EXCEPT ![s] = NoStoreCall]
        /\ UNCHANGED <<blobs, taken>>
        /\ Len(objects) < MaxObjects
        /\ 1 \in blobs \cup taken
    BY <1>5 DEF PutCreate, Calls, Prepared, Kept
  <2>2. row \in [live : BOOLEAN, current : PutNumbers]
    BY <1>1
  <2>3. /\ objects' \in Seq([live : BOOLEAN, current : PutNumbers])
        /\ Len(objects') = id /\ id <= MaxObjects /\ id \in ObjectIds
        /\ DOMAIN objects' = 1 .. id
        /\ objects'[id] = row
        /\ \A o \in 1 .. Len(objects) : objects'[o] = objects[o]
    BY <1>1, <2>1, <2>2, StoreBoundAssumption DEF ObjectIds
  <2>4. CurrentIsStored'
    <3> SUFFICES ASSUME NEW o \in 1 .. id, objects'[o].live
                 PROVE  /\ <<o, objects'[o].current>> \in versions'
                        /\ objects'[o].current \in blobs' \cup taken'
      BY <2>3 DEF CurrentIsStored, LiveObjects
    <3>1. CASE o = id
      BY <2>1, <2>3, <3>1
    <3>2. CASE o # id
      <4>1. o \in 1 .. Len(objects) /\ objects'[o] = objects[o]
        BY <1>1, <2>3, <3>2
      <4> QED BY <1>1, <2>1, <4>1 DEF CurrentIsStored, LiveObjects
    <3> QED BY <3>1, <3>2
  <2>5. versions' \subseteq ObjectIds \X PutNumbers
    BY <1>1, <2>1, <2>3
  <2>6. DOMAIN objects \subseteq DOMAIN objects' /\ Len(objects') <= MaxObjects
    BY <1>1, <2>3
  <2> HIDE DEF row, id
  <2> QED BY <2>1, <2>3, <2>4, <2>5, <2>6, RowsChange
<1>6. CASE PutUpdate(s)
  <2>1. PICK o \in storing[s].ids :
          /\ objects[o].live
          /\ objects' = [objects EXCEPT ![o].current = storing[s].version]
          /\ versions' = versions \cup {<<o, storing[s].version>>}
    BY <1>6 DEF PutUpdate
  <2> DEFINE new == storing[s].version
             row == [objects[o] EXCEPT !.current = new]
  <2>2. /\ storing[s].pc = "commit" /\ storing' = [storing EXCEPT ![s] = NoStoreCall]
        /\ UNCHANGED <<blobs, taken>>
    BY <1>6 DEF PutUpdate, Calls
  <2>3. /\ new \in PutNumbers /\ new \in blobs \cup taken
        /\ o \in 1 .. Len(objects) /\ o \in ObjectIds
    BY <1>1, <2>1, <2>2, StoreBoundAssumption DEF Prepared, Kept, ObjectIds
  <2> HIDE DEF new
  <2>4. row \in [live : BOOLEAN, current : PutNumbers] /\ row.current = new
    <3>1. objects[o] \in [live : BOOLEAN, current : PutNumbers]
      BY <1>1, <2>3, RowsTyped
    <3> QED BY <2>3, <3>1
  <2>5. objects' = [objects EXCEPT ![o] = row]
    BY <1>1, <2>1, <2>3 DEF new
  <2> HIDE DEF row
  <2>6. /\ objects' \in Seq([live : BOOLEAN, current : PutNumbers])
        /\ Len(objects') = Len(objects) /\ DOMAIN objects' = DOMAIN objects
        /\ objects'[o] = row
        /\ \A p \in 1 .. Len(objects) : p # o => objects'[p] = objects[p]
    BY <1>1, <2>3, <2>4, <2>5
  <2>7. versions' \subseteq ObjectIds \X PutNumbers
    BY <1>1, <2>1, <2>3 DEF new
  <2>8. CurrentIsStored'
    <3> SUFFICES ASSUME NEW p \in 1 .. Len(objects), objects'[p].live
                 PROVE  /\ <<p, objects'[p].current>> \in versions'
                        /\ objects'[p].current \in blobs' \cup taken'
      BY <1>1, <2>6 DEF CurrentIsStored, LiveObjects
    <3>1. CASE p = o
      BY <2>1, <2>2, <2>3, <2>4, <2>6, <3>1 DEF new
    <3>2. CASE p # o
      BY <1>1, <2>1, <2>2, <2>6, <3>2 DEF CurrentIsStored, LiveObjects
    <3> QED BY <3>1, <3>2
  <2> QED BY <1>1, <2>2, <2>6, <2>7, <2>8, RowsChange
<1> QED BY <1>3, <1>4, <1>5, <1>6

LEMMA RemoveKeeps ==
  ASSUME StoreInv, NEW s \in StoreCalls,
         \/ RemoveLoad(s) \/ RemoveList(s) \/ RemoveCommit(s) \/ AbandonStore(s)
         \/ \E file \in PutNumbers : RemoveFile(s, file)
  PROVE  StoreInv'
<1> USE DEF StoreInv
<1>1. /\ objects \in Seq([live : BOOLEAN, current : PutNumbers])
      /\ Len(objects) \in Nat /\ Len(objects) <= MaxObjects
      /\ DOMAIN objects = 1 .. Len(objects)
      /\ versions \subseteq ObjectIds \X PutNumbers
      /\ blobs \subseteq PutNumbers /\ taken \subseteq PutNumbers
      /\ storing[s] \in StoreCall /\ Prepared(s)
  BY DEF StoreTypeOK
<1>2. LiveObjects \subseteq DOMAIN objects /\ DOMAIN objects \subseteq ObjectIds
  BY <1>1, StoreBoundAssumption DEF LiveObjects, ObjectIds
<1>3. CASE RemoveLoad(s)
  <2>1. PICK ids \in SUBSET LiveObjects :
          storing' = [storing EXCEPT ![s] =
            [NoStoreCall EXCEPT !.pc = "delete", !.ids = ids, !.unlisted = ids]]
    BY <1>3 DEF RemoveLoad
  <2> DEFINE call == [NoStoreCall EXCEPT !.pc = "delete", !.ids = ids, !.unlisted = ids]
  <2>2. /\ call \in StoreCall /\ call.pc = "delete" /\ ~call.new
        /\ call.ids = ids /\ call.unlisted = ids /\ call.listed = {}
    BY <1>2 DEF NoStoreCall, StoreCall
  <2>3. storing' = [storing EXCEPT ![s] = call] /\ UNCHANGED <<objects, versions, blobs, taken>>
    BY <1>3, <2>1 DEF RemoveLoad
  <2> HIDE DEF call
  <2> QED BY <1>1, <1>2, <2>2, <2>3, HoldingChanges
<1>4. CASE RemoveList(s)
  <2>1. PICK o \in storing[s].unlisted :
          LET listed == {v \in versions : v[1] = o} IN
          storing' = [storing EXCEPT ![s].unlisted = @ \ {o},
                                     ![s].listed = @ \cup listed,
                                     ![s].files = {v[2] : v \in listed}]
    BY <1>4 DEF RemoveList
  <2> DEFINE more == {v \in versions : v[1] = o}
             call == [storing[s] EXCEPT !.unlisted = @ \ {o}, !.listed = @ \cup more,
                                        !.files = {v[2] : v \in more}]
  <2>2. storing[s].pc = "delete" /\ UNCHANGED <<objects, versions, blobs, taken>>
    BY <1>4 DEF RemoveList, Calls
  <2>3. storing' = [storing EXCEPT ![s] = call]
    BY <2>1 DEF StoreTypeOK
  <2>4. /\ more \subseteq ObjectIds \X PutNumbers
        /\ {v[2] : v \in more} \subseteq PutNumbers
        /\ \A v \in more : v[1] = o
    BY <1>1
  <2>5. /\ call \in StoreCall /\ call.pc = "delete" /\ call.new = storing[s].new
        /\ call.version = storing[s].version /\ call.ids = storing[s].ids
        /\ call.unlisted = storing[s].unlisted \ {o}
        /\ call.listed = storing[s].listed \cup more
    <3> HIDE DEF more
    <3> QED BY <1>1, <2>2, <2>4 DEF StoreCall
  <2> HIDE DEF call, more
  <2>6. \A v \in call.listed : v[1] \in call.ids
    BY <1>1, <2>1, <2>4, <2>5 DEF Prepared
  <2> QED BY <1>1, <2>2, <2>3, <2>5, <2>6, HoldingChanges DEF Prepared
<1>5. ASSUME NEW file \in PutNumbers, RemoveFile(s, file) PROVE StoreInv'
  <2> DEFINE call == [storing[s] EXCEPT !.files = @ \ {file}]
  <2>1. /\ storing[s].pc = "delete" /\ storing' = [storing EXCEPT ![s] = call]
        /\ blobs' = blobs \ {file} /\ taken' = taken \cup {file}
        /\ UNCHANGED <<objects, versions>>
    BY <1>5 DEF RemoveFile, Calls, StoreTypeOK
  <2>2. /\ call \in StoreCall /\ call.pc = "delete" /\ call.new = storing[s].new
        /\ call.version = storing[s].version /\ call.ids = storing[s].ids
        /\ call.unlisted = storing[s].unlisted /\ call.listed = storing[s].listed
    BY <1>1, <2>1 DEF StoreCall
  <2> HIDE DEF call
  <2> QED BY <1>1, <2>1, <2>2, HoldingChanges DEF Prepared
<1>6. CASE RemoveCommit(s)
  <2>1. /\ \A v \in versions \ storing[s].listed : v[1] \notin storing[s].ids
        /\ versions' = versions \ storing[s].listed
        /\ objects' = [o \in DOMAIN objects |->
             IF o \in storing[s].ids THEN [objects[o] EXCEPT !.live = FALSE] ELSE objects[o]]
        /\ storing' = [storing EXCEPT ![s] = NoStoreCall]
        /\ UNCHANGED <<blobs, taken>>
    BY <1>6 DEF RemoveCommit
  <2>2. ASSUME NEW o \in 1 .. Len(objects)
        PROVE  /\ objects'[o] \in [live : BOOLEAN, current : PutNumbers]
               /\ objects'[o].live => o \notin storing[s].ids /\ objects'[o] = objects[o]
    <3>1. objects[o] \in [live : BOOLEAN, current : PutNumbers]
      BY <1>1, RowsTyped
    <3> QED BY <1>1, <2>1, <3>1
  <2>3. DOMAIN objects' = 1 .. Len(objects)
    BY <1>1, <2>1
  <2>4. /\ objects' \in Seq([live : BOOLEAN, current : PutNumbers])
        /\ Len(objects') = Len(objects)
    BY <1>1, <2>1, <2>2, <2>3
  <2>5. CurrentIsStored'
    <3> SUFFICES ASSUME NEW o \in 1 .. Len(objects), objects'[o].live
                 PROVE  /\ <<o, objects'[o].current>> \in versions'
                        /\ objects'[o].current \in blobs' \cup taken'
      BY <2>3 DEF CurrentIsStored, LiveObjects
    <3>1. o \notin storing[s].ids /\ objects'[o] = objects[o]
      BY <2>2
    <3>2. /\ <<o, objects[o].current>> \in versions
          /\ objects[o].current \in blobs \cup taken
      BY <1>1, <3>1 DEF CurrentIsStored, LiveObjects
    <3>3. <<o, objects[o].current>> \notin storing[s].listed
      BY <1>1, <3>1 DEF Prepared
    <3>4. versions' = versions \ storing[s].listed /\ UNCHANGED <<blobs, taken>>
      BY <2>1
    <3> QED BY <3>1, <3>2, <3>3, <3>4
  <2>6. versions' \subseteq ObjectIds \X PutNumbers
    BY <1>1, <2>1
  <2> QED BY <1>1, <2>1, <2>3, <2>4, <2>5, <2>6, RowsChange
<1>7. CASE AbandonStore(s)
  BY <1>1, <1>7, NoStoreCallType, HoldingChanges DEF AbandonStore
<1> QED BY <1>3, <1>4, <1>5, <1>6, <1>7

LEMMA StoreInvNext == StoreInv /\ [StoreNext]_storeVars => StoreInv'
<1> SUFFICES ASSUME StoreInv, [StoreNext]_storeVars PROVE StoreInv'
  OBVIOUS
<1>1. CASE UNCHANGED storeVars
  BY <1>1 DEF storeVars, StoreInv, StoreTypeOK, CurrentIsStored, LiveObjects,
              Prepared, Kept
<1>2. ASSUME NEW s \in StoreCalls, StoreStep(s) PROVE StoreInv'
  BY <1>2, PutKeeps, RemoveKeeps DEF StoreStep
<1> QED BY <1>1, <1>2 DEF StoreNext

THEOREM StoreInvariant == StoreSpec => []StoreInv
BY StoreInvInit, StoreInvNext, PTL DEF StoreSpec

(* The current version of an object has a row, and a file unless a removal *)
(* took it.                                                                *)
THEOREM CurrentStored == StoreSpec => []CurrentIsStored
<1>1. StoreInv => CurrentIsStored
  BY DEF StoreInv
<1> QED BY <1>1, StoreInvariant, PTL

-----------------------------------------------------------------------------
(* Billing.  A number belongs to one invoice.  While a number is not       *)
(* contested one request at most is paying it, a request about to charge   *)
(* it finds it unpaid, and it is charged once it is paid or being settled. *)
PayingNow(b) == billing[b].pc \in {"charge", "settle"}

PaidNumber(n) == \E i \in DOMAIN invoices : invoices[i].number = n /\ invoices[i].paid

SettledNumber(n) ==
  \E b \in BillingRequests : billing[b].pc = "settle" /\ billing[b].number = n

NumbersUnique ==
  \A i, j \in DOMAIN invoices : invoices[i].number = invoices[j].number => i = j

(* What request b holds is fit for its next write. *)
HoldsBilling(b) ==
  /\ PayingNow(b) => /\ billing[b].row \in DOMAIN invoices
                     /\ billing[b].number = invoices[billing[b].row].number
  /\ billing[b].pc \in {"plan", "insert"} => billing[b].plan \in Plans
  /\ billing[b].pc = "insert" => billing[b].number \in Numbers
  /\ billing[b].pc = "charge" /\ billing[b].number \notin contested =>
       ~PaidNumber(billing[b].number)

OnePayer ==
  \A b, c \in BillingRequests :
    /\ PayingNow(b) /\ PayingNow(c)
    /\ billing[b].number = billing[c].number
    /\ billing[b].number \notin contested
    => b = c

ChargedByNumber ==
  \A n \in Numbers \ contested :
    /\ charged[n] <= 1
    /\ charged[n] = 1 <=> PaidNumber(n) \/ SettledNumber(n)

BillingInv ==
  /\ BillingTypeOK
  /\ NumbersUnique
  /\ \A b \in BillingRequests : HoldsBilling(b)
  /\ OnePayer
  /\ ChargedByNumber

LEMMA NoBillingType ==
  /\ NoBilling \in BillingCall /\ NoBilling.pc = "idle"
BY DEF NoBilling, BillingCall

LEMMA BillingInvInit == BillingInit => BillingInv
<1> SUFFICES ASSUME BillingInit PROVE BillingInv
  OBVIOUS
<1>1. BillingTypeOK
  BY NoBillingType DEF BillingInit, BillingTypeOK
<1>2. NumbersUnique /\ OnePayer /\ \A b \in BillingRequests : HoldsBilling(b)
  BY NoBillingType DEF BillingInit, NumbersUnique, OnePayer, HoldsBilling, PayingNow
<1>3. ChargedByNumber
  BY NoBillingType DEF BillingInit, ChargedByNumber, PaidNumber, SettledNumber
<1> QED BY <1>1, <1>2, <1>3 DEF BillingInv

(* The form of every step that leaves the invoices and the payments alone. *)
LEMMA OffPayment ==
  ASSUME BillingInv, NEW b \in BillingRequests, NEW call \in BillingCall,
         billing' = [billing EXCEPT ![b] = call],
         subscriptions' \in Seq(Subscription),
         UNCHANGED <<invoices, charged, contested>>,
         ~PayingNow(b), call.pc \notin {"charge", "settle"},
         call.pc \in {"plan", "insert"} => call.plan \in Plans,
         call.pc = "insert" => call.number \in Numbers
  PROVE  BillingInv'
<1> USE DEF BillingInv
<1>1. /\ billing'[b] = call
      /\ \A c \in BillingRequests : c # b => billing'[c] = billing[c]
      /\ billing' \in [BillingRequests -> BillingCall]
  BY DEF BillingTypeOK
<1>2. BillingTypeOK'
  BY <1>1 DEF BillingTypeOK
<1>3. NumbersUnique' /\ OnePayer'
  BY <1>1 DEF NumbersUnique, OnePayer, PayingNow
<1>4. \A c \in BillingRequests : HoldsBilling(c)'
  BY <1>1 DEF HoldsBilling, PayingNow, PaidNumber
<1>5. ASSUME NEW n PROVE (PaidNumber(n)' <=> PaidNumber(n)) /\ (SettledNumber(n)' <=> SettledNumber(n))
  BY <1>1 DEF PaidNumber, SettledNumber, PayingNow
<1>6. ChargedByNumber'
  BY <1>5 DEF ChargedByNumber
<1> QED BY <1>2, <1>3, <1>4, <1>6

LEMMA InvoiceIssued ==
  ASSUME BillingInv, NEW b \in BillingRequests, InsertInvoice(b)
  PROVE  BillingInv'
<1> USE DEF BillingInv
<1> DEFINE new == [number |-> billing[b].number, plan |-> billing[b].plan, paid |-> FALSE]
           last == Len(invoices) + 1
<1>1. /\ billing[b].pc = "insert" /\ new \in Invoice
      /\ new.number = billing[b].number /\ ~new.paid
      /\ invoices \in Seq(Invoice) /\ Len(invoices) \in Nat
  BY DEF InsertInvoice, Doing, HoldsBilling, Invoice, BillingTypeOK
<1>2. /\ invoices' = Append(invoices, new)
      /\ billing' = [billing EXCEPT ![b] = NoBilling]
      /\ UNCHANGED <<subscriptions, charged, contested>>
      /\ \A i \in DOMAIN invoices : invoices[i].number # new.number
  BY <1>1 DEF InsertInvoice, Issued
<1> HIDE DEF new
<1>3. /\ invoices' \in Seq(Invoice) /\ DOMAIN invoices = 1 .. Len(invoices)
      /\ DOMAIN invoices' = 1 .. last /\ invoices'[last] = new
      /\ last \in 1 .. last /\ last \notin DOMAIN invoices
      /\ \A i \in DOMAIN invoices : i \in 1 .. last /\ invoices'[i] = invoices[i]
      /\ \A i \in 1 .. last : i = last \/ i \in DOMAIN invoices
  BY <1>1, <1>2
<1> HIDE DEF last
<1>4. /\ billing'[b] = NoBilling
      /\ \A c \in BillingRequests : c # b => billing'[c] = billing[c]
      /\ billing' \in [BillingRequests -> BillingCall]
  BY <1>2, NoBillingType DEF BillingTypeOK
<1>5. ASSUME NEW n PROVE (PaidNumber(n)' <=> PaidNumber(n)) /\ (SettledNumber(n)' <=> SettledNumber(n))
  BY <1>1, <1>3, <1>4, NoBillingType DEF PaidNumber, SettledNumber
<1>6. BillingTypeOK'
  BY <1>2, <1>3, <1>4, NoBillingType DEF BillingTypeOK
<1>7. NumbersUnique'
  BY <1>2, <1>3 DEF NumbersUnique
<1>8. OnePayer'
  BY <1>2, <1>4, NoBillingType DEF OnePayer, PayingNow
<1>9. \A c \in BillingRequests : HoldsBilling(c)'
  BY <1>2, <1>3, <1>4, <1>5, NoBillingType DEF HoldsBilling, PayingNow
<1>10. ChargedByNumber'
  BY <1>2, <1>5 DEF ChargedByNumber
<1> QED BY <1>6, <1>7, <1>8, <1>9, <1>10

LEMMA PaymentLoaded ==
  ASSUME BillingInv, NEW b \in BillingRequests, NEW i \in DOMAIN invoices,
         LoadInvoice(b, i)
  PROVE  BillingInv'
<1> USE DEF BillingInv
<1> DEFINE n    == invoices[i].number
           call == [NoBilling EXCEPT !.pc = "charge", !.row = i, !.number = n]
<1>1. /\ invoices[i] \in Invoice /\ n \in Numbers /\ i \in Nat /\ n \in Nat
      /\ billing[b].pc = "idle" /\ ~invoices[i].paid
  <2>1. invoices[i] \in Invoice /\ i \in Nat
    BY DEF BillingTypeOK
  <2>2. n \in Numbers /\ n \in Nat
    BY <2>1, BillingBoundAssumption DEF Invoice, Numbers
  <2> QED BY <2>1, <2>2 DEF LoadInvoice, Doing
<1>2. /\ billing' = [billing EXCEPT ![b] = call]
      /\ contested' = contested \cup
           {m \in {n} : \E other \in BillingRequests : Paying(other, i)}
      /\ UNCHANGED <<subscriptions, invoices, charged>>
  BY DEF LoadInvoice
<1> HIDE DEF n
<1>3. /\ call \in BillingCall /\ call.pc = "charge" /\ call.row = i /\ call.number = n
  BY <1>1 DEF NoBilling, BillingCall
<1> HIDE DEF call
<1>4. /\ billing'[b] = call
      /\ \A c \in BillingRequests : c # b => billing'[c] = billing[c]
      /\ billing' \in [BillingRequests -> BillingCall]
  BY <1>2, <1>3 DEF BillingTypeOK
<1>5. ~PaidNumber(n)
  BY <1>1 DEF PaidNumber, NumbersUnique, n
<1>6. ASSUME NEW c \in BillingRequests, c # b, PayingNow(c), billing[c].number = n
      PROVE  n \in contested'
  <2>1. Paying(c, i)
    BY <1>6 DEF HoldsBilling, NumbersUnique, Paying, PayingNow, n
  <2> QED BY <1>2, <2>1
<1>7. contested \subseteq contested' /\ contested' \subseteq Numbers
  BY <1>1, <1>2 DEF BillingTypeOK
<1>8. ASSUME NEW m PROVE (PaidNumber(m)' <=> PaidNumber(m)) /\ (SettledNumber(m)' <=> SettledNumber(m))
  BY <1>1, <1>2, <1>3, <1>4 DEF PaidNumber, SettledNumber
<1>9. BillingTypeOK'
  BY <1>2, <1>3, <1>4, <1>7 DEF BillingTypeOK
<1>10. NumbersUnique'
  BY <1>2 DEF NumbersUnique
<1>11. OnePayer'
  BY <1>3, <1>4, <1>6, <1>7 DEF OnePayer, PayingNow
<1>12. ASSUME NEW c \in BillingRequests PROVE HoldsBilling(c)'
  <2>1. CASE c = b
    BY <1>2, <1>3, <1>4, <1>5, <1>8, <2>1 DEF HoldsBilling, PayingNow, n
  <2>2. CASE c # b
    BY <1>2, <1>4, <1>7, <1>8, <2>2 DEF HoldsBilling, PayingNow
  <2> QED BY <2>1, <2>2
<1>13. ChargedByNumber'
  BY <1>2, <1>7, <1>8 DEF ChargedByNumber
<1> QED BY <1>9, <1>10, <1>11, <1>12, <1>13

LEMMA ChargeKeeps ==
  ASSUME BillingInv, NEW b \in BillingRequests, Charge(b)
  PROVE  BillingInv'
<1> USE DEF BillingInv
<1> DEFINE call == [billing[b] EXCEPT !.pc = "settle"]
<1>0. PICK n : n = billing[b].number
  OBVIOUS
<1>1. /\ billing[b].pc = "charge" /\ billing[b] \in BillingCall
      /\ billing[b].row \in DOMAIN invoices
      /\ n = invoices[billing[b].row].number
  BY <1>0 DEF Charge, Doing, HoldsBilling, PayingNow, BillingTypeOK
<1>2. n \in Numbers
  <2>1. invoices[billing[b].row] \in Invoice
    BY <1>1 DEF BillingTypeOK
  <2> QED BY <1>1, <2>1 DEF Invoice
<1>3. /\ call \in BillingCall /\ call.pc = "settle" /\ call.row = billing[b].row
      /\ call.number = n
  BY <1>0, <1>1 DEF BillingCall
<1>4. /\ billing' = [billing EXCEPT ![b] = call]
      /\ charged' = [charged EXCEPT ![n] = charged[n] + 1]
      /\ UNCHANGED <<subscriptions, invoices, contested>>
  BY <1>0 DEF Charge, BillingTypeOK
<1> HIDE DEF call
<1>5. /\ billing'[b] = call
      /\ \A c \in BillingRequests : c # b => billing'[c] = billing[c]
      /\ billing' \in [BillingRequests -> BillingCall]
      /\ charged \in [Numbers -> Nat]
      /\ charged'[n] = charged[n] + 1 /\ charged[n] \in Nat
      /\ \A m \in Numbers : m # n => charged'[m] = charged[m]
      /\ charged' \in [Numbers -> Nat]
  BY <1>2, <1>3, <1>4 DEF BillingTypeOK
<1>6. /\ \A m : PaidNumber(m)' <=> PaidNumber(m)
      /\ \A m : m # n => (SettledNumber(m)' <=> SettledNumber(m))
      /\ SettledNumber(n)'
  BY <1>0, <1>1, <1>3, <1>4, <1>5 DEF PaidNumber, SettledNumber
<1>7. ASSUME n \notin contested PROVE charged[n] = 0
  <2>1. ~PaidNumber(n)
    BY <1>0, <1>1, <1>7 DEF HoldsBilling
  <2>2. ~SettledNumber(n)
    BY <1>0, <1>1, <1>7 DEF OnePayer, PayingNow, SettledNumber
  <2>3. charged[n] <= 1 /\ charged[n] # 1
    BY <1>2, <1>7, <2>1, <2>2 DEF ChargedByNumber
  <2> QED BY <1>5, <2>3
<1>8. BillingTypeOK'
  BY <1>1, <1>3, <1>4, <1>5 DEF BillingTypeOK
<1>9. NumbersUnique' /\ OnePayer'
  BY <1>0, <1>1, <1>3, <1>4, <1>5 DEF NumbersUnique, OnePayer, PayingNow
<1>10. \A c \in BillingRequests : HoldsBilling(c)'
  BY <1>0, <1>1, <1>3, <1>4, <1>5, <1>6 DEF HoldsBilling, PayingNow
<1>11. ASSUME NEW m \in Numbers, m \notin contested
       PROVE  /\ charged'[m] <= 1
              /\ charged'[m] = 1 <=> PaidNumber(m)' \/ SettledNumber(m)'
  <2>1. CASE m = n
    <3>1. charged'[m] = 1
      BY <1>5, <1>7, <1>11, <2>1
    <3>2. SettledNumber(m)'
      BY <1>6, <2>1 DEF SettledNumber
    <3> QED BY <3>1, <3>2
  <2>2. CASE m # n
    BY <1>5, <1>6, <1>11, <2>2 DEF ChargedByNumber
  <2> QED BY <2>1, <2>2
<1>12. ChargedByNumber'
  BY <1>4, <1>11 DEF ChargedByNumber
<1> QED BY <1>8, <1>9, <1>10, <1>12

LEMMA SettleKeeps ==
  ASSUME BillingInv, NEW b \in BillingRequests, Settle(b)
  PROVE  BillingInv'
<1> USE DEF BillingInv
<1>0. PICK n, row : n = billing[b].number /\ row = billing[b].row
  OBVIOUS
<1> DEFINE old == invoices[row]
           new == [old EXCEPT !.paid = TRUE]
<1>1. billing[b].pc = "settle" /\ row \in DOMAIN invoices /\ n = old.number
  BY <1>0 DEF Settle, Doing, HoldsBilling, PayingNow
<1>2. old \in Invoice /\ invoices \in Seq(Invoice)
  BY <1>1 DEF BillingTypeOK
<1>3. /\ invoices' = [invoices EXCEPT ![row] = new]
      /\ billing' = [billing EXCEPT ![b] = NoBilling]
      /\ UNCHANGED <<subscriptions, charged, contested>>
  BY <1>0, <1>1 DEF Settle, BillingTypeOK
<1> HIDE DEF old
<1>4. new \in Invoice /\ new.number = n /\ new.paid
  BY <1>1, <1>2 DEF Invoice
<1> HIDE DEF new
<1>5. /\ invoices' \in Seq(Invoice) /\ DOMAIN invoices' = DOMAIN invoices
      /\ invoices'[row] = new
      /\ \A i \in DOMAIN invoices : i # row => invoices'[i] = invoices[i]
  BY <1>1, <1>2, <1>3, <1>4
<1>6. /\ billing'[b] = NoBilling
      /\ \A c \in BillingRequests : c # b => billing'[c] = billing[c]
      /\ billing' \in [BillingRequests -> BillingCall]
  BY <1>3, NoBillingType DEF BillingTypeOK
<1>7. \A i \in DOMAIN invoices : invoices'[i].number = invoices[i].number
  BY <1>1, <1>4, <1>5 DEF old
<1>8. /\ PaidNumber(n)'
      /\ \A m : m # n => (PaidNumber(m)' <=> PaidNumber(m))
      /\ \A m : m # n => (SettledNumber(m)' <=> SettledNumber(m))
      /\ SettledNumber(n)
  <2>1. PaidNumber(n)'
    <3>1. row \in DOMAIN invoices' /\ invoices'[row].number = n /\ invoices'[row].paid
      BY <1>1, <1>4, <1>5
    <3> QED BY <3>1, Zenon DEF PaidNumber
  <2>4. SettledNumber(n)
    BY <1>0, <1>1 DEF SettledNumber
  <2>2. \A m : m # n => (PaidNumber(m)' <=> PaidNumber(m))
    BY <1>1, <1>4, <1>5 DEF PaidNumber, old
  <2>3. \A m : m # n => (SettledNumber(m)' <=> SettledNumber(m))
    BY <1>0, <1>6, NoBillingType DEF SettledNumber
  <2> QED BY <2>1, <2>2, <2>3, <2>4
<1>9. BillingTypeOK'
  BY <1>3, <1>5, <1>6, NoBillingType DEF BillingTypeOK
<1>10. NumbersUnique' /\ OnePayer'
  BY <1>3, <1>5, <1>6, <1>7, NoBillingType DEF NumbersUnique, OnePayer, PayingNow
<1>11. ASSUME NEW c \in BillingRequests PROVE HoldsBilling(c)'
  <2>1. CASE c = b
    BY <1>6, <2>1, NoBillingType DEF HoldsBilling, PayingNow
  <2>2. CASE c # b
    <3>1. billing'[c] = billing[c] /\ HoldsBilling(c)
      BY <1>6, <2>2
    <3>2. PayingNow(c) /\ billing[c].number \notin contested => billing[c].number # n
      BY <1>0, <1>1, <2>2 DEF OnePayer, PayingNow
    <3> QED BY <1>3, <1>5, <1>7, <1>8, <3>1, <3>2 DEF HoldsBilling, PayingNow
  <2> QED BY <2>1, <2>2
<1>12. ASSUME NEW m \in Numbers, m \notin contested
       PROVE  /\ charged[m] <= 1
              /\ charged[m] = 1 <=> PaidNumber(m)' \/ SettledNumber(m)'
  <2>1. charged[m] <= 1 /\ (charged[m] = 1 <=> PaidNumber(m) \/ SettledNumber(m))
    BY <1>12 DEF ChargedByNumber
  <2>2. CASE m = n
    <3>1. PaidNumber(m)'
      BY <1>8, <2>2 DEF PaidNumber
    <3>2. SettledNumber(m)
      BY <1>8, <2>2 DEF SettledNumber
    <3> QED BY <2>1, <3>1, <3>2
  <2>3. CASE m # n
    BY <1>8, <2>1, <2>3
  <2> QED BY <2>2, <2>3
<1>13. ChargedByNumber'
  BY <1>3, <1>12 DEF ChargedByNumber
<1> QED BY <1>9, <1>10, <1>11, <1>13

LEMMA AbandonBillingKeeps ==
  ASSUME BillingInv, NEW b \in BillingRequests, AbandonBilling(b)
  PROVE  BillingInv'
<1> USE DEF BillingInv
<1> DEFINE n == billing[b].number
<1>1. /\ billing' = [billing EXCEPT ![b] = NoBilling]
      /\ contested' = contested \cup {m \in {n} : billing[b].pc = "settle"}
      /\ UNCHANGED <<subscriptions, invoices, charged>>
  BY DEF AbandonBilling, Doing
<1>2. billing[b].pc = "settle" => n \in Numbers
  <2>1. billing[b].pc = "settle" => invoices[billing[b].row] \in Invoice
    BY DEF BillingTypeOK
  <2> QED BY <2>1 DEF HoldsBilling, PayingNow, Invoice
<1>3. /\ billing'[b] = NoBilling
      /\ \A c \in BillingRequests : c # b => billing'[c] = billing[c]
      /\ billing' \in [BillingRequests -> BillingCall]
  BY <1>1, NoBillingType DEF BillingTypeOK
<1>4. /\ contested \subseteq contested' /\ contested' \subseteq Numbers
      /\ billing[b].pc = "settle" => n \in contested'
  BY <1>1, <1>2 DEF BillingTypeOK
<1>5. /\ \A m : PaidNumber(m)' <=> PaidNumber(m)
      /\ \A m : m \notin contested' => (SettledNumber(m)' <=> SettledNumber(m))
  BY <1>1, <1>3, <1>4, NoBillingType DEF PaidNumber, SettledNumber
<1>6. BillingTypeOK'
  BY <1>1, <1>3, <1>4, NoBillingType DEF BillingTypeOK
<1>7. NumbersUnique' /\ OnePayer'
  BY <1>1, <1>3, <1>4, NoBillingType DEF NumbersUnique, OnePayer, PayingNow
<1>8. \A c \in BillingRequests : HoldsBilling(c)'
  BY <1>1, <1>3, <1>4, <1>5, NoBillingType DEF HoldsBilling, PayingNow
<1>9. ChargedByNumber'
  BY <1>1, <1>4, <1>5 DEF ChargedByNumber
<1> QED BY <1>6, <1>7, <1>8, <1>9

(* The changes of one row leave a table of subscriptions. *)
LEMMA PlanChanged ==
  ASSUME NEW subs \in Seq(Subscription), NEW row, NEW plan \in Plans
  PROVE  [subs EXCEPT ![row].plan = plan, ![row].status = "active"] \in Seq(Subscription)
<1> DEFINE old == subs[row]
           new == [old EXCEPT !.plan = plan, !.status = "active"]
<1>1. CASE row \in 1 .. Len(subs)
  <2>1. old \in Subscription
    BY <1>1
  <2>2. [subs EXCEPT ![row].plan = plan, ![row].status = "active"] = [subs EXCEPT ![row] = new]
    BY <1>1
  <2> HIDE DEF old
  <2>3. new \in Subscription
    BY <2>1 DEF Subscription
  <2> HIDE DEF new
  <2>4. [subs EXCEPT ![row] = new] \in Seq(Subscription)
    BY <1>1, <2>3
  <2> QED BY <2>2, <2>4
<1>2. CASE row \notin 1 .. Len(subs)
  <2>1. [subs EXCEPT ![row].plan = plan, ![row].status = "active"] = subs
    BY <1>2
  <2> QED BY <2>1
<1> QED BY <1>1, <1>2

LEMMA SubscriptionEnded ==
  ASSUME NEW subs \in Seq(Subscription), NEW row
  PROVE  [subs EXCEPT ![row].ending = TRUE] \in Seq(Subscription)
<1> DEFINE old == subs[row]
           new == [old EXCEPT !.ending = TRUE]
<1>1. CASE row \in 1 .. Len(subs)
  <2>1. old \in Subscription
    BY <1>1
  <2> HIDE DEF old
  <2>2. new \in Subscription
    BY <2>1 DEF Subscription
  <2>3. [subs EXCEPT ![row].ending = TRUE] = [subs EXCEPT ![row] = new]
    BY DEF old
  <2> HIDE DEF new
  <2>4. [subs EXCEPT ![row] = new] \in Seq(Subscription)
    BY <1>1, <2>2
  <2> QED BY <2>3, <2>4
<1>2. CASE row \notin 1 .. Len(subs)
  <2>1. [subs EXCEPT ![row].ending = TRUE] = subs
    BY <1>2
  <2> QED BY <2>1
<1> QED BY <1>1, <1>2

LEMMA BillingStepKeeps ==
  ASSUME BillingInv, NEW b \in BillingRequests, BillingStep(b)
  PROVE  BillingInv'
<1> USE DEF BillingInv
<1>1. /\ subscriptions \in Seq(Subscription) /\ Len(subscriptions) \in Nat
      /\ billing[b] \in BillingCall
  BY DEF BillingTypeOK
<1>2. ASSUME NEW plan \in Plans, LoadPlan(b, plan) PROVE BillingInv'
  <2> DEFINE call == [NoBilling EXCEPT !.pc = "plan", !.plan = plan, !.row = ActiveSubscription]
  <2>1. /\ call \in BillingCall /\ call.pc = "plan" /\ call.plan \in Plans
    BY <1>1 DEF NoBilling, BillingCall, ActiveSubscription
  <2>2. /\ billing' = [billing EXCEPT ![b] = call] /\ ~PayingNow(b)
        /\ UNCHANGED <<subscriptions, invoices, charged, contested>>
    BY <1>2 DEF LoadPlan, Doing, PayingNow
  <2> HIDE DEF call
  <2> QED BY <1>1, <2>1, <2>2, OffPayment
<1>3. CASE CreateSubscription(b)
  <2>1. subscriptions' \in Seq(Subscription)
    <3>1. PICK status \in {"trialing", "active"} :
            subscriptions' = Append(subscriptions,
              [plan |-> billing[b].plan, status |-> status, ending |-> FALSE])
      BY <1>3 DEF CreateSubscription
    <3>2. billing[b].plan \in Plans
      BY <1>3 DEF CreateSubscription, Doing, HoldsBilling
    <3> QED BY <1>1, <3>1, <3>2 DEF Subscription
  <2>2. /\ billing' = [billing EXCEPT ![b] = NoBilling] /\ ~PayingNow(b)
        /\ UNCHANGED <<invoices, charged, contested>>
    BY <1>3 DEF CreateSubscription, Doing, PayingNow
  <2> QED BY <2>1, <2>2, NoBillingType, OffPayment
<1>4. CASE ChangePlan(b) \/ CancelSubscription(b)
  <2>1. subscriptions' \in Seq(Subscription)
    <3>1. CASE ChangePlan(b)
      <4>1. billing[b].plan \in Plans
        BY <3>1 DEF ChangePlan, Doing, HoldsBilling
      <4> QED BY <1>1, <3>1, <4>1, PlanChanged DEF ChangePlan
    <3>2. CASE CancelSubscription(b)
      BY <1>1, <3>2, SubscriptionEnded DEF CancelSubscription
    <3> QED BY <1>4, <3>1, <3>2
  <2>2. /\ billing' = [billing EXCEPT ![b] = NoBilling] /\ ~PayingNow(b)
        /\ UNCHANGED <<invoices, charged, contested>>
    BY <1>4 DEF ChangePlan, CancelSubscription, Doing, PayingNow
  <2> QED BY <2>1, <2>2, NoBillingType, OffPayment
<1>5. CASE LoadCancel(b)
  <2> DEFINE call == [NoBilling EXCEPT !.pc = "cancel", !.row = ActiveSubscription]
  <2>1. call \in BillingCall /\ call.pc = "cancel"
    BY <1>1 DEF NoBilling, BillingCall, ActiveSubscription
  <2>2. /\ billing' = [billing EXCEPT ![b] = call] /\ ~PayingNow(b)
        /\ UNCHANGED <<subscriptions, invoices, charged, contested>>
    BY <1>5 DEF LoadCancel, Doing, PayingNow
  <2> HIDE DEF call
  <2> QED BY <1>1, <2>1, <2>2, OffPayment
<1>6. CASE LoadNumber(b)
  <2> DEFINE plan == subscriptions[ActiveSubscription].plan
             call == [NoBilling EXCEPT !.pc = "insert", !.row = ActiveSubscription,
                                       !.plan = plan, !.number = NextInvoiceNumber]
  <2>1. /\ plan \in Plans /\ NextInvoiceNumber \in Numbers /\ NextInvoiceNumber \in Nat
        /\ ActiveSubscription \in Nat
    <3>1. ActiveSubscription \in 1 .. Len(subscriptions)
      BY <1>1, <1>6 DEF LoadNumber, ActiveSubscription
    <3>2. subscriptions[ActiveSubscription] \in Subscription
      BY <1>1, <3>1, RowsTyped
    <3>3. NextInvoiceNumber \in Numbers /\ NextInvoiceNumber \in Nat
      BY <1>6, BillingBoundAssumption DEF LoadNumber, Numbers
    <3> QED BY <3>1, <3>2, <3>3 DEF Subscription
  <2> HIDE DEF plan
  <2>2. /\ call \in BillingCall /\ call.pc = "insert" /\ call.plan \in Plans
        /\ call.number \in Numbers
    BY <2>1 DEF NoBilling, BillingCall
  <2>3. /\ billing' = [billing EXCEPT ![b] = call] /\ ~PayingNow(b)
        /\ UNCHANGED <<subscriptions, invoices, charged, contested>>
    BY <1>6 DEF LoadNumber, Doing, PayingNow, plan
  <2> HIDE DEF call
  <2> QED BY <1>1, <2>2, <2>3, OffPayment
<1> QED
  BY <1>2, <1>3, <1>4, <1>5, <1>6, InvoiceIssued, PaymentLoaded, ChargeKeeps, SettleKeeps,
     AbandonBillingKeeps DEF BillingStep

LEMMA BillingInvNext == BillingInv /\ [BillingNext]_billingVars => BillingInv'
<1> SUFFICES ASSUME BillingInv, [BillingNext]_billingVars PROVE BillingInv'
  OBVIOUS
<1>1. CASE UNCHANGED billingVars
  BY <1>1 DEF billingVars, BillingInv, BillingTypeOK, NumbersUnique, HoldsBilling,
              PayingNow, PaidNumber, SettledNumber, OnePayer, ChargedByNumber
<1>2. CASE BillingNext
  BY <1>2, BillingStepKeeps DEF BillingNext
<1> QED BY <1>1, <1>2

THEOREM BillingInvariant == BillingSpec => []BillingInv
BY BillingInvInit, BillingInvNext, PTL DEF BillingSpec

(* A number that is not contested is charged once, and booked on the one   *)
(* invoice that has it.                                                    *)
THEOREM ChargesOnce == BillingSpec => []ChargedOnce
<1>1. BillingInv => ChargedOnce
  <2> SUFFICES ASSUME BillingInv, NEW n \in Numbers \ contested
               PROVE  /\ charged[n] <= 1
                      /\ charged[n] = 1 <=> \E i \in DOMAIN invoices :
                           /\ invoices[i].number = n
                           /\ invoices[i].paid \/ \E b \in BillingRequests :
                                                   Paying(b, i) /\ Doing(b, "settle")
    BY DEF ChargedOnce
  <2>1. charged[n] <= 1 /\ (charged[n] = 1 <=> PaidNumber(n) \/ SettledNumber(n))
    BY DEF BillingInv, ChargedByNumber
  <2>2. SettledNumber(n) <=>
          \E i \in DOMAIN invoices : /\ invoices[i].number = n
                                    /\ \E b \in BillingRequests :
                                         Paying(b, i) /\ Doing(b, "settle")
    BY DEF BillingInv, HoldsBilling, PayingNow, SettledNumber, Paying, Doing
  <2> QED BY <2>1, <2>2 DEF PaidNumber
<1> QED BY <1>1, BillingInvariant, PTL

-----------------------------------------------------------------------------
(* The composition.  A step of one service leaves the tables of the others *)
(* alone, so the composition implements the specification of each.         *)
LEMMA PlatformParts ==
  PlatformSpec => /\ Spec /\ SyncSpec /\ ImportsSpec
                  /\ BillingSpec /\ StoreSpec /\ RiskSpec
<1>1. PlatformInit => /\ Init /\ SyncInit /\ ImportsInit
                      /\ BillingInit /\ StoreInit /\ RiskInit
  BY DEF PlatformInit
<1>2. [PlatformNext]_platform =>
        /\ [Next]_vars /\ [SyncNext]_syncVars /\ [ImportsNext]_importVars
        /\ [BillingNext]_billingVars /\ [StoreNext]_storeVars /\ [RiskNext]_riskVars
  <2>1. ASSUME PlatformNext
        PROVE  /\ [Next]_vars /\ [SyncNext]_syncVars /\ [ImportsNext]_importVars
               /\ [BillingNext]_billingVars /\ [StoreNext]_storeVars /\ [RiskNext]_riskVars
    BY <2>1, Zenon DEF PlatformNext
  <2>2. ASSUME UNCHANGED platform
        PROVE  UNCHANGED <<vars, syncVars, importVars, billingVars, storeVars, riskVars>>
    BY <2>2 DEF platform
  <2> QED BY <2>1, <2>2
<1> QED BY <1>1, <1>2, PTL
        DEF PlatformSpec, Spec, SyncSpec, ImportsSpec, BillingSpec, StoreSpec, RiskSpec

(* Every row and every request of the six services keeps its type, for     *)
(* every number of workers, requests and rows.                             *)
THEOREM PlatformTyped == PlatformSpec => []PlatformTypeOK
<1>1. /\ ImportsInv => ImportsTypeOK
      /\ BillingInv => BillingTypeOK
      /\ StoreInv => StoreTypeOK
      /\ RiskInv => RiskTypeOK
  BY DEF ImportsInv, BillingInv, StoreInv, RiskInv
<1> QED BY <1>1, PlatformParts, TypeCorrect, SyncTyped, ImportsInvariant, BillingInvariant,
           StoreInvariant, RiskInvariant, PTL DEF PlatformTypeOK

(* The safety of the services that hold whoever overlaps with whom, of the *)
(* composition that is model-checked.                                      *)
THEOREM PlatformSafe ==
  PlatformSpec => [](/\ NewestIsServed /\ FinishedIsAccounted /\ ConfirmedIsBooked
                     /\ ChargedOnce /\ CurrentIsStored /\ AnswersFitBreach)
BY PlatformParts, NewestServed, FinishedAccounted, ImportsBooked, ChargesOnce,
   CurrentStored, AnswersFit, PTL
=============================================================================
