------------------------ MODULE ModelRegistryProofs ------------------------
(***************************************************************************)
(* Proofs about ModelRegistry, for any number of models and requests:      *)
(* nothing unapproved reaches production; a key has one production model   *)
(* while switches do not overlap, and none only in the middle of one; the  *)
(* newest version is current and has its own file while registrations do   *)
(* not overlap.                                                            *)
(***************************************************************************)
EXTENDS ModelRegistry, TLAPS

(* The rows a request works on: a switch promotes an approved model, and   *)
(* the models it names for a rollback have been in production.             *)
RequestOK(r) ==
  /\ rq[r].pc \in Register => rq[r].version > 0
  /\ rq[r].pc # "idle" /\ rq[r].pc # "target" => rq[r].model \in Models
  /\ rq[r].pc \in Review \cup (Switch \ {"target"}) => Registered(rq[r].model)
  /\ rq[r].pc \in Switch \ {"target"} => rq[r].model \in approved
  /\ rq[r].pc \in {"archive", "demote"} => rq[r].other \in Models
  /\ rq[r].other # None => rq[r].other \in approved /\ Registered(rq[r].other)

RequestInv == \A r \in Requests : RequestOK(r)

ApprovedInv ==
  /\ \A m \in Models : approval[m] = "approved" => m \in approved
  /\ ProductionWasApproved

(* Who may be in production at each point of a switch. *)
SwitchOK(r) ==
  /\ rq[r].pc \in {"archive", "target", "demote"} => Serving \subseteq {rq[r].other}
  /\ rq[r].pc \in {"reload", "install", "restore"} => Serving \subseteq {rq[r].model}

SwitchInv ==
  Switch \notin races =>
    /\ \A q, r \in Requests : rq[q].pc \in Switch /\ rq[r].pc \in Switch => q = r
    /\ OneProduction
    /\ \A r \in Requests : SwitchOK(r)

IInv == TypeOK /\ RequestInv /\ ApprovedInv /\ SwitchInv

-----------------------------------------------------------------------------
(* Whatever number register_model takes, it is positive. *)
LEMMA NextVersionPositive ==
  ASSUME TypeOK, NEW r \in Requests, NEW m \in Models, RegisterVersion(r, m)
  PROVE  \E next \in Nat \ {0} :
           Begin(r, Register, [Idle EXCEPT !.pc = "register", !.model = m, !.version = next])
<1> DEFINE all  == {n \in Models : Registered(n)}
           nums == IF all = {} THEN {1} ELSE {version[n] + 1 : n \in Newest(all)}
<1>1. nums \subseteq Nat \ {0}
  <2>1. Newest(all) \subseteq Models
    BY DEF Newest
  <2>2. \A n \in Newest(all) : version[n] + 1 \in Nat \ {0}
    BY <2>1 DEF TypeOK
  <2> HIDE DEF all
  <2> QED
    BY <2>2
<1>2. \E next \in nums :
        Begin(r, Register, [Idle EXCEPT !.pc = "register", !.model = m, !.version = next])
  BY DEF RegisterVersion
<1> QED
  BY <1>1, <1>2

(* The initial state satisfies the invariant. *)
LEMMA InitInv == Init => IInv
<1> SUFFICES ASSUME Init PROVE IInv
  OBVIOUS
<1>1. Idle \in Request
  BY DEF Idle, Request, ProductionStatus
<1>2. TypeOK
  BY <1>1 DEF Init, TypeOK, Registered, ApprovalStatus, ProductionStatus
<1>3. RequestInv
  BY DEF Init, RequestInv, RequestOK, Idle, Register, Review, Switch
<1>4. ApprovedInv
  BY DEF Init, ApprovedInv, ProductionWasApproved
<1>5. SwitchInv
  BY DEF Init, SwitchInv, SwitchOK, OneProduction, Serving, Idle, Switch
<1> QED
  BY <1>2, <1>3, <1>4, <1>5 DEF IInv

(* Every step of a request keeps the types: what it loads and what it      *)
(* writes are statuses and rows.                                           *)
LEMMA TypeStep ==
  ASSUME TypeOK, RequestInv, NEW r \in Requests,
         RegisterStep(r) \/ ReviewStep(r) \/ PromoteStep(r) \/ RollbackStep(r) \/ Abandon(r)
  PROVE  TypeOK'
<1> USE DEF TypeOK, RequestInv, RequestOK, Registered
<1>0. Idle \in Request
  BY DEF Idle, Request, ProductionStatus
<1>1. ASSUME NEW m \in Models, RegisterVersion(r, m) PROVE TypeOK'
  <2>1. PICK next \in Nat \ {0} :
          Begin(r, Register, [Idle EXCEPT !.pc = "register", !.model = m, !.version = next])
    BY <1>1, NextVersionPositive
  <2>2. [Idle EXCEPT !.pc = "register", !.model = m, !.version = next] \in Request
    BY DEF Idle, Request, Register, ProductionStatus
  <2>3. rq' \in [Requests -> Request] /\ races' \subseteq {Register, Review, Switch}
    BY <2>1, <2>2 DEF Begin
  <2> QED
    BY <1>1, <2>3 DEF RegisterVersion, rows
<1>2. ASSUME SaveArtifact(r) PROVE TypeOK'
  <2>1. rq[r] \in Request /\ rq[r].model \in Models
    BY <1>2 DEF SaveArtifact, At
  <2>2. [rq[r] EXCEPT !.pc = "insert", !.prior = current] \in Request
    BY <2>1 DEF Request, Register
  <2>3. rq' = [rq EXCEPT ![r] = [rq[r] EXCEPT !.pc = "insert", !.prior = current]]
    BY <1>2 DEF SaveArtifact
  <2>4. rq' \in [Requests -> Request]
    BY <2>2, <2>3
  <2>5. artifact' \subseteq Nat \X Models
    BY <1>2, <2>1 DEF SaveArtifact, Request
  <2> QED
    BY <1>2, <2>4, <2>5 DEF SaveArtifact, history
<1>3. ASSUME InsertModel(r) PROVE TypeOK'
  <2>1. rq[r] \in Request /\ rq[r].model \in Models /\ rq[r].version \in Nat
        /\ rq[r].version > 0 /\ rq[r].prior \subseteq Models
    BY <1>3 DEF InsertModel, At, Request, Register
  <2> QED
    BY <1>0, <1>3, <2>1 DEF InsertModel, Done, history
<1>4. ASSUME NEW a \in Review, NEW m \in Models, LoadReview(r, a, m) PROVE TypeOK'
  <2>1. [Idle EXCEPT !.pc = a, !.model = m, !.seen = production[m]] \in Request
    BY DEF Idle, Request
  <2> QED
    BY <1>4, <2>1 DEF LoadReview, Begin, rows
<1>5. ASSUME CommitReview(r) PROVE TypeOK'
  <2>1. rq[r].pc \in Review /\ rq[r].model \in Models /\ version[rq[r].model] > 0
    BY <1>5 DEF CommitReview, Review
  <2>2. Outcome[rq[r].pc] \in ApprovalStatus
    BY <2>1 DEF Outcome, Review, ApprovalStatus
  <2>3. approval' \in [Models -> ApprovalStatus]
        /\ \A m \in Models : m # rq[r].model => approval'[m] = approval[m]
    BY <1>5, <2>1, <2>2 DEF CommitReview
  <2>4. production' \in [Models -> ProductionStatus]
        /\ \A m \in Models : m # rq[r].model => production'[m] = production[m]
    BY <1>5, <2>1 DEF CommitReview, ProductionStatus
  <2>5. approved' \subseteq Models /\ lastArchived' \in Models \cup {None}
    BY <1>5, <2>1 DEF CommitReview
  <2>6. rq' \in [Requests -> Request]
    BY <1>0, <1>5 DEF CommitReview, Done
  <2> QED
    BY <1>5, <2>1, <2>3, <2>4, <2>5, <2>6 DEF CommitReview
<1>6. ASSUME NEW m \in Models, LoadPromote(r, m) PROVE TypeOK'
  <2>1. [Idle EXCEPT !.pc = "incumbent", !.model = m, !.seen = production[m]] \in Request
    BY DEF Idle, Request, Switch
  <2> QED
    BY <1>6, <2>1 DEF LoadPromote, Begin, rows
<1>7. ASSUME ReadIncumbent(r) PROVE TypeOK'
  <2>1. \A n \in Models : [rq[r] EXCEPT !.pc = "archive", !.other = n] \in Request
    BY DEF Request, Switch
  <2>2. [rq[r] EXCEPT !.pc = "install"] \in Request
    BY DEF Request, Switch
  <2>3. rq' \in [Requests -> Request]
    BY <1>7, <2>1, <2>2 DEF ReadIncumbent, Goto, Newest, Serving
  <2> QED
    BY <1>7, <2>3 DEF ReadIncumbent, rows, history
<1>8. ASSUME ArchiveIncumbent(r) PROVE TypeOK'
  <2>1. rq[r].other \in Models /\ version[rq[r].other] > 0
    BY <1>8, NoneAssumption DEF ArchiveIncumbent, At
  <2>2. [rq[r] EXCEPT !.pc = "reload"] \in Request
    BY DEF Request, Switch
  <2> QED
    BY <1>8, <2>1, <2>2 DEF ArchiveIncumbent, Goto, ProductionStatus
<1>9. ASSUME Reload(r) PROVE TypeOK'
  <2>1. rq[r].model \in Models
    BY <1>9 DEF Reload, At
  <2>2. [rq[r] EXCEPT !.pc = "install", !.seen = production[rq[r].model]] \in Request
    BY <2>1 DEF Request, Switch
  <2> QED
    BY <1>9, <2>2 DEF Reload, rows, history
<1>10. ASSUME Install(r) \/ Restore(r) PROVE TypeOK'
  <2>1. rq[r].model \in Models /\ version[rq[r].model] > 0
    BY <1>10 DEF Install, Restore, At, Switch
  <2>2. rq' \in [Requests -> Request]
    BY <1>0, <1>10 DEF Install, Restore, Done
  <2> QED
    BY <1>10, <2>1, <2>2 DEF Install, Restore, TakeOver, ProductionStatus
<1>11. ASSUME ReadCurrent(r) PROVE TypeOK'
  <2>1. \A n \in Models \cup {None} : [Idle EXCEPT !.pc = "target", !.other = n] \in Request
    BY DEF Idle, Request, Switch, ProductionStatus
  <2>2. PICK n \in Models \cup {None} :
          Begin(r, Switch, [Idle EXCEPT !.pc = "target", !.other = n])
    BY <1>11 DEF ReadCurrent, Newest, Serving
  <2> QED
    BY <1>11, <2>1, <2>2 DEF ReadCurrent, Begin, rows
<1>12. ASSUME ReadTarget(r) PROVE TypeOK'
  <2>1. \A n \in Models, c \in {"restore", "demote"} :
          [rq[r] EXCEPT !.pc = c, !.model = n] \in Request
    BY DEF Request, Switch
  <2>2. CASE Done(r)
    BY <1>0, <1>12, <2>2 DEF ReadTarget, Done, rows, history
  <2>3. CASE ~Done(r)
    <3>1. PICK n \in Models :
            rq' = [rq EXCEPT ![r].pc = IF rq[r].other = None THEN "restore" ELSE "demote",
                             ![r].model = n]
      BY <1>12, <2>3 DEF ReadTarget, Newest
    <3>2. PICK c \in {"restore", "demote"} : rq' = [rq EXCEPT ![r].pc = c, ![r].model = n]
      BY <3>1
    <3>3. [rq[r] EXCEPT !.pc = c, !.model = n] \in Request
      BY <2>1
    <3>4. rq' \in [Requests -> Request]
      BY <3>2, <3>3
    <3> QED
      BY <1>12, <3>4 DEF ReadTarget, rows, history
  <2> QED
    BY <2>2, <2>3
<1>13. ASSUME Demote(r) PROVE TypeOK'
  <2>1. rq[r].other \in Models /\ version[rq[r].other] > 0
    BY <1>13, NoneAssumption DEF Demote, At
  <2>2. [rq[r] EXCEPT !.pc = "restore"] \in Request
    BY DEF Request, Switch
  <2> QED
    BY <1>13, <2>1, <2>2 DEF Demote, Goto, ProductionStatus
<1>14. ASSUME Abandon(r) PROVE TypeOK'
  BY <1>0, <1>14 DEF Abandon, Done, rows, BetweenCommits
<1> QED
  BY <1>1, <1>2, <1>3, <1>4, <1>5, <1>6, <1>7, <1>8, <1>9, <1>10, <1>11, <1>12, <1>13, <1>14
  DEF RegisterStep, ReviewStep, PromoteStep, RollbackStep

(* Rows stay, and an approval once given stays on record.                  *)
LEMMA RecordsStay ==
  ASSUME TypeOK, RequestInv, NEW r \in Requests,
         RegisterStep(r) \/ ReviewStep(r) \/ PromoteStep(r) \/ RollbackStep(r) \/ Abandon(r)
  PROVE  /\ \A m \in Models : Registered(m) => Registered(m)'
         /\ approved \subseteq approved'
         /\ \A q \in Requests : q # r => rq'[q] = rq[q]
<1>1. \A q \in Requests : q # r => rq'[q] = rq[q]
  <2>1. CASE RegisterStep(r)
    BY <2>1 DEF TypeOK, RegisterStep, RegisterVersion, SaveArtifact, InsertModel, Begin, Done
  <2>2. CASE ReviewStep(r)
    BY <2>2 DEF TypeOK, ReviewStep, LoadReview, CommitReview, Begin, Done
  <2>3. CASE PromoteStep(r)
    BY <2>3 DEF TypeOK, PromoteStep, LoadPromote, ReadIncumbent, ArchiveIncumbent, Reload,
                Install, Begin, Goto, Done
  <2>4. CASE RollbackStep(r)
    BY <2>4 DEF TypeOK, RollbackStep, ReadCurrent, ReadTarget, Demote, Restore, Begin, Goto, Done
  <2>5. CASE Abandon(r)
    BY <2>5 DEF TypeOK, Abandon, Done
  <2> QED
    BY <2>1, <2>2, <2>3, <2>4, <2>5
<1>2. approved \subseteq approved'
  BY DEF RegisterStep, RegisterVersion, SaveArtifact, InsertModel, ReviewStep, LoadReview,
         CommitReview, PromoteStep, LoadPromote, ReadIncumbent, ArchiveIncumbent, Reload,
         Install, RollbackStep, ReadCurrent, ReadTarget, Demote, Restore, Abandon, history
<1>3. \A m \in Models : Registered(m) => Registered(m)'
  <2>1. CASE InsertModel(r)
    <3>1. rq[r].version > 0
      BY <2>1 DEF InsertModel, At, RequestInv, RequestOK, Register
    <3> QED
      BY <2>1, <3>1 DEF InsertModel, TypeOK, Registered
  <2>2. CASE version' = version
    BY <2>2 DEF Registered
  <2>3. InsertModel(r) \/ version' = version
    BY DEF RegisterStep, RegisterVersion, SaveArtifact, ReviewStep, LoadReview,
           CommitReview, PromoteStep, LoadPromote, ReadIncumbent, ArchiveIncumbent, Reload,
           Install, RollbackStep, ReadCurrent, ReadTarget, Demote, Restore, Abandon, rows
  <2> QED
    BY <2>1, <2>2, <2>3
<1> QED
  BY <1>1, <1>2, <1>3

(* Only an approved row is staged, archived or in production.              *)
LEMMA ServedIsApproved ==
  ASSUME TypeOK, ApprovedInv, NEW m \in Models, production[m] # "none"
  PROVE  m \in approved /\ Registered(m)
BY DEF TypeOK, ApprovedInv, ProductionWasApproved

(* Every step keeps the rows a request works on as its operation needs     *)
(* them.                                                                   *)
LEMMA RequestStep ==
  ASSUME TypeOK, RequestInv, ApprovedInv, NEW r \in Requests,
         RegisterStep(r) \/ ReviewStep(r) \/ PromoteStep(r) \/ RollbackStep(r) \/ Abandon(r)
  PROVE  RequestInv'
<1> USE DEF Register, Review, Switch
<1>a. /\ \A m \in Models : Registered(m) => Registered(m)'
      /\ approved \subseteq approved'
      /\ \A q \in Requests : q # r => rq'[q] = rq[q]
  BY RecordsStay
<1>b. RequestOK(r) /\ rq \in [Requests -> Request]
  BY DEF RequestInv, TypeOK
<1>c. SUFFICES RequestOK(r)'
  <2> SUFFICES ASSUME NEW q \in Requests, q # r PROVE RequestOK(q)'
    BY DEF RequestInv
  <2>1. rq'[q] = rq[q] /\ RequestOK(q)
    BY <1>a DEF RequestInv
  <2>2. rq[q].other \in Models \cup {None}
    BY DEF TypeOK, Request
  <2> QED
    BY <1>a, <2>1, <2>2 DEF RequestOK
<1>1. ASSUME NEW m \in Models, RegisterVersion(r, m) PROVE RequestOK(r)'
  <2>1. PICK next \in Nat \ {0} :
          Begin(r, Register, [Idle EXCEPT !.pc = "register", !.model = m, !.version = next])
    BY <1>1, NextVersionPositive
  <2>2. rq'[r] = [Idle EXCEPT !.pc = "register", !.model = m, !.version = next]
    BY <1>b, <2>1 DEF Begin
  <2> QED
    BY <2>2 DEF RequestOK, Idle
<1>2. ASSUME SaveArtifact(r) PROVE RequestOK(r)'
  <2>1. rq'[r] = [rq[r] EXCEPT !.pc = "insert", !.prior = current] /\ rq[r].pc = "register"
    BY <1>b, <1>2 DEF SaveArtifact, At
  <2>2. rq[r] \in Request
    BY <1>b
  <2>3. /\ rq'[r].pc = "insert" /\ rq'[r].version = rq[r].version
        /\ rq'[r].model = rq[r].model /\ rq'[r].other = rq[r].other
    BY <2>1, <2>2 DEF Request
  <2> QED
    BY <1>a, <1>b, <2>1, <2>2, <2>3 DEF RequestOK, Request
<1>3. ASSUME Done(r) PROVE RequestOK(r)'
  <2>1. rq'[r] = Idle
    BY <1>b, <1>3 DEF Done
  <2> QED
    BY <2>1 DEF RequestOK, Idle
<1>4. ASSUME NEW a \in Review, NEW m \in Models, LoadReview(r, a, m) PROVE RequestOK(r)'
  <2>1. rq'[r] = [Idle EXCEPT !.pc = a, !.model = m, !.seen = production[m]] /\ Registered(m)
    BY <1>b, <1>4 DEF LoadReview, Begin
  <2> QED
    BY <1>a, <2>1 DEF RequestOK, Idle
<1>5. ASSUME NEW m \in Models, LoadPromote(r, m) PROVE RequestOK(r)'
  <2>1. rq'[r] = [Idle EXCEPT !.pc = "incumbent", !.model = m, !.seen = production[m]]
    BY <1>b, <1>5 DEF LoadPromote, Begin
  <2>2. Registered(m) /\ m \in approved
    BY <1>5 DEF LoadPromote, ApprovedInv
  <2> QED
    BY <1>a, <2>1, <2>2 DEF RequestOK, Idle
<1>6. ASSUME ReadIncumbent(r) PROVE RequestOK(r)'
  <2>1. rq[r].pc = "incumbent" /\ rq[r] \in Request
    BY <1>b, <1>6 DEF ReadIncumbent, At
  <2>2. CASE Goto(r, "install")
    <3>1. rq'[r] = [rq[r] EXCEPT !.pc = "install"]
      BY <1>b, <2>2 DEF Goto
    <3> QED
      BY <1>a, <1>b, <2>1, <3>1 DEF RequestOK, Request
  <2>3. ASSUME NEW n \in Newest(Serving),
               rq' = [rq EXCEPT ![r].pc = "archive", ![r].other = n]
        PROVE  RequestOK(r)'
    <3>1. rq'[r] = [rq[r] EXCEPT !.pc = "archive", !.other = n]
      BY <1>b, <2>3
    <3>2. n \in Models /\ n \in approved /\ Registered(n)
      BY ServedIsApproved DEF Newest, Serving
    <3> QED
      BY <1>a, <1>b, <2>1, <3>1, <3>2 DEF RequestOK, Request
  <2> QED
    BY <1>6, <2>2, <2>3 DEF ReadIncumbent
<1>7. ASSUME ArchiveIncumbent(r) \/ Demote(r) PROVE RequestOK(r)'
  <2>1. rq[r].pc \in {"archive", "demote"} /\ rq[r] \in Request
    BY <1>b, <1>7 DEF ArchiveIncumbent, Demote, At
  <2>2. PICK c \in {"reload", "restore"} : rq'[r] = [rq[r] EXCEPT !.pc = c]
    BY <1>b, <1>7 DEF ArchiveIncumbent, Demote, Goto
  <2> QED
    BY <1>a, <1>b, <2>1, <2>2 DEF RequestOK, Request
<1>8. ASSUME Reload(r) PROVE RequestOK(r)'
  <2>1. rq[r].pc = "reload" /\ rq[r] \in Request
    BY <1>b, <1>8 DEF Reload, At
  <2>2. rq'[r] = [rq[r] EXCEPT !.pc = "install", !.seen = production[rq[r].model]]
    BY <1>b, <1>8 DEF Reload
  <2> QED
    BY <1>a, <1>b, <2>1, <2>2 DEF RequestOK, Request
<1>9. ASSUME ReadCurrent(r) PROVE RequestOK(r)'
  <2>1. PICK n \in IF Serving = {} THEN {None} ELSE Newest(Serving) :
          Begin(r, Switch, [Idle EXCEPT !.pc = "target", !.other = n])
    BY <1>9 DEF ReadCurrent
  <2>2. n # None => n \in Models /\ n \in approved /\ Registered(n)
    BY ServedIsApproved DEF Newest, Serving
  <2>3. rq'[r] = [Idle EXCEPT !.pc = "target", !.other = n]
    BY <1>b, <2>1 DEF Begin
  <2> QED
    BY <1>a, <2>2, <2>3 DEF RequestOK, Idle
<1>10. ASSUME ReadTarget(r), ~Done(r) PROVE RequestOK(r)'
  <2>1. rq[r].pc = "target" /\ rq[r] \in Request
    BY <1>b, <1>10 DEF ReadTarget, At
  <2>2. PICK n \in Models :
          /\ production[n] = "archived"
          /\ rq' = [rq EXCEPT ![r].pc = IF rq[r].other = None THEN "restore" ELSE "demote",
                              ![r].model = n]
    BY <1>10 DEF ReadTarget, Newest
  <2>3. n \in approved /\ Registered(n)
    BY <2>2, ServedIsApproved
  <2>4. rq'[r] = [rq[r] EXCEPT !.pc = IF rq[r].other = None THEN "restore" ELSE "demote",
                               !.model = n]
    BY <1>b, <2>2
  <2>5. rq[r].other # None => rq[r].other \in Models
    BY <2>1 DEF Request
  <2>6. /\ rq'[r].pc = IF rq[r].other = None THEN "restore" ELSE "demote"
        /\ rq'[r].model = n /\ rq'[r].other = rq[r].other
    BY <2>1, <2>4 DEF Request
  <2> QED
    BY <1>a, <1>b, <2>1, <2>3, <2>5, <2>6 DEF RequestOK
<1> QED
  BY <1>1, <1>2, <1>3, <1>4, <1>5, <1>6, <1>7, <1>8, <1>9, <1>10
  DEF RegisterStep, InsertModel, ReviewStep, CommitReview, PromoteStep, Install,
      RollbackStep, Restore, Abandon

(* What a step writes to approval and production is on record.             *)
LEMMA ApprovedStep ==
  ASSUME TypeOK, RequestInv, ApprovedInv, NEW r \in Requests,
         RegisterStep(r) \/ ReviewStep(r) \/ PromoteStep(r) \/ RollbackStep(r) \/ Abandon(r)
  PROVE  ApprovedInv'
<1> USE DEF ApprovedInv, ProductionWasApproved
<1>a. approved \subseteq approved' /\ RequestOK(r)
  BY RecordsStay DEF RequestInv
<1>1. ASSUME CommitReview(r) PROVE ApprovedInv'
  <2>1. rq[r].model \in Models
    BY <1>a, <1>1 DEF CommitReview, RequestOK, Review
  <2>2. CASE rq[r].pc = "approve"
    BY <1>a, <1>1, <2>1, <2>2 DEF CommitReview, TypeOK
  <2>3. CASE rq[r].pc # "approve"
    <3>1. approval'[rq[r].model] # "approved"
      BY <1>1, <2>1, <2>3 DEF CommitReview, TypeOK, Outcome, Review
    <3> QED
      BY <1>1, <2>1, <2>3, <3>1 DEF CommitReview, TypeOK
  <2> QED
    BY <2>2, <2>3
<1>2. ASSUME ArchiveIncumbent(r) \/ Demote(r) PROVE ApprovedInv'
  <2>1. rq[r].other \in approved
    BY <1>a, <1>2, NoneAssumption DEF ArchiveIncumbent, Demote, At, RequestOK
  <2> QED
    BY <1>2, <2>1 DEF ArchiveIncumbent, Demote, TypeOK
<1>3. ASSUME Install(r) \/ Restore(r) PROVE ApprovedInv'
  <2>1. rq[r].model \in approved
    BY <1>a, <1>3 DEF Install, Restore, At, RequestOK, Switch
  <2> QED
    BY <1>3, <2>1 DEF Install, Restore, TakeOver, TypeOK
<1>4. CASE UNCHANGED <<approval, production>>
  BY <1>a, <1>4
<1> QED
  BY <1>1, <1>2, <1>3, <1>4
  DEF RegisterStep, RegisterVersion, SaveArtifact, InsertModel, ReviewStep, LoadReview,
      PromoteStep, LoadPromote, ReadIncumbent, Reload, RollbackStep, ReadCurrent, ReadTarget,
      Abandon, rows

(* Only the last commit of a switch adds a production model.               *)
LEMMA ServingGrows ==
  ASSUME TypeOK, NEW r \in Requests,
         RegisterStep(r) \/ ReviewStep(r) \/ PromoteStep(r) \/ RollbackStep(r) \/ Abandon(r)
  PROVE  /\ Serving' \subseteq Serving \cup {rq[r].model}
         /\ Install(r) \/ Restore(r) \/ Serving' \subseteq Serving
<1>1. CASE CommitReview(r)
  BY <1>1 DEF CommitReview, Serving, TypeOK
<1>2. CASE ArchiveIncumbent(r) \/ Demote(r)
  BY <1>2 DEF ArchiveIncumbent, Demote, Serving, TypeOK
<1>3. CASE Install(r) \/ Restore(r)
  BY <1>3 DEF Install, Restore, TakeOver, Serving, TypeOK
<1>4. CASE UNCHANGED production
  BY <1>4 DEF Serving
<1> QED
  BY <1>1, <1>2, <1>3, <1>4
  DEF RegisterStep, RegisterVersion, SaveArtifact, InsertModel, ReviewStep, LoadReview,
      PromoteStep, LoadPromote, ReadIncumbent, Reload, RollbackStep, ReadCurrent, ReadTarget,
      Abandon, rows

(* A request that is in a switch was in it before, or has just begun it    *)
(* alone.                                                                  *)
LEMMA SwitchIsAlone ==
  ASSUME TypeOK, RequestInv, SwitchInv, Switch \notin races', NEW r \in Requests,
         RegisterStep(r) \/ ReviewStep(r) \/ PromoteStep(r) \/ RollbackStep(r) \/ Abandon(r),
         rq[r].pc \in Switch \/ rq'[r].pc \in Switch
  PROVE  \A q \in Requests : q # r => rq[q].pc \notin Switch
<1>1. races \subseteq races' /\ Switch \notin races
  BY DEF RegisterStep, RegisterVersion, SaveArtifact, InsertModel, ReviewStep, LoadReview,
         CommitReview, PromoteStep, LoadPromote, ReadIncumbent, ArchiveIncumbent, Reload,
         Install, RollbackStep, ReadCurrent, ReadTarget, Demote, Restore, Abandon, Begin, history
<1>2. CASE rq[r].pc \in Switch
  BY <1>1, <1>2 DEF SwitchInv
<1>3. CASE rq[r].pc \notin Switch
  <2>1. rq'[r].pc \in Switch
    BY <1>3
  <2>2. \/ \E m \in Models : LoadPromote(r, m)
        \/ ReadCurrent(r)
    <3>1. ~RegisterStep(r)
      <4>1. ASSUME NEW m \in Models, RegisterVersion(r, m) PROVE FALSE
        <5>1. PICK next \in Nat \ {0} :
                Begin(r, Register, [Idle EXCEPT !.pc = "register", !.model = m, !.version = next])
          BY <4>1, NextVersionPositive
        <5>2. rq'[r].pc = "register"
          BY <5>1 DEF Begin, TypeOK, Idle
        <5> QED
          BY <2>1, <5>2 DEF Switch
      <4>2. ASSUME SaveArtifact(r) PROVE FALSE
        <5>1. rq'[r] = [rq[r] EXCEPT !.pc = "insert", !.prior = current] /\ rq[r] \in Request
          BY <4>2 DEF SaveArtifact, TypeOK
        <5> QED
          BY <2>1, <5>1 DEF Switch, Request
      <4>3. ASSUME Done(r) PROVE FALSE
        BY <2>1, <4>3 DEF Done, TypeOK, Idle, Switch
      <4> QED
        BY <4>1, <4>2, <4>3 DEF RegisterStep, InsertModel
    <3>2. ~Done(r)
      BY <2>1 DEF Done, TypeOK, Idle, Switch
    <3>3. ASSUME NEW a \in Review, NEW m \in Models, LoadReview(r, a, m) PROVE FALSE
      <4>1. rq'[r].pc = a
        BY <3>3 DEF LoadReview, Begin, TypeOK, Idle
      <4> QED
        BY <2>1, <4>1 DEF Review, Switch
    <3> QED
      BY <1>3, <3>1, <3>2, <3>3 DEF ReviewStep, CommitReview, Abandon, PromoteStep, RollbackStep,
                                     ReadIncumbent, ArchiveIncumbent, Reload, Install,
                                     ReadTarget, Demote, Restore, At, Switch
  <2>3. \E st : Begin(r, Switch, st)
    BY <2>2 DEF LoadPromote, ReadCurrent
  <2> QED
    BY <2>3 DEF Begin
<1> QED
  BY <1>2, <1>3

(* At each point of the only switch, only the model it names may be in     *)
(* production.                                                             *)
LEMMA SwitchStep ==
  ASSUME TypeOK, RequestInv, SwitchInv, NEW r \in Requests,
         RegisterStep(r) \/ ReviewStep(r) \/ PromoteStep(r) \/ RollbackStep(r) \/ Abandon(r)
  PROVE  SwitchInv'
<1> SUFFICES ASSUME Switch \notin races'
    PROVE  /\ \A q, p \in Requests : rq'[q].pc \in Switch /\ rq'[p].pc \in Switch => q = p
           /\ OneProduction'
           /\ \A q \in Requests : SwitchOK(q)'
  BY DEF SwitchInv
<1>a. /\ \A q, p \in Requests : rq[q].pc \in Switch /\ rq[p].pc \in Switch => q = p
      /\ \A m, n \in Serving : m = n
      /\ \A q \in Requests : SwitchOK(q)
  <2>1. Switch \notin races
    BY DEF RegisterStep, RegisterVersion, SaveArtifact, InsertModel, ReviewStep, LoadReview,
         CommitReview, PromoteStep, LoadPromote, ReadIncumbent, ArchiveIncumbent, Reload,
         Install, RollbackStep, ReadCurrent, ReadTarget, Demote, Restore, Abandon, Begin, history
  <2> QED
    BY <2>1 DEF SwitchInv, OneProduction
<1>b. /\ \A q \in Requests : q # r => rq'[q] = rq[q]
      /\ rq \in [Requests -> Request]
  BY RecordsStay DEF TypeOK
<1>c. rq[r].pc \in Switch \/ rq'[r].pc \in Switch
        => \A q \in Requests : q # r => rq[q].pc \notin Switch
  BY SwitchIsAlone
<1>1. \A q, p \in Requests : rq'[q].pc \in Switch /\ rq'[p].pc \in Switch => q = p
  BY <1>a, <1>b, <1>c
<1>2. Install(r) \/ Restore(r) => Serving \subseteq {rq[r].model} /\ rq[r].pc \in Switch
  BY <1>a DEF Install, Restore, At, SwitchOK, Switch
<1>3. OneProduction'
  BY <1>a, <1>2, ServingGrows DEF OneProduction
<1>4. ASSUME NEW q \in Requests, q # r PROVE SwitchOK(q)'
  <2>1. CASE Install(r) \/ Restore(r)
    <3>1. rq'[q].pc \notin Switch
      BY <1>b, <1>c, <1>2, <1>4, <2>1
    <3> QED
      BY <3>1 DEF SwitchOK, Switch
  <2>2. CASE Serving' \subseteq Serving
    BY <1>a, <1>b, <1>4, <2>2 DEF SwitchOK
  <2> QED
    BY <2>1, <2>2, ServingGrows
<1>5. SwitchOK(r)'
  <2>1. CASE rq'[r].pc \notin {"archive", "target", "demote", "reload", "install", "restore"}
    BY <2>1 DEF SwitchOK
  <2>2. ASSUME ReadIncumbent(r) PROVE SwitchOK(r)'
    <3>1. rq[r] \in Request /\ Serving' = Serving
      BY <1>b, <2>2 DEF ReadIncumbent, rows, Serving
    <3>2. CASE Goto(r, "install") /\ (Serving = {} \/ rq[r].model \in Newest(Serving))
      <4>1. rq'[r].pc = "install" /\ rq'[r].model = rq[r].model
        BY <1>b, <3>1, <3>2 DEF Goto, Request
      <4> QED
        BY <1>a, <3>1, <3>2, <4>1 DEF SwitchOK, Newest
    <3>3. ASSUME NEW n \in Newest(Serving),
                 rq' = [rq EXCEPT ![r].pc = "archive", ![r].other = n]
          PROVE  SwitchOK(r)'
      <4>1. rq'[r].pc = "archive" /\ rq'[r].other = n
        BY <1>b, <3>1, <3>3 DEF Request
      <4> QED
        BY <1>a, <3>1, <4>1 DEF SwitchOK, Newest
    <3> QED
      BY <2>2, <3>2, <3>3 DEF ReadIncumbent
  <2>3. ASSUME ArchiveIncumbent(r) \/ Demote(r) PROVE SwitchOK(r)'
    <3>1. Serving \subseteq {rq[r].other}
      BY <1>a, <2>3 DEF ArchiveIncumbent, Demote, At, SwitchOK
    <3>2. Serving' = {}
      BY <2>3, <3>1 DEF ArchiveIncumbent, Demote, Serving, TypeOK
    <3> QED
      BY <3>2 DEF SwitchOK
  <2>4. ASSUME Reload(r) PROVE SwitchOK(r)'
    <3>1. rq[r] \in Request /\ rq[r].pc = "reload" /\ Serving' = Serving
      BY <1>b, <2>4 DEF Reload, At, rows, Serving
    <3>2. rq'[r].pc = "install" /\ rq'[r].model = rq[r].model
      BY <1>b, <2>4, <3>1 DEF Reload, Request
    <3> QED
      BY <1>a, <3>1, <3>2 DEF SwitchOK
  <2>5. ASSUME ReadCurrent(r) PROVE SwitchOK(r)'
    <3>1. PICK n \in IF Serving = {} THEN {None} ELSE Newest(Serving) :
            Begin(r, Switch, [Idle EXCEPT !.pc = "target", !.other = n])
      BY <2>5 DEF ReadCurrent
    <3>2. rq'[r].pc = "target" /\ rq'[r].other = n
      BY <1>b, <3>1 DEF Begin, Idle
    <3>3. Serving' = Serving /\ Serving \subseteq {n}
      BY <1>a, <2>5, <3>1 DEF ReadCurrent, rows, Serving, Newest
    <3> QED
      BY <3>2, <3>3 DEF SwitchOK
  <2>6. ASSUME ReadTarget(r), ~Done(r) PROVE SwitchOK(r)'
    <3>1. /\ rq[r] \in Request /\ Serving' = Serving /\ Serving \subseteq Models
          /\ Serving \subseteq {rq[r].other}
      BY <1>a, <1>b, <2>6 DEF ReadTarget, At, rows, Serving, SwitchOK
    <3>2. PICK n \in Models :
            rq' = [rq EXCEPT ![r].pc = IF rq[r].other = None THEN "restore" ELSE "demote",
                             ![r].model = n]
      BY <2>6 DEF ReadTarget, Newest
    <3>3. /\ rq'[r].pc = IF rq[r].other = None THEN "restore" ELSE "demote"
          /\ rq'[r].other = rq[r].other
      BY <1>b, <3>1, <3>2 DEF Request
    <3>4. rq[r].other = None => Serving = {}
      BY <3>1, NoneAssumption
    <3> QED
      BY <3>1, <3>3, <3>4 DEF SwitchOK
  <2>7. ASSUME Done(r) PROVE SwitchOK(r)'
    BY <1>b, <2>7 DEF Done, Idle, SwitchOK
  <2>8. ASSUME NEW kind, NEW st, Begin(r, kind, st),
               st.pc \notin {"archive", "target", "demote", "reload", "install", "restore"}
        PROVE  SwitchOK(r)'
    BY <1>b, <2>8 DEF Begin, SwitchOK
  <2>9. ASSUME NEW m \in Models, RegisterVersion(r, m) PROVE SwitchOK(r)'
    <3>1. PICK next \in Nat \ {0} :
            Begin(r, Register, [Idle EXCEPT !.pc = "register", !.model = m, !.version = next])
      BY <2>9, NextVersionPositive
    <3> QED
      BY <2>8, <3>1 DEF Idle
  <2>10. ASSUME SaveArtifact(r) PROVE SwitchOK(r)'
    <3>1. rq'[r] = [rq[r] EXCEPT !.pc = "insert", !.prior = current] /\ rq[r] \in Request
      BY <1>b, <2>10 DEF SaveArtifact
    <3>2. rq'[r].pc = "insert"
      BY <3>1 DEF Request
    <3> QED
      BY <2>1, <3>2
  <2>11. ASSUME NEW a \in Review, NEW m \in Models, LoadReview(r, a, m) PROVE SwitchOK(r)'
    BY <2>8, <2>11 DEF LoadReview, Review, Idle
  <2>12. ASSUME NEW m \in Models, LoadPromote(r, m) PROVE SwitchOK(r)'
    BY <2>8, <2>12 DEF LoadPromote, Idle
  <2> QED
    BY <2>2, <2>3, <2>4, <2>5, <2>6, <2>7, <2>9, <2>10, <2>11, <2>12
    DEF RegisterStep, InsertModel, ReviewStep, CommitReview, PromoteStep, Install,
        RollbackStep, Restore, Abandon
<1> QED
  BY <1>1, <1>3, <1>4, <1>5

-----------------------------------------------------------------------------
(* The invariant holds in every reachable state. *)
THEOREM RegistryInvariant == Spec => []IInv
<1>1. IInv /\ [Next]_vars => IInv'
  <2> SUFFICES ASSUME IInv, [Next]_vars PROVE IInv'
    OBVIOUS
  <2>1. CASE UNCHANGED vars
    BY <2>1 DEF vars, IInv, TypeOK, RequestInv, RequestOK, ApprovedInv, ProductionWasApproved,
                SwitchInv, SwitchOK, OneProduction, Serving, Registered
  <2>2. ASSUME NEW r \in Requests,
               RegisterStep(r) \/ ReviewStep(r) \/ PromoteStep(r) \/ RollbackStep(r) \/ Abandon(r)
        PROVE  IInv'
    BY <2>2, TypeStep, RequestStep, ApprovedStep, SwitchStep DEF IInv
  <2> QED
    BY <2>1, <2>2 DEF Next
<1> QED
  BY InitInv, <1>1, PTL DEF Spec

(* Every variable keeps its type, and a row that is not registered has no  *)
(* status.                                                                 *)
THEOREM RegistryTyped == Spec => []TypeOK
<1>1. IInv => TypeOK
  BY DEF IInv
<1> QED
  BY RegistryInvariant, <1>1, PTL

(* Nothing unapproved is ever staged or in production, whatever requests   *)
(* overlap and wherever they are cut short.                                *)
THEOREM NothingUnapprovedServed == Spec => []ProductionWasApproved
<1>1. IInv => ProductionWasApproved
  BY DEF IInv, ApprovedInv
<1> QED
  BY RegistryInvariant, <1>1, PTL

(* A key has at most one production model while its switches do not        *)
(* overlap, whatever reviews and registrations go on beside them.          *)
THEOREM SwitchesKeepOneProduction == Spec => []OneProduction
<1>1. IInv => OneProduction
  BY DEF IInv, SwitchInv, OneProduction
<1> QED
  BY RegistryInvariant, <1>1, PTL

-----------------------------------------------------------------------------
(* Registrations.  While they come one after the other, the one that is    *)
(* open has a number above every row's and has read the current rows as    *)
(* they still are, so the file it writes is no other row's.                *)

RegisterOK(r) ==
  /\ rq[r].pc \in Register =>
       \A m \in Models : Registered(m) => version[m] < rq[r].version
  /\ rq[r].pc = "insert" =>
       /\ rq[r].prior = current
       /\ <<rq[r].version, rq[r].model>> \in artifact

RegisterInv ==
  Register \notin races =>
    /\ \A q, r \in Requests : rq[q].pc \in Register /\ rq[r].pc \in Register => q = r
    /\ \A r \in Requests : RegisterOK(r)
    /\ CurrentIsNewest /\ ArtifactsMatch

LEMMA RacesStay ==
  ASSUME NEW r \in Requests,
         RegisterStep(r) \/ ReviewStep(r) \/ PromoteStep(r) \/ RollbackStep(r) \/ Abandon(r)
  PROVE  races \subseteq races'
BY DEF RegisterStep, RegisterVersion, SaveArtifact, InsertModel, ReviewStep, LoadReview,
       CommitReview, PromoteStep, LoadPromote, ReadIncumbent, ArchiveIncumbent, Reload,
       Install, RollbackStep, ReadCurrent, ReadTarget, Demote, Restore, Abandon, Begin, history

(* Where a step that begins nothing leaves the request.                    *)
LEMMA MovedPc ==
  ASSUME TypeOK, NEW r \in Requests, NEW pc \in Register \cup Switch, NEW n,
         \/ Goto(r, pc)
         \/ rq' = [rq EXCEPT ![r].pc = pc, ![r].other = n]
         \/ rq' = [rq EXCEPT ![r].pc = pc, ![r].model = n]
         \/ rq' = [rq EXCEPT ![r].pc = pc, ![r].seen = n]
         \/ rq' = [rq EXCEPT ![r].pc = pc, ![r].prior = n]
  PROVE  rq'[r].pc = pc
BY DEF TypeOK, Request, Goto

LEMMA BegunPc ==
  ASSUME TypeOK, NEW r \in Requests, NEW kind, NEW st, Begin(r, kind, st)
  PROVE  rq'[r] = st
BY DEF TypeOK, Begin

LEMMA DonePc ==
  ASSUME TypeOK, NEW r \in Requests, Done(r)
  PROVE  rq'[r] = Idle /\ Idle.pc = "idle"
BY DEF TypeOK, Done, Idle

LEMMA ReviewStepPc ==
  ASSUME TypeOK, NEW r \in Requests, ReviewStep(r)
  PROVE  rq'[r].pc \in Review \cup {"idle"}
<1>1. ASSUME NEW a \in Review, NEW m \in Models, LoadReview(r, a, m) PROVE rq'[r].pc = a
  BY <1>1, BegunPc DEF LoadReview, Idle
<1> QED BY <1>1, DonePc DEF ReviewStep, CommitReview

LEMMA SwitchStepPc ==
  ASSUME TypeOK, NEW r \in Requests, PromoteStep(r) \/ RollbackStep(r)
  PROVE  rq'[r].pc \in Switch \cup {"idle"}
<1> USE DEF Switch
<1>1. ASSUME NEW m \in Models, LoadPromote(r, m) PROVE rq'[r].pc = "incumbent"
  BY <1>1, BegunPc DEF LoadPromote, Idle
<1>2. CASE ReadIncumbent(r)
  BY <1>2, MovedPc DEF ReadIncumbent
<1>3. CASE ArchiveIncumbent(r) \/ Reload(r)
  BY <1>3 DEF ArchiveIncumbent, Reload, Goto, TypeOK, Request
<1>4. CASE Install(r) \/ Restore(r)
  BY <1>4, DonePc DEF Install, Restore
<1>5. CASE ReadCurrent(r)
  <2>1. \E n : Begin(r, Switch, [Idle EXCEPT !.pc = "target", !.other = n])
    BY <1>5 DEF ReadCurrent
  <2> QED BY <2>1, BegunPc DEF Idle
<1>6. CASE ReadTarget(r)
  <2>1. ASSUME NEW n, rq' = [rq EXCEPT ![r].pc = IF rq[r].other = None THEN "restore" ELSE "demote",
                                       ![r].model = n]
        PROVE  rq'[r].pc \in {"restore", "demote"}
    BY <2>1 DEF TypeOK, Request
  <2> QED BY <1>6, <2>1, DonePc DEF ReadTarget
<1>7. CASE Demote(r)
  BY <1>7, MovedPc DEF Demote
<1> QED BY <1>1, <1>2, <1>3, <1>4, <1>5, <1>6, <1>7 DEF PromoteStep, RollbackStep

LEMMA RegisterStepPc ==
  ASSUME TypeOK, NEW r \in Requests, RegisterStep(r)
  PROVE  rq'[r].pc \in Register \cup {"idle"}
<1>1. ASSUME NEW m \in Models, RegisterVersion(r, m) PROVE rq'[r].pc = "register"
  <2>1. \E next : Begin(r, Register, [Idle EXCEPT !.pc = "register", !.model = m, !.version = next])
    BY <1>1 DEF RegisterVersion
  <2> QED BY <2>1, BegunPc DEF Idle
<1>2. SaveArtifact(r) => rq'[r].pc = "insert"
  BY MovedPc DEF SaveArtifact, Register
<1> QED BY <1>1, <1>2, DonePc DEF RegisterStep, InsertModel, Register

LEMMA RegistrationStep ==
  ASSUME TypeOK, TypeOK', RequestInv, RegisterInv, NEW r \in Requests,
         RegisterStep(r) \/ ReviewStep(r) \/ PromoteStep(r) \/ RollbackStep(r) \/ Abandon(r)
  PROVE  RegisterInv'
<1> SUFFICES ASSUME Register \notin races' PROVE RegisterInv'
  BY DEF RegisterInv
<1>1. /\ \A q, p \in Requests : rq[q].pc \in Register /\ rq[p].pc \in Register => q = p
      /\ \A q \in Requests : RegisterOK(q)
      /\ current = Newest({m \in Models : Registered(m)})
      /\ \A m \in Models : Registered(m) => <<version[m], m>> \in artifact
      /\ \A q \in Requests : q # r => rq'[q] = rq[q]
  BY RacesStay, RecordsStay DEF RegisterInv, CurrentIsNewest, ArtifactsMatch
<1>2. ASSUME UNCHANGED <<version, current, artifact>>
      PROVE  /\ CurrentIsNewest' /\ ArtifactsMatch'
             /\ \A q \in Requests : q # r => RegisterOK(q)'
  <2>1. {m \in Models : Registered(m)}' = {m \in Models : Registered(m)}
    BY <1>2 DEF Registered
  <2>2. current' = Newest({m \in Models : Registered(m)})'
    BY <1>1, <1>2, <2>1 DEF Newest
  <2>3. \A m \in Models : Registered(m)' => <<version'[m], m>> \in artifact'
    BY <1>1, <1>2 DEF Registered
  <2>4. ASSUME NEW q \in Requests, q # r PROVE RegisterOK(q)'
    <3>1. rq'[q] = rq[q] /\ RegisterOK(q)
      BY <1>1, <2>4
    <3> QED BY <1>2, <3>1 DEF RegisterOK, Registered
  <2> QED BY <2>2, <2>3, <2>4 DEF CurrentIsNewest, ArtifactsMatch
<1>3. ASSUME NEW m \in Models, RegisterVersion(r, m) PROVE RegisterInv'
  <2> DEFINE all == {n \in Models : Registered(n)}
  <2>1. PICK next \in IF all = {} THEN {1} ELSE {version[n] + 1 : n \in Newest(all)} :
           Begin(r, Register, [Idle EXCEPT !.pc = "register", !.model = m, !.version = next])
    BY <1>3 DEF RegisterVersion
  <2>2. rq'[r].pc = "register" /\ rq'[r].version = next
    BY <2>1, BegunPc DEF Idle
  <2>3. \A n \in all : version[n] < next
    <3>1. SUFFICES ASSUME all # {} PROVE \A n \in all : version[n] < next
      OBVIOUS
    <3>2. PICK n \in Newest(all) : next = version[n] + 1
      BY <2>1, <3>1
    <3>3. n \in Models /\ \A k \in all : version[k] <= version[n]
      BY <3>2 DEF Newest
    <3> QED BY <3>2, <3>3 DEF TypeOK
  <2>4. \A q \in Requests : rq[q].pc \notin Register
    BY <2>1 DEF Begin
  <2>5. UNCHANGED <<version, current, artifact>>
    BY <1>3 DEF RegisterVersion, rows
  <2>6. RegisterOK(r)'
    BY <2>2, <2>3, <2>5 DEF RegisterOK, Registered
  <2> QED BY <1>1, <1>2, <2>4, <2>5, <2>6 DEF RegisterInv
<1>4. CASE SaveArtifact(r)
  <2>1. /\ rq[r].pc = "register" /\ rq[r] \in Request
        /\ rq'[r] = [rq[r] EXCEPT !.pc = "insert", !.prior = current]
        /\ version' = version /\ current' = current
        /\ artifact' = {f \in artifact : f[1] # rq[r].version} \cup {<<rq[r].version, rq[r].model>>}
    BY <1>4 DEF SaveArtifact, At, TypeOK
  <2>2. /\ rq'[r].pc = "insert" /\ rq'[r].prior = current
        /\ rq'[r].version = rq[r].version /\ rq'[r].model = rq[r].model
    BY <2>1 DEF Request
  <2>3. \A m \in Models : Registered(m) => version[m] < rq[r].version
    BY <1>1, <2>1 DEF RegisterOK, Register
  <2>4. \A m \in Models : Registered(m) => <<version[m], m>> \in artifact'
    BY <1>1, <2>1, <2>3 DEF TypeOK, Request
  <2>5. \A q \in Requests : q # r => rq[q].pc \notin Register
    BY <1>1, <2>1 DEF Register
  <2>6. RegisterOK(r)'
    BY <2>1, <2>2, <2>3 DEF RegisterOK, Registered
  <2>7. \A q \in Requests : RegisterOK(q)'
    BY <1>1, <2>5, <2>6 DEF RegisterOK, Register
  <2>8. {m \in Models : Registered(m)}' = {m \in Models : Registered(m)}
    BY <2>1 DEF Registered
  <2>9. CurrentIsNewest'
    BY <1>1, <2>1, <2>8 DEF CurrentIsNewest, Newest
  <2>10. ArtifactsMatch'
    BY <2>1, <2>4 DEF ArtifactsMatch, Registered
  <2> QED BY <1>1, <2>5, <2>7, <2>9, <2>10 DEF RegisterInv
<1>5. CASE InsertModel(r)
  <2>1. PICK m \in Models : m = rq[r].model
    BY <1>5 DEF InsertModel, At, RequestInv, RequestOK
  <2>2. /\ rq[r].pc = "insert" /\ rq[r].version \in Nat /\ rq[r].version > 0
        /\ version' = [version EXCEPT ![m] = rq[r].version]
        /\ current' = (current \ rq[r].prior) \cup {m} /\ artifact' = artifact
        /\ rq'[r] = Idle
    BY <1>5, <2>1, DonePc DEF InsertModel, At, RequestInv, RequestOK, Register, TypeOK, Request
  <2>3. /\ version'[m] = rq[r].version
        /\ \A n \in Models : n # m => version'[n] = version[n]
        /\ \A n \in Models : Registered(n) => version[n] < rq[r].version
        /\ <<rq[r].version, m>> \in artifact
        /\ current' = {m}
    BY <1>1, <2>1, <2>2 DEF TypeOK, RegisterOK, Register
  <2>4. \A n \in Models : Registered(n)' => n = m \/ version'[n] < version'[m]
    BY <2>3 DEF Registered
  <2>5. Registered(m)'
    BY <2>2, <2>3 DEF Registered
  <2>6. \A n \in Models : version'[n] \in Nat
    BY DEF TypeOK
  <2>7. current' = Newest({n \in Models : Registered(n)})'
    BY <2>3, <2>4, <2>5, <2>6 DEF Newest
  <2>8. \A n \in Models : Registered(n)' => <<version'[n], n>> \in artifact'
    BY <1>1, <2>2, <2>3 DEF Registered
  <2>9. \A q \in Requests : rq'[q].pc \notin Register
    BY <1>1, <2>2, DonePc DEF Register, Idle
  <2> QED BY <2>7, <2>8, <2>9
          DEF RegisterInv, RegisterOK, CurrentIsNewest, ArtifactsMatch, Register
<1>6. CASE ReviewStep(r) \/ PromoteStep(r) \/ RollbackStep(r) \/ Abandon(r)
  <2>1. rq'[r].pc \notin Register
    BY <1>6, ReviewStepPc, SwitchStepPc, DonePc DEF Abandon, Register, Review, Switch
  <2>2. UNCHANGED <<version, current, artifact>>
    BY <1>6 DEF ReviewStep, LoadReview, CommitReview, PromoteStep, LoadPromote, ReadIncumbent,
         ArchiveIncumbent, Reload, Install, RollbackStep, ReadCurrent, ReadTarget, Demote,
         Restore, Abandon, rows
  <2>3. RegisterOK(r)'
    BY <2>1 DEF RegisterOK, Register
  <2> QED BY <1>1, <1>2, <2>1, <2>2, <2>3 DEF RegisterInv
<1> QED BY <1>3, <1>4, <1>5, <1>6 DEF RegisterStep

-----------------------------------------------------------------------------
(* Serving.  While reviews come one after the other a model that has been  *)
(* approved stays so, so the review that is open is of a model that never  *)
(* served; and while switches do, a promotion that has loaded its model as *)
(* the one in production has it still.                                     *)

ServedOK(r) ==
  /\ rq[r].pc \in Review => approval[rq[r].model] \in Accepted[rq[r].pc]
  /\ rq[r].pc \in {"incumbent", "archive", "install"} /\ rq[r].seen = "production"
       => production[rq[r].model] = "production"

ServedInv ==
  races \cap {Review, Switch} = {} =>
    /\ \A q, r \in Requests : rq[q].pc \in Review /\ rq[r].pc \in Review => q = r
    /\ \A m \in approved : approval[m] = "approved"
    /\ \A r \in Requests : ServedOK(r)
    /\ NeverUnserved

(* A step that leaves the statuses alone. *)
LEMMA StatusesKept ==
  ASSUME ServedInv, NEW r \in Requests,
         races \subseteq races', \A q \in Requests : q # r => rq'[q] = rq[q],
         UNCHANGED <<approval, production, approved, torn>>,
         rq'[r].pc \in Review => \A q \in Requests : q # r => rq[q].pc \notin Review,
         races' \cap {Review, Switch} = {} /\ ServedOK(r) => ServedOK(r)',
         BetweenCommits(r) => BetweenCommits(r)'
  PROVE  ServedInv'
<1> SUFFICES ASSUME races' \cap {Review, Switch} = {} PROVE ServedInv'
  BY DEF ServedInv
<1>1. /\ \A q, p \in Requests : rq[q].pc \in Review /\ rq[p].pc \in Review => q = p
      /\ \A m \in approved : approval[m] = "approved"
      /\ \A q \in Requests : ServedOK(q)
      /\ NeverUnserved /\ races \cap {Review, Switch} = {}
  BY DEF ServedInv
<1>2. \A q, p \in Requests : rq'[q].pc \in Review /\ rq'[p].pc \in Review => q = p
  BY <1>1
<1>3. \A q \in Requests : ServedOK(q)'
  BY <1>1 DEF ServedOK
<1>4. \A q \in Requests : BetweenCommits(q) => BetweenCommits(q)'
  BY DEF BetweenCommits
<1>5. NeverUnserved'
  BY <1>1, <1>4 DEF NeverUnserved, Serving
<1> QED BY <1>1, <1>2, <1>3, <1>5 DEF ServedInv

(* A step of the only switch that leaves one model in production, or the   *)
(* switch between its commits.                                             *)
LEMMA StatusSwitched ==
  ASSUME ServedInv, NEW r \in Requests,
         races \subseteq races', \A q \in Requests : q # r => rq'[q] = rq[q],
         UNCHANGED <<approval, approved>>,
         races' \cap {Review, Switch} = {} =>
           /\ \A q \in Requests : q # r => rq[q].pc \notin Switch
           /\ Serving' # {} \/ BetweenCommits(r)',
         rq'[r].pc \notin Review \cup {"incumbent", "archive", "install"}
  PROVE  ServedInv'
<1> SUFFICES ASSUME races' \cap {Review, Switch} = {} PROVE ServedInv'
  BY DEF ServedInv
<1>1. /\ \A q, p \in Requests : rq[q].pc \in Review /\ rq[p].pc \in Review => q = p
      /\ \A m \in approved : approval[m] = "approved"
      /\ \A q \in Requests : ServedOK(q)
  BY DEF ServedInv
<1>2. ASSUME NEW q \in Requests PROVE ServedOK(q)'
  <2>1. CASE q = r
    BY <2>1 DEF ServedOK
  <2>2. CASE q # r
    BY <1>1, <2>2 DEF ServedOK, Switch
  <2> QED BY <2>1, <2>2
<1>3. NeverUnserved'
  BY DEF NeverUnserved
<1> QED BY <1>1, <1>2, <1>3 DEF ServedInv

LEMMA ServedReview ==
  ASSUME TypeOK, TypeOK', RequestInv, ApprovedInv, ServedInv, NEW r \in Requests,
         CommitReview(r)
  PROVE  ServedInv'
<1> SUFFICES ASSUME races \cap {Review, Switch} = {} PROVE ServedInv'
  BY DEF ServedInv, CommitReview
<1>1. /\ \A q, p \in Requests : rq[q].pc \in Review /\ rq[p].pc \in Review => q = p
      /\ \A m \in approved : approval[m] = "approved"
      /\ \A q \in Requests : ServedOK(q)
      /\ NeverUnserved
      /\ \A q \in Requests : q # r => rq'[q] = rq[q]
  BY RecordsStay DEF ServedInv, ReviewStep
<1>2. PICK m \in Models : m = rq[r].model
  BY DEF CommitReview, RequestInv, RequestOK, Review
<1>3. /\ rq[r].pc \in Review /\ approval[m] \in Accepted[rq[r].pc]
      /\ approval' = [approval EXCEPT ![m] = Outcome[rq[r].pc]]
      /\ production' = production \/ production' = [production EXCEPT ![m] = "staging"]
      /\ approved' = IF rq[r].pc = "approve" THEN approved \cup {m} ELSE approved
      /\ torn' = torn /\ rq'[r].pc = "idle" /\ races' = races
  BY <1>1, <1>2, DonePc DEF CommitReview, ServedOK
<1>4. m \notin approved /\ production[m] = "none"
  <2>1. approval[m] # "approved"
    BY <1>3 DEF Accepted, Review
  <2> QED BY <1>1, <2>1 DEF ApprovedInv, ProductionWasApproved
<1>5. \A n \in Models : production'[n] = production[n] \/ (n = m /\ production'[n] = "staging")
  <2>1. production \in [Models -> ProductionStatus]
    BY DEF TypeOK
  <2> QED BY <1>3, <2>1
<1>6. \A n \in approved' : approval'[n] = "approved"
  BY <1>1, <1>3, <1>4 DEF TypeOK, Outcome
<1>7. \A q, p \in Requests : rq'[q].pc \in Review /\ rq'[p].pc \in Review => q = p
  BY <1>1, <1>3 DEF Review
<1>8. ASSUME NEW q \in Requests PROVE ServedOK(q)'
  <2>1. CASE q = r
    BY <1>3, <2>1 DEF ServedOK, Review
  <2>2. CASE q # r
    <3>1. rq'[q] = rq[q] /\ rq[q].pc \notin Review /\ ServedOK(q)
      BY <1>1, <1>3, <2>2
    <3>2. rq[q].pc \in {"incumbent", "archive", "install"} => rq[q].model \in Models
      BY DEF RequestInv, RequestOK
    <3> QED BY <1>4, <1>5, <3>1, <3>2 DEF ServedOK
  <2> QED BY <2>1, <2>2
<1>9. NeverUnserved'
  <2>1. Serving' = Serving
    BY <1>4, <1>5 DEF Serving
  <2>2. \A n \in Models : production'[n] \in {"archived", "rolled_back"} =>
                          production[n] \in {"archived", "rolled_back"}
    BY <1>5
  <2>3. \A q \in Requests : BetweenCommits(q) => BetweenCommits(q)'
    BY <1>1, <1>3 DEF BetweenCommits, Review
  <2> QED BY <1>1, <1>3, <2>1, <2>2, <2>3 DEF NeverUnserved
<1> QED BY <1>6, <1>7, <1>8, <1>9 DEF ServedInv

LEMMA ServedPromote ==
  ASSUME TypeOK, TypeOK', RequestInv, SwitchInv, ServedInv, NEW r \in Requests, PromoteStep(r)
  PROVE  ServedInv'
<1>1. races \subseteq races' /\ \A q \in Requests : q # r => rq'[q] = rq[q]
  BY RacesStay, RecordsStay
<1>2. rq'[r].pc \notin Review
  BY SwitchStepPc DEF Review, Switch
<1>3. rq[r].pc \in Switch /\ races' \cap {Review, Switch} = {} =>
        \A q \in Requests : q # r => rq[q].pc \notin Switch
  BY SwitchIsAlone
<1>4. rq[r] \in Request /\ rq'[r] \in Request
  BY DEF TypeOK
<1>5. ASSUME NEW m \in Models, LoadPromote(r, m) PROVE ServedInv'
  <2>1. rq'[r].seen = production[m] /\ rq'[r].model = m /\ production' = production
    BY <1>5, BegunPc DEF LoadPromote, Idle, rows
  <2>2. ServedOK(r)'
    BY <1>2, <2>1 DEF ServedOK
  <2>3. ~BetweenCommits(r)
    BY <1>5 DEF LoadPromote, Begin, BetweenCommits
  <2> QED BY <1>1, <1>2, <1>5, <2>2, <2>3, StatusesKept DEF LoadPromote, rows
<1>6. CASE ReadIncumbent(r)
  <2>1. /\ rq[r].pc = "incumbent" /\ production' = production
        /\ rq'[r].seen = rq[r].seen /\ rq'[r].model = rq[r].model
    BY <1>4, <1>6 DEF ReadIncumbent, At, Goto, rows, TypeOK, Request
  <2>2. ServedOK(r) => ServedOK(r)'
    BY <1>2, <2>1 DEF ServedOK
  <2>3. ~BetweenCommits(r)
    BY <2>1 DEF BetweenCommits
  <2> QED BY <1>1, <1>2, <1>6, <2>2, <2>3, StatusesKept DEF ReadIncumbent, rows, history
<1>7. CASE ArchiveIncumbent(r)
  <2>1. rq[r].pc = "archive" /\ rq[r].other # None
    BY <1>7, NoneAssumption DEF ArchiveIncumbent, At, RequestInv, RequestOK
  <2>2. rq'[r].pc = "reload" /\ rq'[r].other = rq[r].other
    BY <1>4, <1>7 DEF ArchiveIncumbent, Goto, TypeOK, Request
  <2>3. BetweenCommits(r)'
    BY <2>1, <2>2 DEF BetweenCommits
  <2> QED BY <1>1, <1>2, <1>3, <1>7, <2>1, <2>2, <2>3, StatusSwitched
          DEF ArchiveIncumbent, Switch, Review
<1>8. CASE Reload(r)
  <2>1. /\ rq[r].pc = "reload" /\ production' = production
        /\ rq'[r].pc = "install" /\ rq'[r].other = rq[r].other
        /\ rq'[r].seen = production[rq[r].model] /\ rq'[r].model = rq[r].model
    BY <1>4, <1>8 DEF Reload, At, rows, TypeOK, Request
  <2>2. ServedOK(r)'
    BY <1>2, <2>1 DEF ServedOK
  <2>3. BetweenCommits(r) => BetweenCommits(r)'
    BY <2>1 DEF BetweenCommits
  <2> QED BY <1>1, <1>2, <1>8, <2>2, <2>3, StatusesKept DEF Reload, rows, history
<1>9. CASE Install(r)
  <2>1. rq[r].pc = "install" /\ rq[r].model \in Models /\ rq'[r].pc = "idle"
    BY <1>9, DonePc DEF Install, At, RequestInv, RequestOK
  <2>2. ASSUME races' \cap {Review, Switch} = {} PROVE Serving' # {}
    <3>1. rq[r].seen = "production" => production[rq[r].model] = "production"
      BY <1>1, <2>1, <2>2 DEF ServedInv, ServedOK
    <3>2. production'[rq[r].model] = "production"
      BY <1>9, <2>1, <3>1 DEF Install, TakeOver, TypeOK
    <3> QED BY <2>1, <3>2 DEF Serving
  <2> QED BY <1>1, <1>2, <1>3, <1>9, <2>1, <2>2, StatusSwitched DEF Install, Switch, Review
<1> QED BY <1>5, <1>6, <1>7, <1>8, <1>9 DEF PromoteStep

LEMMA ServedRollback ==
  ASSUME TypeOK, TypeOK', RequestInv, SwitchInv, ServedInv, NEW r \in Requests, RollbackStep(r)
  PROVE  ServedInv'
<1>1. races \subseteq races' /\ \A q \in Requests : q # r => rq'[q] = rq[q]
  BY RacesStay, RecordsStay
<1>2. rq'[r].pc \notin Review
  BY SwitchStepPc DEF Review, Switch
<1>3. rq[r].pc \in Switch /\ races' \cap {Review, Switch} = {} =>
        \A q \in Requests : q # r => rq[q].pc \notin Switch
  BY SwitchIsAlone
<1>4. rq[r] \in Request
  BY DEF TypeOK
<1>5. CASE ReadCurrent(r)
  <2>1. \E n : Begin(r, Switch, [Idle EXCEPT !.pc = "target", !.other = n])
    BY <1>5 DEF ReadCurrent
  <2>2. rq'[r].pc = "target"
    BY <2>1, BegunPc DEF Idle
  <2>3. ServedOK(r)' /\ ~BetweenCommits(r)
    BY <2>1, <2>2 DEF ServedOK, Review, Begin, BetweenCommits
  <2> QED BY <1>1, <1>2, <1>5, <2>3, StatusesKept DEF ReadCurrent, rows
<1>6. CASE ReadTarget(r)
  <2>1. rq'[r].pc \in {"idle", "restore", "demote"}
    <3>1. ASSUME NEW n, rq' = [rq EXCEPT ![r].pc = IF rq[r].other = None THEN "restore" ELSE "demote",
                                         ![r].model = n]
          PROVE  rq'[r].pc \in {"restore", "demote"}
      BY <3>1 DEF TypeOK, Request
    <3> QED BY <1>6, <3>1, DonePc DEF ReadTarget
  <2>2. ServedOK(r)' /\ ~BetweenCommits(r)
    BY <1>6, <2>1 DEF ServedOK, Review, ReadTarget, At, BetweenCommits
  <2> QED BY <1>1, <1>2, <1>6, <2>2, StatusesKept DEF ReadTarget, rows, history
<1>7. CASE Demote(r)
  <2>1. rq[r].pc = "demote" /\ rq[r].other # None
    BY <1>7, NoneAssumption DEF Demote, At, RequestInv, RequestOK
  <2>2. rq'[r].pc = "restore" /\ rq'[r].other = rq[r].other
    BY <1>4, <1>7 DEF Demote, Goto, TypeOK, Request
  <2>3. BetweenCommits(r)'
    BY <2>1, <2>2 DEF BetweenCommits
  <2> QED BY <1>1, <1>2, <1>3, <1>7, <2>1, <2>2, <2>3, StatusSwitched DEF Demote, Switch, Review
<1>8. CASE Restore(r)
  <2>1. rq[r].pc = "restore" /\ rq[r].model \in Models /\ rq'[r].pc = "idle"
    BY <1>8, DonePc DEF Restore, At, RequestInv, RequestOK
  <2>2. Serving' # {}
    BY <1>8, <2>1 DEF Restore, TakeOver, TypeOK, Serving
  <2> QED BY <1>1, <1>2, <1>3, <1>8, <2>1, <2>2, StatusSwitched DEF Restore, Switch, Review
<1> QED BY <1>5, <1>6, <1>7, <1>8 DEF RollbackStep

LEMMA ServedStep ==
  ASSUME TypeOK, TypeOK', RequestInv, ApprovedInv, SwitchInv, ServedInv, NEW r \in Requests,
         RegisterStep(r) \/ ReviewStep(r) \/ PromoteStep(r) \/ RollbackStep(r) \/ Abandon(r)
  PROVE  ServedInv'
<1>1. races \subseteq races' /\ \A q \in Requests : q # r => rq'[q] = rq[q]
  BY RacesStay, RecordsStay
<1>2. CASE RegisterStep(r)
  <2>1. rq'[r].pc \in Register \cup {"idle"} /\ rq[r].pc \in Register \cup {"idle"}
    BY <1>2, RegisterStepPc
       DEF RegisterStep, RegisterVersion, SaveArtifact, InsertModel, Begin, At, Register
  <2>2. ServedOK(r)' /\ ~BetweenCommits(r) /\ rq'[r].pc \notin Review
    BY <2>1 DEF ServedOK, BetweenCommits, Register, Review
  <2>3. UNCHANGED <<approval, production, approved, torn>>
    BY <1>2 DEF RegisterStep, RegisterVersion, SaveArtifact, InsertModel, rows, history
  <2> QED BY <1>1, <2>2, <2>3, StatusesKept
<1>3. ASSUME NEW a \in Review, NEW m \in Models, LoadReview(r, a, m) PROVE ServedInv'
  <2>1. rq'[r].pc = a /\ rq'[r].model = m
    BY <1>3, BegunPc DEF LoadReview, Idle
  <2>2. ServedOK(r)'
    BY <1>3, <2>1 DEF ServedOK, LoadReview, rows, Review
  <2>3. ~BetweenCommits(r)
    BY <1>3 DEF LoadReview, Begin, BetweenCommits
  <2>4. races' \cap {Review, Switch} = {} => \A q \in Requests : rq[q].pc \notin Review
    BY <1>3 DEF LoadReview, Begin
  <2>5. CASE races' \cap {Review, Switch} = {}
    BY <1>1, <1>3, <2>2, <2>3, <2>4, <2>5, StatusesKept DEF LoadReview, rows
  <2>6. CASE races' \cap {Review, Switch} # {}
    BY <2>6 DEF ServedInv
  <2> QED BY <2>5, <2>6
<1>4. CASE Abandon(r)
  <2>1. rq'[r].pc = "idle" /\ UNCHANGED <<approval, production, approved, races>>
        /\ torn' = (torn \/ BetweenCommits(r))
    BY <1>4, DonePc DEF Abandon, rows
  <2>2. ServedOK(r)'
    BY <2>1 DEF ServedOK, Review
  <2>3. CASE ~BetweenCommits(r)
    <3>1. torn' = torn
      BY <2>1, <2>3 DEF TypeOK
    <3> QED BY <1>1, <2>1, <2>2, <2>3, <3>1, StatusesKept DEF Review
  <2>4. CASE BetweenCommits(r)
    <3>1. NeverUnserved'
      BY <2>1, <2>4 DEF NeverUnserved
    <3> SUFFICES ASSUME races \cap {Review, Switch} = {} PROVE ServedInv'
      BY <2>1 DEF ServedInv
    <3>2. \A q \in Requests : ServedOK(q)'
      BY <1>1, <2>1, <2>2 DEF ServedInv, ServedOK
    <3>3. \A q, p \in Requests : rq'[q].pc \in Review /\ rq'[p].pc \in Review => q = p
      BY <1>1, <2>1 DEF ServedInv, Review
    <3> QED BY <2>1, <3>1, <3>2, <3>3 DEF ServedInv
  <2> QED BY <2>3, <2>4
<1> QED BY <1>2, <1>3, <1>4, ServedReview, ServedPromote, ServedRollback DEF ReviewStep

-----------------------------------------------------------------------------
LEMMA SerialInvariant == Spec => [](RegisterInv /\ ServedInv)
<1>1. Init => RegisterInv /\ ServedInv
  <2> SUFFICES ASSUME Init PROVE RegisterInv /\ ServedInv
    OBVIOUS
  <2>1. /\ \A r \in Requests : rq[r].pc = "idle"
        /\ \A m \in Models : ~Registered(m)
        /\ current = {} /\ approved = {}
        /\ \A m \in Models : production[m] = "none"
    BY DEF Init, Idle, Registered
  <2>2. CurrentIsNewest /\ ArtifactsMatch
    BY <2>1 DEF CurrentIsNewest, ArtifactsMatch, Newest
  <2>3. NeverUnserved
    BY <2>1 DEF NeverUnserved
  <2>4. \A r \in Requests : RegisterOK(r) /\ ServedOK(r)
    BY <2>1 DEF RegisterOK, ServedOK, Register, Review
  <2> QED BY <2>1, <2>2, <2>3, <2>4 DEF RegisterInv, ServedInv, Register, Review
<1>2. IInv /\ IInv' /\ RegisterInv /\ ServedInv /\ [Next]_vars => (RegisterInv /\ ServedInv)'
  <2> SUFFICES ASSUME IInv, IInv', RegisterInv, ServedInv, [Next]_vars
               PROVE  (RegisterInv /\ ServedInv)'
    OBVIOUS
  <2>1. CASE UNCHANGED vars
    BY <2>1 DEF vars, RegisterInv, RegisterOK, CurrentIsNewest, ArtifactsMatch, Newest, Registered,
                ServedInv, ServedOK, NeverUnserved, Serving, BetweenCommits
  <2>2. ASSUME NEW r \in Requests,
               RegisterStep(r) \/ ReviewStep(r) \/ PromoteStep(r) \/ RollbackStep(r) \/ Abandon(r)
        PROVE  (RegisterInv /\ ServedInv)'
    BY <2>2, RegistrationStep, ServedStep DEF IInv
  <2> QED BY <2>1, <2>2 DEF Next
<1> QED BY <1>1, <1>2, RegistryInvariant, PTL DEF Spec

(* While registrations do not overlap the current row is the one of the    *)
(* highest version, wherever one of them is cut short.                     *)
THEOREM CurrentStaysNewest == Spec => []CurrentIsNewest
<1>1. RegisterInv => CurrentIsNewest
  BY DEF RegisterInv, CurrentIsNewest
<1> QED BY <1>1, SerialInvariant, PTL

(* While registrations do not overlap each row's file is the one saved for *)
(* it, although a file is written before its row and the row may not come. *)
THEOREM ArtifactsStayMatched == Spec => []ArtifactsMatch
<1>1. RegisterInv => ArtifactsMatch
  BY DEF RegisterInv, ArtifactsMatch
<1> QED BY <1>1, SerialInvariant, PTL

(* While neither reviews nor switches overlap, a key that has had a        *)
(* production model has one, but between the two commits of a switch or    *)
(* after a switch that died there.                                         *)
THEOREM AlwaysServed == Spec => []NeverUnserved
<1>1. ServedInv => NeverUnserved
  BY DEF ServedInv, NeverUnserved
<1> QED BY <1>1, SerialInvariant, PTL
=============================================================================
