--------------------------- MODULE ModelRegistry ---------------------------
(***************************************************************************)
(* The model registry: register_model, submit_for_approval, approve,       *)
(* reject, promote and rollback of services/ml/registry/service.py, over   *)
(* the rows of table ml_models that share one model_key, and the artifact  *)
(* files they name.  A request is a session of its own: an API thread of   *)
(* routes/ml_platform.py, or a retraining run, which calls the same        *)
(* operations one after the other.                                         *)
(*                                                                         *)
(* No operation locks a row and no constraint backs a version: each loads  *)
(* what it tests, and commits later.  promote and rollback commit twice,   *)
(* first the model that steps down, with its event, then the one that      *)
(* takes over.                                                             *)
(***************************************************************************)
EXTENDS Integers, FiniteSets

CONSTANTS
  Models,    \* rows register_model may insert
  Requests,  \* sessions
  None

ASSUME NoneAssumption == None \notin Models

VARIABLES
  version,     \* version of each row, 0 before it is inserted
  current,     \* rows with is_current
  approval,    \* approval_status of each row
  production,  \* production_status of each row
  artifact,    \* files on disk: pairs of a version and the model saved in it
  rq,          \* the operation each request is in, and what it has loaded
  (* History: *)
  approved,      \* models some approve has committed
  lastArchived,  \* the model archived last, while it stays archived
  races,         \* kinds of operation of which two were open together
  torn           \* a switch ended between its two commits

vars == <<version, current, approval, production, artifact, rq,
          approved, lastArchived, races, torn>>
rows    == <<version, current, approval, production, artifact>>
history == <<approved, lastArchived, races, torn>>

ApprovalStatus   == {"draft", "pending", "approved", "rejected"}
ProductionStatus == {"none", "staging", "production", "archived", "rolled_back"}

Register == {"register", "insert"}
Review   == {"submit", "approve", "reject"}
Switch   == {"incumbent", "archive", "reload", "install", "target", "demote", "restore"}

(* model: the row operated on; other: the model that steps down; seen: the *)
(* production_status loaded for model; version, prior: the number and the  *)
(* current rows register_model read.                                       *)
Idle == [pc |-> "idle", model |-> None, other |-> None, seen |-> "none",
         version |-> 0, prior |-> {}]
Request == [pc : {"idle"} \cup Register \cup Review \cup Switch,
            model : Models \cup {None}, other : Models \cup {None},
            seen : ProductionStatus, version : Nat, prior : SUBSET Models]

Registered(m) == version[m] > 0
Serving       == {m \in Models : production[m] = "production"}
Newest(S)     == {m \in S : \A n \in S : version[n] <= version[m]}

TypeOK ==
  /\ version \in [Models -> Nat]
  /\ current \subseteq Models
  /\ approval \in [Models -> ApprovalStatus]
  /\ production \in [Models -> ProductionStatus]
  /\ artifact \subseteq Nat \X Models
  /\ rq \in [Requests -> Request]
  /\ approved \subseteq Models
  /\ lastArchived \in Models \cup {None}
  /\ races \subseteq {Register, Review, Switch}
  /\ torn \in BOOLEAN
  /\ \A m \in Models : ~Registered(m) =>
       approval[m] = "draft" /\ production[m] = "none" /\ m \notin current

Init ==
  /\ version = [m \in Models |-> 0]
  /\ current = {}
  /\ approval = [m \in Models |-> "draft"]
  /\ production = [m \in Models |-> "none"]
  /\ artifact = {}
  /\ rq = [r \in Requests |-> Idle]
  /\ approved = {}
  /\ lastArchived = None
  /\ races = {}
  /\ torn = FALSE

-----------------------------------------------------------------------------
(* Steps of a request *)

(* Request r starts an operation of a kind. *)
Begin(r, kind, state) ==
  /\ rq[r].pc = "idle"
  /\ rq' = [rq EXCEPT ![r] = state]
  /\ races' = IF \E q \in Requests : rq[q].pc \in kind THEN races \cup {kind} ELSE races

At(r, pc)   == rq[r].pc = pc
Goto(r, pc) == rq' = [rq EXCEPT ![r].pc = pc]
Done(r)     == rq' = [rq EXCEPT ![r] = Idle]

(* The model that stepped down is committed, the one to take over is not.  *)
BetweenCommits(r) == rq[r].pc \in {"reload", "install", "restore"} /\ rq[r].other # None

(* The request dies, or an exception ends it: what it committed stays. *)
Abandon(r) ==
  /\ rq[r].pc # "idle"
  /\ Done(r)
  /\ torn' = (torn \/ BetweenCommits(r))
  /\ UNCHANGED <<rows, approved, lastArchived, races>>

-----------------------------------------------------------------------------
(* register_model *)

(* Mutant: the new row takes the latest version itself. *)
RegisterVersionSame(r, m) ==
  /\ ~Registered(m)
  /\ \A q \in Requests : rq[q].pc \in Register => rq[q].model # m
  /\ LET all == {n \in Models : Registered(n)} IN
     \E next \in IF all = {} THEN {1} ELSE {version[n] : n \in Newest(all)} :
        Begin(r, Register, [Idle EXCEPT !.pc = "register", !.model = m, !.version = next])
  /\ UNCHANGED <<rows, approved, lastArchived, torn>>

(* _next_version; m names the row to be inserted and its training result. *)
RegisterVersion(r, m) ==
  /\ ~Registered(m)
  /\ \A q \in Requests : rq[q].pc \in Register => rq[q].model # m
  /\ LET all == {n \in Models : Registered(n)} IN
     \E next \in IF all = {} THEN {1} ELSE {version[n] + 1 : n \in Newest(all)} :
        Begin(r, Register, [Idle EXCEPT !.pc = "register", !.model = m, !.version = next])
  /\ UNCHANGED <<rows, approved, lastArchived, torn>>

(* The current rows are read and the file is written, over any earlier     *)
(* file of the same version; the rows wait for the commit.                 *)
SaveArtifact(r) ==
  /\ At(r, "register")
  /\ rq' = [rq EXCEPT ![r].pc = "insert", ![r].prior = current]
  /\ artifact' = {f \in artifact : f[1] # rq[r].version} \cup {<<rq[r].version, rq[r].model>>}
  /\ UNCHANGED <<version, current, approval, production, history>>

(* Mutant: the rows read keep is_current. *)
InsertModelBeside(r) ==
  /\ At(r, "insert")
  /\ version' = [version EXCEPT ![rq[r].model] = rq[r].version]
  /\ current' = current \cup {rq[r].model}
  /\ Done(r)
  /\ UNCHANGED <<approval, production, artifact, history>>

InsertModel(r) ==
  /\ At(r, "insert")
  /\ version' = [version EXCEPT ![rq[r].model] = rq[r].version]
  /\ current' = (current \ rq[r].prior) \cup {rq[r].model}
  /\ Done(r)
  /\ UNCHANGED <<approval, production, artifact, history>>

-----------------------------------------------------------------------------
(* submit_for_approval, approve, reject *)

Accepted == [submit |-> {"draft", "rejected"}, approve |-> {"pending"}, reject |-> {"pending"}]
Outcome  == [submit |-> "pending", approve |-> "approved", reject |-> "rejected"]

(* Mutant: the row need not exist. *)
LoadReviewUnrequired(r, a, m) ==
  /\ approval[m] \in Accepted[a]
  /\ Begin(r, Review, [Idle EXCEPT !.pc = a, !.model = m, !.seen = production[m]])
  /\ UNCHANGED <<rows, approved, lastArchived, torn>>

LoadReview(r, a, m) ==
  /\ Registered(m)
  /\ approval[m] \in Accepted[a]
  /\ Begin(r, Review, [Idle EXCEPT !.pc = a, !.model = m, !.seen = production[m]])
  /\ UNCHANGED <<rows, approved, lastArchived, torn>>

(* The commit writes the status whatever the row holds by now. *)
CommitReview(r) ==
  LET m == rq[r].model  a == rq[r].pc IN
  /\ a \in Review
  /\ approval' = [approval EXCEPT ![m] = Outcome[a]]
  /\ production' = IF a = "approve" /\ rq[r].seen = "none"
                   THEN [production EXCEPT ![m] = "staging"] ELSE production
  /\ approved' = IF a = "approve" THEN approved \cup {m} ELSE approved
  /\ lastArchived' = IF production'[m] = production[m] \/ lastArchived # m
                     THEN lastArchived ELSE None
  /\ Done(r)
  /\ UNCHANGED <<version, current, artifact, races, torn>>

-----------------------------------------------------------------------------
(* promote *)

(* Mutant: a model that waits for approval may be promoted. *)
LoadPromotePending(r, m) ==
  /\ Registered(m)
  /\ approval[m] \in {"approved", "pending"}
  /\ Begin(r, Switch, [Idle EXCEPT !.pc = "incumbent", !.model = m, !.seen = production[m]])
  /\ UNCHANGED <<rows, approved, lastArchived, torn>>

LoadPromote(r, m) ==
  /\ Registered(m)
  /\ approval[m] = "approved"
  /\ Begin(r, Switch, [Idle EXCEPT !.pc = "incumbent", !.model = m, !.seen = production[m]])
  /\ UNCHANGED <<rows, approved, lastArchived, torn>>

(* Mutant: only an incumbent older than the promoted version is archived. *)
ReadIncumbentOlder(r) ==
  /\ At(r, "incumbent")
  /\ LET older == {n \in Newest(Serving) : version[n] < version[rq[r].model]} IN
     \/ older = {} /\ Goto(r, "install")
     \/ \E n \in older : rq' = [rq EXCEPT ![r].pc = "archive", ![r].other = n]
  /\ UNCHANGED <<rows, history>>

(* production_model: the newest version in production, if there is one *)
ReadIncumbent(r) ==
  /\ At(r, "incumbent")
  /\ \/ /\ Serving = {} \/ rq[r].model \in Newest(Serving)
        /\ Goto(r, "install")
     \/ \E n \in Newest(Serving) \ {rq[r].model} :
          rq' = [rq EXCEPT ![r].pc = "archive", ![r].other = n]
  /\ UNCHANGED <<rows, history>>

(* The commit of the incumbent's event. *)
ArchiveIncumbent(r) ==
  /\ At(r, "archive")
  /\ production' = [production EXCEPT ![rq[r].other] = "archived"]
  /\ lastArchived' = rq[r].other
  /\ Goto(r, "reload")
  /\ UNCHANGED <<version, current, approval, artifact, approved, races, torn>>

(* That commit expired the loaded row: its status is read again. *)
Reload(r) ==
  /\ At(r, "reload")
  /\ rq' = [rq EXCEPT ![r].pc = "install", ![r].seen = production[rq[r].model]]
  /\ UNCHANGED <<rows, history>>

(* m takes over. *)
TakeOver(m) ==
  /\ production' = [production EXCEPT ![m] = "production"]
  /\ lastArchived' = IF lastArchived = m THEN None ELSE lastArchived
  /\ torn' = FALSE

(* The session writes the status only if it differs from the one it loaded. *)
Install(r) ==
  /\ At(r, "install")
  /\ \/ rq[r].seen # "production" /\ TakeOver(rq[r].model)
     \/ rq[r].seen = "production" /\ UNCHANGED <<production, lastArchived, torn>>
  /\ Done(r)
  /\ UNCHANGED <<version, current, approval, artifact, approved, races>>

-----------------------------------------------------------------------------
(* rollback *)

ReadCurrent(r) ==
  /\ \E n \in IF Serving = {} THEN {None} ELSE Newest(Serving) :
        Begin(r, Switch, [Idle EXCEPT !.pc = "target", !.other = n])
  /\ UNCHANGED <<rows, approved, lastArchived, torn>>

(* Mutant: the model in production is demoted before a target is sought. *)
ReadTargetLate(r) ==
  LET archived == {n \in Models : production[n] = "archived"} IN
  /\ At(r, "target")
  /\ \/ /\ archived = {}
        /\ production' = [m \in Models |-> IF m = rq[r].other THEN "rolled_back" ELSE production[m]]
        /\ Done(r)
     \/ /\ \E n \in Newest(archived) :
             rq' = [rq EXCEPT ![r].pc = IF rq[r].other = None THEN "restore" ELSE "demote",
                              ![r].model = n]
        /\ UNCHANGED production
  /\ UNCHANGED <<version, current, approval, artifact, history>>

(* The target is the archived row of the highest version; without one the  *)
(* rollback is refused.                                                    *)
ReadTarget(r) ==
  LET archived == {n \in Models : production[n] = "archived"} IN
  /\ At(r, "target")
  /\ \/ archived = {} /\ Done(r)
     \/ \E n \in Newest(archived) :
          rq' = [rq EXCEPT ![r].pc = IF rq[r].other = None THEN "restore" ELSE "demote",
                           ![r].model = n]
  /\ UNCHANGED <<rows, history>>

(* The commit of the demoted model's event. *)
Demote(r) ==
  LET n == rq[r].other IN
  /\ At(r, "demote")
  /\ production' = [production EXCEPT ![n] = "rolled_back"]
  /\ lastArchived' = IF lastArchived = n THEN None ELSE lastArchived
  /\ Goto(r, "restore")
  /\ UNCHANGED <<version, current, approval, artifact, approved, races, torn>>

Restore(r) ==
  /\ At(r, "restore")
  /\ TakeOver(rq[r].model)
  /\ Done(r)
  /\ UNCHANGED <<version, current, approval, artifact, approved, races>>

-----------------------------------------------------------------------------
RegisterStep(r) == (\E m \in Models : RegisterVersion(r, m)) \/ SaveArtifact(r) \/ InsertModel(r)
ReviewStep(r)   == (\E a \in Review, m \in Models : LoadReview(r, a, m)) \/ CommitReview(r)
PromoteStep(r)  == \/ \E m \in Models : LoadPromote(r, m)
                   \/ ReadIncumbent(r) \/ ArchiveIncumbent(r) \/ Reload(r) \/ Install(r)
RollbackStep(r) == ReadCurrent(r) \/ ReadTarget(r) \/ Demote(r) \/ Restore(r)

Next == \E r \in Requests :
  RegisterStep(r) \/ ReviewStep(r) \/ PromoteStep(r) \/ RollbackStep(r) \/ Abandon(r)

Spec == Init /\ [][Next]_vars

-----------------------------------------------------------------------------
(* Properties.  Those that need the operations of a kind to come one after *)
(* the other name the kind: operations of the other kinds interleave with  *)
(* them freely, and any of them may be cut short.                          *)

(* A model that is, or ever was, staged or in production has been          *)
(* approved, whatever statuses two sessions overwrite.                     *)
ProductionWasApproved ==
  \A m \in Models : production[m] # "none" => m \in approved

(* A key has at most one production model while promotions and rollbacks   *)
(* do not overlap.                                                         *)
OneProduction ==
  Switch \notin races => \A m, n \in Serving : m = n

(* Once a model has stepped down there is a production model, except       *)
(* between the two commits of a switch, or after a switch that ended       *)
(* between them.                                                           *)
NeverUnserved ==
  races \cap {Review, Switch} = {} /\ Serving = {}
    => \/ \A m \in Models : production[m] \notin {"archived", "rolled_back"}
       \/ torn
       \/ \E r \in Requests : BetweenCommits(r)

(* The current row is the one of the highest version while registrations   *)
(* do not overlap; one cut short leaves the rows as they were.             *)
CurrentIsNewest ==
  Register \notin races => current = Newest({m \in Models : Registered(m)})

(* The file each row names is the one saved for it, although a             *)
(* registration writes its file before its row and may never commit.       *)
ArtifactsMatch ==
  Register \notin races =>
    \A m \in Models : Registered(m) => <<version[m], m>> \in artifact

(* "Roll production back to the most recently archived (prior) version":   *)
(* the model a rollback restores is the one archived last, if that one is  *)
(* still archived and no switch was cut short.  The code restores the      *)
(* highest version.                                                        *)
RollbackRestoresLastArchived ==
  ~torn => \A r \in Requests : At(r, "restore") => lastArchived \in {None, rq[r].model}
=============================================================================
