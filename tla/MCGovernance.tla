---------------------------- MODULE MCGovernance ----------------------------
(* Model-checking instance of the four workflows that decide on credit:    *)
(* the lifecycle of an application, the review of a case, the approval of  *)
(* a document and a committee's vote.  They share no table, so a behaviour *)
(* runs one of them.                                                       *)
EXTENDS ApplicationLifecycle, CreditReview, Documents, Committee, TLC

VARIABLE area

governance == <<area, vars, reviewVars, docVars, committeeVars>>

(* Which of the users the analyst of the case is tells nothing apart. *)
GovernanceInit ==
  /\ Init /\ ReviewInit /\ DocumentsInit /\ CommitteeInit
  /\ case.analyst = CHOOSE u \in Users : TRUE
  /\ area \in {"lifecycle", "review", "documents", "committee"}

GovernanceNext ==
  /\ UNCHANGED area
  /\ \/ /\ area = "lifecycle" /\ Next
        /\ UNCHANGED <<reviewVars, docVars, committeeVars>>
     \/ /\ area = "review" /\ ReviewNext
        /\ UNCHANGED <<vars, docVars, committeeVars>>
     \/ /\ area = "documents" /\ DocumentsNext
        /\ UNCHANGED <<vars, reviewVars, committeeVars>>
     \/ /\ area = "committee" /\ CommitteeNext
        /\ UNCHANGED <<vars, reviewVars, docVars>>

GovernanceSpec == GovernanceInit /\ [][GovernanceNext]_governance

(* Every row of the four workflows keeps its type. *)
GovernanceTypeOK == TypeOK /\ ReviewTypeOK /\ DocumentsTypeOK /\ CommitteeTypeOK

(* The workflows draw their requests from the same set. *)
GovernanceSymmetry ==
  Permutations(ReviewRequests) \cup Permutations(Docs) \cup Permutations(Members)
=============================================================================
