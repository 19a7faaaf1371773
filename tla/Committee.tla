----------------------------- MODULE Committee ------------------------------
(***************************************************************************)
(* One agenda item of a loan committee's meeting:                          *)
(* services/banking_os/committee.py behind the API threads of              *)
(* routes/banking_os.py.                                                   *)
(*                                                                         *)
(* A request decides on the meeting, the vote or the item it has loaded    *)
(* and commits later.  A member has one vote, which a constraint keeps; a  *)
(* commit writes the columns that differ from what was loaded.             *)
(***************************************************************************)
EXTENDS Integers, Sequences, FiniteSetsExt

CONSTANTS
  Members,        \* users who may vote
  CommitteeCalls, \* concurrent API requests
  Weights,        \* weights a vote is cast with
  Quorum,
  NoMember

ASSUME NoMemberAssumption == NoMember \notin Members
ASSUME WeightsAssumption == Weights \subseteq Int
ASSUME QuorumAssumption  == Quorum \in Nat \ {0}

VARIABLES
  meeting,  \* its status
  votes,    \* os_committee_votes of the item, by id
  item,     \* status and decision of the agenda item
  callers,  \* each request: what it has loaded
  (* History: *)
  recast,   \* a vote was written since the last decision was tallied
  collided  \* a decision was committed over one it had not loaded

committeeVars == <<meeting, votes, item, callers, recast, collided>>

MeetingStatuses == {"scheduled", "in_session", "closed"}
VoteKinds == {"approve", "reject", "abstain", "defer"}
Decisions == {"approve", "reject", "defer"}

Vote   == [member : Members, kind : VoteKinds, weight : Weights]
NoVote == [member |-> NoMember, kind |-> "none", weight |-> 0]
Ballot == [member : Members \cup {NoMember}, kind : VoteKinds \cup {"none"}, weight : Int]
Item   == [status : {"pending", "decided", "deferred"}, decision : Decisions \cup {"none"}]

Caller == [pc : {"idle", "open", "close", "vote", "insert", "update", "item", "decide"},
           status : MeetingStatuses, row : Nat, vote : Ballot, item : Item,
           decision : Decisions \cup {"none"}, tallied : BOOLEAN]

PendingItem == [status |-> "pending", decision |-> "none"]
NoCaller == [pc |-> "idle", status |-> "scheduled", row |-> 0, vote |-> NoVote,
             item |-> PendingItem, decision |-> "none", tallied |-> FALSE]

CommitteeTypeOK ==
  /\ meeting \in MeetingStatuses
  /\ votes \in Seq(Vote)
  /\ item \in Item
  /\ callers \in [CommitteeCalls -> Caller]
  /\ \A c \in CommitteeCalls : callers[c].pc = "update" =>
       callers[c].row \in DOMAIN votes /\ callers[c].vote \in Vote
  /\ recast \in BOOLEAN /\ collided \in BOOLEAN

(* create_meeting and add_agenda_item *)
CommitteeInit ==
  /\ meeting = "scheduled"
  /\ votes = <<>>
  /\ item = PendingItem
  /\ callers = [c \in CommitteeCalls |-> NoCaller]
  /\ recast = FALSE
  /\ collided = FALSE

-----------------------------------------------------------------------------
Is(c, pc)    == callers[c].pc = pc
Return(c)    == callers' = [callers EXCEPT ![c] = NoCaller]
Changed(old, new, stored) == IF new = old THEN stored ELSE new

(* open_meeting refuses a meeting that is closed. *)
LoadMeeting(c, op) ==
  /\ Is(c, "idle")
  /\ op = "open" => meeting # "closed"
  /\ callers' = [callers EXCEPT ![c] = [NoCaller EXCEPT !.pc = op, !.status = meeting]]
  /\ UNCHANGED <<meeting, votes, item, recast, collided>>

OpenMeeting(c) ==
  /\ Is(c, "open")
  /\ meeting' = Changed(callers[c].status, "in_session", meeting)
  /\ Return(c)
  /\ UNCHANGED <<votes, item, recast, collided>>

CloseMeeting(c) ==
  /\ Is(c, "close")
  /\ meeting' = Changed(callers[c].status, "closed", meeting)
  /\ Return(c)
  /\ UNCHANGED <<votes, item, recast, collided>>

-----------------------------------------------------------------------------
(* cast_vote: the meeting, *)
LoadForVote(c, member) ==
  /\ Is(c, "idle")
  /\ meeting # "closed"
  /\ callers' = [callers EXCEPT ![c] = 
       [NoCaller EXCEPT !.pc = "vote", !.vote.member = member]]
  /\ UNCHANGED <<meeting, votes, item, recast, collided>>

VotesOf(member) == {v \in DOMAIN votes : votes[v].member = member}

(* the member's vote, *)
FindVote(c) ==
  /\ Is(c, "vote")
  /\ \/ /\ VotesOf(callers[c].vote.member) = {}
        /\ callers' = [callers EXCEPT ![c].pc = "insert"]
     \/ \E v \in VotesOf(callers[c].vote.member) :
          callers' = [callers EXCEPT ![c].pc = "update", ![c].row = v, ![c].vote = votes[v]]
  /\ UNCHANGED <<meeting, votes, item, recast, collided>>

(* What a commit of votes means to the decisions under way and taken. *)
Revote(c) ==
  /\ callers' = [d \in CommitteeCalls |->
       IF d = c THEN NoCaller ELSE [callers[d] EXCEPT !.tallied = FALSE]]
  /\ recast' = TRUE

(* Mutant: nothing keeps a member to one vote. *)
InsertVoteBeside(c) ==
  /\ Is(c, "insert") /\ Len(votes) <= Cardinality(Members)
  /\ \E vote \in Vote :
       /\ vote.member = callers[c].vote.member
       /\ votes' = Append(votes, vote)
  /\ Revote(c)
  /\ UNCHANGED <<meeting, item, collided>>

(* the first vote; a second row of the member violates the constraint, *)
InsertVote(c) ==
  /\ Is(c, "insert")
  /\ VotesOf(callers[c].vote.member) = {}
  /\ \E vote \in Vote :
       /\ vote.member = callers[c].vote.member
       /\ votes' = Append(votes, vote)
  /\ Revote(c)
  /\ UNCHANGED <<meeting, item, collided>>

(* or the vote updated in place. *)
UpdateVote(c) ==
  LET seen   == callers[c].vote
      stored == votes[callers[c].row]
  IN
  /\ Is(c, "update")
  /\ \E kind \in VoteKinds, weight \in Weights :
       votes' = [votes EXCEPT ![callers[c].row] =
         [stored EXCEPT !.kind = Changed(seen.kind, kind, stored.kind),
                        !.weight = Changed(seen.weight, weight, stored.weight)]]
  /\ Revote(c)
  /\ UNCHANGED <<meeting, item, collided>>

-----------------------------------------------------------------------------
(* tally: a weight of zero counts as one, an abstention to the quorum only *)
QuorumMet == Len(votes) >= Quorum

Counted(weight) == IF weight = 0 THEN 1 ELSE weight
Weighted(ballots, kind) ==
  MapThenSumSet(LAMBDA v : Counted(ballots[v].weight),
                {v \in DOMAIN ballots : ballots[v].kind = kind})

Recommendation(ballots) ==
  LET approve == Weighted(ballots, "approve")
      reject  == Weighted(ballots, "reject")
      defer   == Weighted(ballots, "defer")
  IN CASE defer > approve /\ defer > reject -> "defer"
       [] approve > reject /\ defer <= approve -> "approve"
       [] reject > approve /\ defer <= reject -> "reject"
       [] OTHER -> "defer"

(* finalize_decision: the item, *)
LoadItem(c) ==
  /\ Is(c, "idle")
  /\ callers' = [callers EXCEPT ![c] = [NoCaller EXCEPT !.pc = "item", !.item = item]]
  /\ UNCHANGED <<meeting, votes, item, recast, collided>>

(* the votes, *)
Tally(c) ==
  /\ Is(c, "item")
  /\ QuorumMet
  /\ callers' = [callers EXCEPT ![c].pc = "decide", ![c].decision = Recommendation(votes),
                                ![c].tallied = TRUE]
  /\ UNCHANGED <<meeting, votes, item, recast, collided>>

DecidedItem(seen, decision) ==
  [status   |-> Changed(seen.status, IF decision = "defer" THEN "deferred" ELSE "decided",
                        item.status),
   decision |-> Changed(seen.decision, decision, item.decision)]

(* and the commit. *)
Finalize(c) ==
  /\ Is(c, "decide")
  /\ item' = DecidedItem(callers[c].item, callers[c].decision)
  /\ collided' = (collided \/ item # callers[c].item)
  /\ recast' = ~callers[c].tallied
  /\ Return(c)
  /\ UNCHANGED <<meeting, votes>>

(* A check or a constraint refuses, or the process dies. *)
LeaveCommittee(c) ==
  /\ ~Is(c, "idle")
  /\ Return(c)
  /\ UNCHANGED <<meeting, votes, item, recast, collided>>

CommitteeStep(c) ==
  \/ \E op \in {"open", "close"} : LoadMeeting(c, op)
  \/ OpenMeeting(c) \/ CloseMeeting(c)
  \/ \E member \in Members : LoadForVote(c, member)
  \/ FindVote(c) \/ InsertVote(c) \/ UpdateVote(c)
  \/ LoadItem(c) \/ Tally(c) \/ Finalize(c)
  \/ LeaveCommittee(c)

CommitteeNext == \E c \in CommitteeCalls : CommitteeStep(c)

CommitteeSpec == CommitteeInit /\ [][CommitteeNext]_committeeVars

-----------------------------------------------------------------------------
(* Properties *)

(* A decision has the votes of a quorum of distinct members, although      *)
(* votes, changes of votes and decisions overlap, and is what the votes    *)
(* recommend until one of them is written again; the exception to this     *)
(* second part is a decision committed over one that was not loaded.       *)
DecisionFollowsVotes ==
  item # PendingItem =>
    /\ Cardinality({votes[v].member : v \in DOMAIN votes}) >= Quorum
    /\ ~collided /\ ~recast =>
         /\ item.decision = Recommendation(votes)
         /\ item.status = "deferred" <=> item.decision = "defer"
=============================================================================
