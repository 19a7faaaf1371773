SPECIFICATION GovernanceSpec
CONSTANTS
  Requests = {r1}
  None = None
  MaxMoves = 6
  Users = {u1, u2}
  ReviewRequests = {c1, c2}
  Nobody = Nobody
  MaxCommits = 5
  Docs = {d1, d2}
  DocRequests = {c1, c2}
  NoDoc = NoDoc
  MaxVersions = 2
  Members = {n1, n2}
  CommitteeCalls = {c1, c2}
  Weights = {1}
  Quorum = 2
  NoMember = NoMember
SYMMETRY GovernanceSymmetry
INVARIANTS
  GovernanceTypeOK PeriodIsBacked FilesBehindRows NewestIsCurrent
  DecisionFollowsVotes
PROPERTIES DecisionsInOrder DutiesSeparated
CHECK_DEADLOCK FALSE
