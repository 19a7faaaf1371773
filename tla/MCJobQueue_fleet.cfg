SPECIFICATION FairSpec
CONSTANTS
  JobIds <- MCOneJobId
  Workers = {w1, w2}
  Producers = {p1}
  Admins = {a1}
  Keys = {}
  Priorities = {5}
  MaxAttempts = 2
  NoKey = NoKey
  NoJob = NoJob
  DbErrors = FALSE
  MaxCrashes = 1
  MaxReplays = 0
  MaxTime = 0
INVARIANTS RunningIsOwnedOrLost
PROPERTIES EventuallySettledOrLost
CHECK_DEADLOCK FALSE
