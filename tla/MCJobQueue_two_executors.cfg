SPECIFICATION Spec
CONSTANTS
  JobIds <- MCOneJobId
  Workers = {w1, w2}
  Producers = {p1}
  Admins = {}
  Keys = {}
  Priorities = {5}
  MaxAttempts = 2
  NoKey = NoKey
  NoJob = NoJob
  DbErrors = FALSE
  MaxCrashes = 0
  MaxReplays = 0
  MaxTime = 0
INVARIANTS OneExecutorPerJob
CHECK_DEADLOCK FALSE
