SPECIFICATION Spec
CONSTANTS
  JobIds <- MCOneJobId
  Workers = {w1}
  Producers = {p1}
  Admins = {a1}
  Keys = {}
  Priorities = {5}
  MaxAttempts = 2
  NoKey = NoKey
  NoJob = NoJob
  DbErrors = FALSE
  MaxCrashes = 0
  MaxReplays = 0
  MaxTime = 0
PROPERTIES CanceledIsFinal
CHECK_DEADLOCK FALSE
