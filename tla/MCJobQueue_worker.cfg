SPECIFICATION Spec
CONSTANTS
  JobIds <- MCJobIds
  Workers = {w1}
  Producers = {p1}
  Admins = {a1}
  Keys = {}
  Priorities = {5}
  MaxAttempts = 2
  NoKey = NoKey
  NoJob = NoJob
  DbErrors = TRUE
  MaxCrashes = 1
  MaxReplays = 1
  MaxTime = 1
INVARIANTS TypeOK ExecutionsBounded DeadIsExhausted
PROPERTIES BackoffRespected SuccessIsFinal KeepsPromise
CHECK_DEADLOCK FALSE
