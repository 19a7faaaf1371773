SPECIFICATION PlatformSpec
CONSTANTS
  JobIds <- MCThreeIds
  Workers = {w1}
  Producers = {p1}
  Admins = {}
  Keys = {k1, k2}
  Priorities = {5}
  MaxAttempts = 1
  NoKey = NoKey
  NoJob = NoJob
  DbErrors = TRUE
  MaxCrashes = 1
  MaxReplays = 0
  MaxTime = 0
  Targets = {x1, x2, x3}
  Unmapped = {x3}
  Importers = {i1, i2}
  Contents = {a, b}
  NoTarget = NoTarget
  MaxSnapshots = 3
  MaxSyncJobs = 1
  Imports = {m1, m2}
  Companies = {c1, c2}
  ImportRequests = {q1, q2}
  NoImport = NoImport
  MaxValidations = 2
  Plans = {l1}
  BillingRequests = {b1, b2}
  NoPlan = NoPlan
  MaxSubscriptions = 2
  MaxInvoices = 2
  MaxCharges = 2
  StoreCalls = {s1, s2}
  MaxObjects = 2
  MaxPuts = 3
  RiskRequests = {r1, r2}
  MaxEpisodes = 4
SYMMETRY PlatformSymmetry
INVARIANTS
  PlatformTypeOK KeysUnique NewestIsServed FinishedIsAccounted
  ConfirmedIsBooked ChargedOnce CurrentIsStored AnswersFitBreach
CHECK_DEADLOCK FALSE
