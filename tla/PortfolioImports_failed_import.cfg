SPECIFICATION ImportsSpec
CONSTANTS
  Imports = {m1}
  Companies = {c1}
  ImportRequests = {q1, q2}
  NoImport = NoImport
  MaxValidations = 1
INVARIANTS FailedImportedNothing
CHECK_DEADLOCK FALSE
