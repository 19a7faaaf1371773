SPECIFICATION Spec
CONSTANTS
  Models = {m1, m2, m3}
  Requests = {r1}
  None = None
SYMMETRY RegistrySymmetry
INVARIANTS RollbackRestoresLastArchived
