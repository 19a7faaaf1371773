SPECIFICATION Spec
CONSTANTS
  Models = {m1, m2}
  Requests = {r1, r2}
  None = None
SYMMETRY RegistrySymmetry
INVARIANTS TypeOK ProductionWasApproved OneProduction NeverUnserved CurrentIsNewest ArtifactsMatch
