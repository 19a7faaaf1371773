SPECIFICATION Spec
CONSTANTS
  Requests = {r1, r2}
  None = None
  MaxMoves = 7
SYMMETRY RequestSymmetry
VIEW WithoutDecisions
INVARIANTS ReviewPrecedesMoney RollbackStaysInHistory
CHECK_DEADLOCK FALSE
