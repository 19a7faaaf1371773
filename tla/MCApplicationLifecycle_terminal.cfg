SPECIFICATION Spec
CONSTANTS
  Requests = {r1, r2}
  None = None
  MaxMoves = 6
PROPERTIES TerminalIsFinal
CHECK_DEADLOCK FALSE
