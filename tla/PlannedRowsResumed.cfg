SPECIFICATION Spec
CONSTANTS
  Texts = {0, 1}
  MaxMoves = 4
  None = None
CHECK_DEADLOCK FALSE
INVARIANT OccurrencesShown
