SPECIFICATION FairSpec
CONSTANTS
  Keys = {tk, pk}
  PlannedKeys = {pk}
  Objects = {x1, x2, x3}
  Requests = {r1, r2, r3}
  None = None
  Environment = {"delete", "expire", "crash"}
INVARIANT OneLiveObject
PROPERTY EveryRequestEnds
CHECK_DEADLOCK FALSE
