SPECIFICATION Spec
CONSTANTS
  Attachments = {p, q}
  MaxRuns = 1
  None = None
CHECK_DEADLOCK FALSE
PROPERTY FirstBadgeEnds
