SPECIFICATION FairSpec
CONSTANTS
  Attachments = {t1, t2}
  Requests = {q1, q2}
  Workers = {w1}
  MaxAttachments = 1
  MaxRetries = 1
  MaxDispatches = 2
  MaxFaults = 1
  None = None
INVARIANT RowsHaveObjects
INVARIANT FilledFromStoredResult
PROPERTY PendingEnds
CHECK_DEADLOCK FALSE
