SPECIFICATION FairSpec
CONSTANTS
  Plans = {p1}
  Txns = {t1, t2}
  Clients = {c1}
  Workers = {w1, w2}
  Amounts = {1, 2}
  Dates = {d1, d2}
  None = None
  MaxRetries = 1
  Operations = {"create", "update", "execute", "delete"}
  Environment = {"crash", "fault", "archive", "delete_txn"}
INVARIANT LinkedBookingMatches
PROPERTY SettlesOnce
PROPERTY ExecutionSettles
CHECK_DEADLOCK FALSE
