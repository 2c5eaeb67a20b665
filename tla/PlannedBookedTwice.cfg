SPECIFICATION Spec
CONSTANTS
  Plans = {p1}
  Txns = {t1, t2}
  Clients = {c1, c2}
  Workers = {w1, w2}
  Amounts = {1}
  Dates = {d1}
  None = None
  MaxRetries = 1
  Operations = {"create", "update", "execute", "delete"}
  Environment = {}
INVARIANT AtMostOneBooking
CHECK_DEADLOCK FALSE
