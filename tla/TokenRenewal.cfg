SPECIFICATION FairSpec
CONSTANTS
  Tabs = {t1, t2}
  Slots = {s1, s2}
  Tokens = {k1, k2, k3, k4}
  MaxRequests = 2
  MaxExpiries = 1
  WrongPasswords = FALSE
  None = None
INVARIANT ThrownOut
PROPERTY RequestsEnd
PROPERTY RenewsOnce
