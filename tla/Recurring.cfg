SPECIFICATION FairSpec
CONSTANTS
  Rules = {r1}
  Singles = {s1}
  Copies = {1}
  Horizon = 5
  LastDay = 2
  Payloads <- MCPayloads
  MaxAll = 2
  MaxFaults = 1
  MaxEdits = 2
  Clients = {c1}
  Passes = {n1}
  None = None
PROPERTY NeverTwice
PROPERTY NoOccurrenceLost
PROPERTY CatchesUp
CHECK_DEADLOCK FALSE
