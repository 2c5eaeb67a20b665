SPECIFICATION FairSpec
CONSTANTS
  Watched <- AllQueries
  Calls = {c1, c2}
  MaxOthers = 1
  None = None
INVARIANT FreshAgrees
PROPERTY LookAgain
