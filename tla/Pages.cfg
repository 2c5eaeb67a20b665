SPECIFICATION Spec
CONSTANTS
  twoFactor = TRUE
  MaxRunning = 2
  MaxPublished = 1
  Lines = {m}
  ReadLines = {p}
  Budgets = {a, b}
  Custom = {b}
  Codes = {x}
  Texts = {0, 1}
  Accounts = {1, 2, 3}
  Users = {o, a, b}
  Creator = o
  MaxMembers = 3
  Kinds = {"transactions", "planned", "transfers"}
  Plain = Plain
  Typed = Typed
  MaxPages = 2
  MaxEdits = 3
  N = 3
  cash = cash
  card = card
  eur = eur
  usd = usd
  FormAccounts = {cash, card}
  Currencies = {eur, usd}
  CurrencyOf <- MCCurrencyOf
  Receipts = {r}
  MaxSessions = 2
  MaxChanges = 1
  MaxId = 3
  PageKeys = {planned, transactions}
  ListPage = planned
  Values = {v}
  MaxSaves = 2
  MaxMoves = 3
  None = None
CHECK_DEADLOCK FALSE
INVARIANT TypeOK
INVARIANT PristineShows
INVARIANT RowsCaughtUp
INVARIANT SwitchIsOwn
INVARIANT OfferedIsGranted
INVARIANT OneBooking
INVARIANT MovesNeverDeadlock
PROPERTY EditedRowsStay
PROPERTY NeverPicksDeleted
PROPERTY TypedSurvives
PROPERTY ClearedStays
PROPERTY FieldFollows
PROPERTY DroppedStaysOut
 
PROPERTY GateOpens
INVARIANT ButtonTells
