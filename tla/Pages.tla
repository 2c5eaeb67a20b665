------------------------------- MODULE Pages -------------------------------
(***************************************************************************)
(* The pages and controls of the frontend that are modelled each by a      *)
(* module of its own and keep no state in common, one at a time: page says *)
(* which of them a behaviour is about, the variables of the others stay    *)
(* None.                                                                   *)
(*                                                                         *)
(* What is checked of each of them is stated, with the reason, in its own  *)
(* module.                                                                 *)
(***************************************************************************)
EXTENDS Naturals, FiniteSets

CONSTANTS
  twoFactor, MaxRunning, MaxPublished, \* SignIn
  Lines, ReadLines,           \* ItemsTab
  Budgets, Custom, Codes,     \* BudgetBoard
  Texts,                      \* PlannedRows, TransferForm
  Accounts,                   \* TransferForm
  Users, Creator, MaxMembers, \* MembersPage
  Kinds, Plain, Typed, MaxPages, MaxEdits, \* ListPages
  N,                          \* Listbox
  FormAccounts, Currencies, CurrencyOf, Receipts, MaxSessions, MaxChanges, \* TransactionForm
  MaxId,                      \* Bookmarks
  PageKeys, ListPage, Values, MaxSaves, \* DefaultsPanel
  MaxMoves,                   \* bound on the moves of a user; two of the pages have one more
  None

VARIABLES
  page,
  entryPage, entryUser, entryLoading, entryStored, entryRun, entryForm, entryTemp,
  entryOutdated, entryPublished, entryLink, entryLate,
  itemsManaged, itemsTab, itemsStored, itemsItems, itemsItemsFetch, itemsRows, itemsDirty,
  itemsSeeded, itemsExpanded, itemsTyped, itemsSave,
  boardHere, boardPeriodId, boardView, boardStored, boardEditing, boardExists,
  boardWritten, boardListed, boardStale, boardCurrent, boardPlanning, boardDeleting,
  boardMoves,
  rowsPlan, rowsRule, rowsDue, rowsSeen, rowsStale, rowsView, rowsSurface,
  rowsDeleteRulePending, rowsRequests, rowsLost, rowsMoves,
  transfersAccounts, transfersTransfer, transfersRow, transfersDetail, transfersStale,
  transfersOpen, transfersRepeatFrom, transfersForm, transfersSession, transfersSeededLen,
  transfersEditing, transfersEdit, transfersDeleting, transfersSaving, transfersLastPair,
  transfersRecorded, transfersMoves,
  membersRole, membersTwofa, membersSeen, membersStale, membersDialog, membersRequests,
  membersMoves,
  formHost, formOpen, formPrefill, formSeen, formAccounts, formChanges, formForm,
  formMinted, formReads, formSave, formLate, formKept, formBooked,
  listsKind, listsGate, listsSaved, listsSettings, listsUrl, listsPending, listsSeen,
  listsLatch, listsRestored, listsStored, listsField, listsFiltersOpen, listsPages,
  listsClicks, listsFormOpen, listsEdits,
  panelKind, panelDialog, panelOptions, panelChosen, panelOpen, panelHighlighted,
  panelQuery, panelIsMobile, panelFocus,
  marksRows, marksNextId, marksSeen, marksDialog, marksRequests, marksMoves,
  defaultsStored, defaultsData, defaultsFetch, defaultsStale, defaultsPanel,
  defaultsWaits, defaultsRequests, defaultsBlind, defaultsSaves

Entry == INSTANCE SignIn WITH
  page <- entryPage, user <- entryUser, loading <- entryLoading, stored <- entryStored,
  run <- entryRun, form <- entryForm, temp <- entryTemp, outdated <- entryOutdated,
  published <- entryPublished, link <- entryLink, late <- entryLate

Items == INSTANCE ItemsTab WITH
  managed <- itemsManaged, tab <- itemsTab, stored <- itemsStored, items <- itemsItems,
  itemsFetch <- itemsItemsFetch, rows <- itemsRows, dirty <- itemsDirty,
  seeded <- itemsSeeded, expanded <- itemsExpanded, typed <- itemsTyped, save <- itemsSave

Board == INSTANCE BudgetBoard WITH
  here <- boardHere, periodId <- boardPeriodId, view <- boardView, stored <- boardStored,
  editing <- boardEditing, exists <- boardExists, written <- boardWritten,
  listed <- boardListed, stale <- boardStale, current <- boardCurrent,
  planning <- boardPlanning, deleting <- boardDeleting, moves <- boardMoves

Rows == INSTANCE PlannedRows WITH
  plan <- rowsPlan, rule <- rowsRule, due <- rowsDue, seen <- rowsSeen, stale <- rowsStale,
  view <- rowsView, surface <- rowsSurface, deleteRulePending <- rowsDeleteRulePending,
  requests <- rowsRequests, lost <- rowsLost, moves <- rowsMoves, MaxMoves <- MaxMoves + 1

Transfers == INSTANCE TransferForm WITH
  accounts <- transfersAccounts, transfer <- transfersTransfer, row <- transfersRow,
  detail <- transfersDetail, stale <- transfersStale, open <- transfersOpen,
  repeatFrom <- transfersRepeatFrom, form <- transfersForm, session <- transfersSession,
  seededLen <- transfersSeededLen, editing <- transfersEditing, edit <- transfersEdit,
  deleting <- transfersDeleting, saving <- transfersSaving, lastPair <- transfersLastPair,
  recorded <- transfersRecorded, moves <- transfersMoves, MaxMoves <- MaxMoves + 1

Members == INSTANCE MembersPage WITH
  role <- membersRole, twofa <- membersTwofa, seen <- membersSeen, stale <- membersStale,
  dialog <- membersDialog, requests <- membersRequests, moves <- membersMoves

Form == INSTANCE TransactionForm WITH
  host <- formHost, open <- formOpen, prefill <- formPrefill, seen <- formSeen,
  accounts <- formAccounts, changes <- formChanges, form <- formForm, minted <- formMinted,
  reads <- formReads, save <- formSave, late <- formLate, kept <- formKept,
  booked <- formBooked, Accounts <- FormAccounts

Lists == INSTANCE ListPages WITH
  kind <- listsKind, gate <- listsGate, saved <- listsSaved, settings <- listsSettings,
  url <- listsUrl, pending <- listsPending, seen <- listsSeen, latch <- listsLatch,
  restored <- listsRestored, stored <- listsStored, field <- listsField,
  filtersOpen <- listsFiltersOpen, pages <- listsPages, clicks <- listsClicks,
  formOpen <- listsFormOpen, edits <- listsEdits

Panel == INSTANCE Listbox WITH
  kind <- panelKind, dialog <- panelDialog, options <- panelOptions, chosen <- panelChosen,
  open <- panelOpen, highlighted <- panelHighlighted, query <- panelQuery,
  isMobile <- panelIsMobile, focus <- panelFocus

Marks == INSTANCE Bookmarks WITH
  rows <- marksRows, nextId <- marksNextId, seen <- marksSeen,
  dialog <- marksDialog, requests <- marksRequests, moves <- marksMoves

Defaults == INSTANCE DefaultsPanel WITH
  stored <- defaultsStored, data <- defaultsData, fetch <- defaultsFetch,
  stale <- defaultsStale, panel <- defaultsPanel, waits <- defaultsWaits,
  requests <- defaultsRequests, blind <- defaultsBlind, saves <- defaultsSaves

EntryInit ==
  IF page = "sign-in" THEN Entry!Init
  ELSE
       /\ entryPage = None /\ entryUser = None /\ entryLoading = None /\ entryStored = None
       /\ entryRun = None /\ entryForm = None /\ entryTemp = None /\ entryOutdated = None
       /\ entryPublished = None /\ entryLink = None /\ entryLate = None

ItemsInit ==
  IF page = "items" THEN Items!Init
  ELSE
       /\ itemsManaged = None /\ itemsTab = None /\ itemsStored = None /\ itemsItems = None
       /\ itemsItemsFetch = None /\ itemsRows = None /\ itemsDirty = None
       /\ itemsSeeded = None /\ itemsExpanded = None /\ itemsTyped = None
       /\ itemsSave = None

BoardInit ==
  IF page = "budget" THEN Board!Init
  ELSE
       /\ boardHere = None /\ boardPeriodId = None /\ boardView = None
       /\ boardStored = None /\ boardEditing = None /\ boardExists = None
       /\ boardWritten = None /\ boardListed = None /\ boardStale = None
       /\ boardCurrent = None /\ boardPlanning = None /\ boardDeleting = None
       /\ boardMoves = None

RowsInit ==
  IF page = "planned" THEN Rows!Init
  ELSE
       /\ rowsPlan = None /\ rowsRule = None /\ rowsDue = None /\ rowsSeen = None
       /\ rowsStale = None /\ rowsView = None /\ rowsSurface = None
       /\ rowsDeleteRulePending = None /\ rowsRequests = None /\ rowsLost = None
       /\ rowsMoves = None

TransfersInit ==
  IF page = "transfers" THEN Transfers!Init
  ELSE
       /\ transfersAccounts = None /\ transfersTransfer = None /\ transfersRow = None
       /\ transfersDetail = None /\ transfersStale = None /\ transfersOpen = None
       /\ transfersRepeatFrom = None /\ transfersForm = None /\ transfersSession = None
       /\ transfersSeededLen = None /\ transfersEditing = None /\ transfersEdit = None
       /\ transfersDeleting = None /\ transfersSaving = None /\ transfersLastPair = None
       /\ transfersRecorded = None /\ transfersMoves = None

MembersInit ==
  IF page = "members" THEN Members!Init
  ELSE
       /\ membersRole = None /\ membersTwofa = None /\ membersSeen = None
       /\ membersStale = None /\ membersDialog = None /\ membersRequests = None
       /\ membersMoves = None

FormInit ==
  IF page = "form" THEN Form!Init
  ELSE
       /\ formHost = None /\ formOpen = None /\ formPrefill = None /\ formSeen = None
       /\ formAccounts = None /\ formChanges = None /\ formForm = None /\ formMinted = None
       /\ formReads = None /\ formSave = None /\ formLate = None /\ formKept = None
       /\ formBooked = None

ListsInit ==
  IF page = "lists" THEN Lists!Init
  ELSE
       /\ listsKind = None /\ listsGate = None /\ listsSaved = None /\ listsSettings = None
       /\ listsUrl = None /\ listsPending = None /\ listsSeen = None /\ listsLatch = None
       /\ listsRestored = None /\ listsStored = None /\ listsField = None
       /\ listsFiltersOpen = None /\ listsPages = None /\ listsClicks = None
       /\ listsFormOpen = None /\ listsEdits = None

PanelInit ==
  IF page = "listbox" THEN Panel!Init
  ELSE
       /\ panelKind = None /\ panelDialog = None /\ panelOptions = None
       /\ panelChosen = None /\ panelOpen = None /\ panelHighlighted = None
       /\ panelQuery = None /\ panelIsMobile = None /\ panelFocus = None

MarksInit ==
  IF page = "bookmarks" THEN Marks!Init
  ELSE
       /\ marksRows = None /\ marksNextId = None /\ marksSeen = None
       /\ marksDialog = None /\ marksRequests = None /\ marksMoves = None

DefaultsInit ==
  IF page = "settings" THEN Defaults!Init
  ELSE
       /\ defaultsStored = None /\ defaultsData = None /\ defaultsFetch = None
       /\ defaultsStale = None /\ defaultsPanel = None /\ defaultsRequests = None
       /\ defaultsWaits = None /\ defaultsBlind = None /\ defaultsSaves = None

entryVars ==
  <<entryPage, entryUser, entryLoading, entryStored, entryRun, entryForm, entryTemp,
  entryOutdated, entryPublished, entryLink, entryLate>>

itemsVars ==
  <<itemsManaged, itemsTab, itemsStored, itemsItems, itemsItemsFetch, itemsRows, itemsDirty,
  itemsSeeded, itemsExpanded, itemsTyped, itemsSave>>

boardVars ==
  <<boardHere, boardPeriodId, boardView, boardStored, boardEditing, boardExists,
  boardWritten, boardListed, boardStale, boardCurrent, boardPlanning, boardDeleting,
  boardMoves>>

rowsVars ==
  <<rowsPlan, rowsRule, rowsDue, rowsSeen, rowsStale, rowsView, rowsSurface,
  rowsDeleteRulePending, rowsRequests, rowsLost, rowsMoves>>

transfersVars ==
  <<transfersAccounts, transfersTransfer, transfersRow, transfersDetail, transfersStale,
  transfersOpen, transfersRepeatFrom, transfersForm, transfersSession, transfersSeededLen,
  transfersEditing, transfersEdit, transfersDeleting, transfersSaving, transfersLastPair,
  transfersRecorded, transfersMoves>>

membersVars ==
  <<membersRole, membersTwofa, membersSeen, membersStale, membersDialog, membersRequests,
  membersMoves>>

formVars ==
  <<formHost, formOpen, formPrefill, formSeen, formAccounts, formChanges, formForm,
  formMinted, formReads, formSave, formLate, formKept, formBooked>>

listsVars ==
  <<listsKind, listsGate, listsSaved, listsSettings, listsUrl, listsPending, listsSeen,
  listsLatch, listsRestored, listsStored, listsField, listsFiltersOpen, listsPages,
  listsClicks, listsFormOpen, listsEdits>>

panelVars ==
  <<panelKind, panelDialog, panelOptions, panelChosen, panelOpen, panelHighlighted,
  panelQuery, panelIsMobile, panelFocus>>

marksVars ==
  <<marksRows, marksNextId, marksSeen, marksDialog, marksRequests, marksMoves>>

defaultsVars ==
  <<defaultsStored, defaultsData, defaultsFetch, defaultsStale, defaultsPanel,
  defaultsWaits, defaultsRequests, defaultsBlind, defaultsSaves>>

-----------------------------------------------------------------------------
ASSUME PagesAssumption ==
  /\ Entry!SignInAssumption
  /\ Items!ItemsTabAssumption
  /\ Board!BudgetBoardAssumption
  /\ Rows!PlannedRowsAssumption
  /\ Transfers!TransferFormAssumption
  /\ Members!MembersPageAssumption
  /\ Form!TransactionFormAssumption
  /\ Lists!ListPagesAssumption
  /\ Panel!ListboxAssumption
  /\ Marks!BookmarksAssumption
  /\ Defaults!DefaultsPanelAssumption

Init ==
  /\ page \in {"sign-in", "items", "budget", "planned", "transfers", "members", "form", "lists", "listbox", "bookmarks", "settings"}
  /\ EntryInit /\ ItemsInit /\ BoardInit /\ RowsInit /\ TransfersInit /\ MembersInit /\ FormInit /\ ListsInit /\ PanelInit
  /\ MarksInit /\ DefaultsInit

EntryNext ==
  /\ page = "sign-in" /\ Entry!Next
  /\ UNCHANGED <<page, itemsVars, boardVars, rowsVars, transfersVars, membersVars, formVars, listsVars, panelVars, marksVars, defaultsVars>>

ItemsNext ==
  /\ page = "items" /\ Items!Next
  /\ UNCHANGED <<page, entryVars, boardVars, rowsVars, transfersVars, membersVars, formVars, listsVars, panelVars, marksVars, defaultsVars>>

BoardNext ==
  /\ page = "budget" /\ Board!Next
  /\ UNCHANGED <<page, entryVars, itemsVars, rowsVars, transfersVars, membersVars, formVars, listsVars, panelVars, marksVars, defaultsVars>>

RowsNext ==
  /\ page = "planned" /\ Rows!Next
  /\ UNCHANGED <<page, entryVars, itemsVars, boardVars, transfersVars, membersVars, formVars, listsVars, panelVars, marksVars, defaultsVars>>

TransfersNext ==
  /\ page = "transfers" /\ Transfers!Next
  /\ UNCHANGED <<page, entryVars, itemsVars, boardVars, rowsVars, membersVars, formVars, listsVars, panelVars, marksVars, defaultsVars>>

MembersNext ==
  /\ page = "members" /\ Members!Next
  /\ UNCHANGED <<page, entryVars, itemsVars, boardVars, rowsVars, transfersVars, formVars, listsVars, panelVars, marksVars, defaultsVars>>

FormNext ==
  /\ page = "form" /\ Form!Next
  /\ UNCHANGED <<page, entryVars, itemsVars, boardVars, rowsVars, transfersVars, membersVars, listsVars, panelVars, marksVars, defaultsVars>>

ListsNext ==
  /\ page = "lists" /\ Lists!Next
  /\ UNCHANGED <<page, entryVars, itemsVars, boardVars, rowsVars, transfersVars, membersVars, formVars, panelVars, marksVars, defaultsVars>>

PanelNext ==
  /\ page = "listbox" /\ Panel!Next
  /\ UNCHANGED <<page, entryVars, itemsVars, boardVars, rowsVars, transfersVars, membersVars, formVars, listsVars, marksVars, defaultsVars>>

MarksNext ==
  /\ page = "bookmarks" /\ Marks!Next
  /\ UNCHANGED <<page, entryVars, itemsVars, boardVars, rowsVars, transfersVars, membersVars, formVars, listsVars, panelVars, defaultsVars>>

DefaultsNext ==
  /\ page = "settings" /\ Defaults!Next
  /\ UNCHANGED <<page, entryVars, itemsVars, boardVars, rowsVars, transfersVars, membersVars, formVars, listsVars, panelVars, marksVars>>

Next == EntryNext \/ ItemsNext \/ BoardNext \/ RowsNext \/ TransfersNext \/ MembersNext \/ FormNext \/ ListsNext \/ PanelNext
          \/ MarksNext \/ DefaultsNext

vars == <<page, entryVars, itemsVars, boardVars, rowsVars, transfersVars, membersVars, formVars, listsVars, panelVars, marksVars, defaultsVars>>

Spec == Init /\ [][Next]_vars

-----------------------------------------------------------------------------
\* Every variable of the page that is followed keeps its type.
TypeOK ==
  /\ page = "sign-in" => Entry!TypeOK
  /\ page = "items" => Items!TypeOK
  /\ page = "budget" => Board!TypeOK
  /\ page = "planned" => Rows!TypeOK
  /\ page = "transfers" => Transfers!TypeOK
  /\ page = "members" => Members!TypeOK
  /\ page = "form" => Form!TypeOK
  /\ page = "lists" => Lists!TypeOK
  /\ page = "listbox" => Panel!TypeOK
  /\ page = "bookmarks" => Marks!TypeOK
  /\ page = "settings" => Defaults!TypeOK

\* A refetch never takes rows out of an items table that was edited.
EditedRowsStay == [][page = "items" => Items!EditedRowsStay]_vars

\* An items table that was not edited shows the items as they were fetched last.
PristineShows == page = "items" => Items!PristineShows

\* After a deletion the budget's page selects a period that exists.
NeverPicksDeleted == [][page = "budget" => Board!NeverPicksDeleted]_vars

\* The planned page shows the rows as they are once it has nothing to wait for.
RowsCaughtUp == page = "planned" => Rows!RowsCaughtUp

\* Deleting a rule deletes its pending rows only if this dialog was told to.
SwitchIsOwn == page = "planned" => Rows!SwitchIsOwn

\* Accounts that arrive late replace nothing the user chose for a transfer.
TypedSurvives == [][page = "transfers" => Transfers!TypedSurvives]_vars

\* What the members page offers, the server grants.
OfferedIsGranted == page = "members" => Members!OfferedIsGranted

\* What was cleared from a list's filters is not filled in again.
ClearedStays == [][page = "lists" => Lists!ClearedStays]_vars

\* A search field follows the URL unless something was typed since.
FieldFollows == [][page = "lists" => Lists!FieldFollows]_vars

\* Escape closes the panel of a Select, not the dialog around it.
SelectKeepsDialog == [][page = "listbox" => Panel!SelectKeepsDialog]_vars

\* One session of the transaction form books one transaction.
OneBooking == page = "form" => Form!OneBooking

\* What a receipt filled into a transaction form does not come back in a later one.
DroppedStaysOut == [][page = "form" => Form!DroppedStaysOut]_vars

\* The form that asks for consents again lets nobody pass without them.
GateOpens == [][page = "sign-in" => Entry!GateOpens]_vars

\* Moves of bookmarks that wait for each other's rows do not do so for ever.
MovesNeverDeadlock == page = "bookmarks" => Marks!MovesNeverDeadlock

\* The section of the default views knows whether there is something to save.
ButtonTells == page = "settings" => Defaults!ButtonTells
=============================================================================
