# A verification project for Owlgarth Finances

TLA+ models of the finance tracker in this repository, the TLC runs that check
them on small instances, and TLAPS proofs for every size of the instance. The
models are written from `backend/` and `frontend/src/`; paths below are relative
to the repository's root.

    tlc -workers 2 -config PlannedSingle.cfg MCPlannedExecution   # one run
    tlapm PlannedExecution_proofs.tla                             # one proof module

`PROJECT.json` lists the components, the runs, the code lines behind every
definition, the hazards and the theorems.

## 1. The system

A Django/Ninja backend over PostgreSQL serves a React frontend. Slow or periodic
work goes to Celery workers through Redis, files go to an S3 bucket, receipts to
an external parser service.

What matters for concurrency:

* **Requests** run in several processes. There is no `ATOMIC_REQUESTS`: a request
  is a sequence of statements, some of them inside `transaction.atomic()`.
  PostgreSQL runs at its default, READ COMMITTED. Nearly every handler reads a row
  *without a lock*, computes in Python and calls `save()`, which writes **every
  column** - and inserts the row when the UPDATE matched none.
* **Tasks** are acknowledged when a worker takes them (Celery's default), so a
  dying worker loses its message; `autoretry_for`/`retry` send it again when it
  raises. Messages are sent after the commit they depend on: a process that dies
  in between sends none.
* **The bucket** takes no part in a database transaction.
* **The frontend** is one thread per tab, but every `await` is a point where the
  user, another answer or another tab comes in between. A callback sees what its
  closure or its component holds when it runs, which is not what it held when the
  request was sent; a component that is not shown is not mounted and loses its
  state, while the query cache and the requests it sent stay. Tabs share
  `localStorage` and nothing else.

### Inventory: the backend

| component | state | operations | what is hard | what makes it correct |
|---|---|---|---|---|
| planned transactions (`planned_transactions/`) | plan rows: status, dates, actual amount, link to the booked transaction | create, update, execute, delete; task `execute_planned_transaction` | requests read without lock, the task with one; retries; lost and repeated messages | booked once, booking agrees with the plan, every execution settles |
| idempotency keys (`common/idempotency.py`) | key rows with a nullable link, 24 h | look up, discard, sweep, create with savepoint, re-read the winner | races on the unique constraint, waits, deletion of the object | one live object per key, every wait ends |
| recurring rules (`planned_transactions/`) | rule rows with the pointer `last_generated_date`; generated plans | create, adopt, update, pause, delete; nightly pass | pass against edits, missed nights, midnight, window arithmetic | nothing generated twice, nothing passed over, catches up |
| transactions and items (`transactions/`) | transaction, items, one server-owned remainder, linked adjustment | create, update, replace items, auto-fill, bulk move, delete | unlocked reads, two tables normalized together, changes of categories and accounts | items cover the amount; categories, currencies and adjustment agree |
| attachments and extraction (`transactions/attachments.py`, `tasks.py`) | rows, bucket objects, extraction status | upload, delete, purge, dispatch, task with retries | bucket outside the transaction, early acknowledgement, overlapping tasks | rows have files, results stored before use, pending ends |
| budget periods (`budgeting/services.py`) | disjoint date ranges per budget | derive lazily, clamp, create/update custom, copy-forward | check-then-act without lock; two derivations | ranges disjoint, one period per date |
| budgets, category budgets | amounts per category, period, currency | CRUD, cadence change | copy-forward against edits | copied once, none for archived categories |
| categories, accounts, transfers, currencies | reference rows and counters of references | CRUD, archive, merge, enable/disable | counted or checked, then written | no dangling or cross-budget reference, one default, one currency left |
| bookmarks (`bookmarks/services.py`) | per-user order, two switches | create, edit, show, archive, move, delete | neighbour found before the lock, whole-row saves | moves never wait for each other in a circle and keep a total order |
| workspaces, members, roles | members, active workspace | create, delete, switch, leave, roles | checks before locks | active workspace is one of the user's, one owner |
| default views (`UserWorkspaceSettingsService`) | one JSON document per user and workspace | read, replace some of its pages | whole-document writes | pages that were not sent stay |
| tokens and two-factor (`common/auth.py`, `core/`, `users/two_factor.py`) | single-use tokens in the cache, TOTP state, recovery codes | log in, refresh, verify, regenerate | consumed before checked; unlocked writers | a code or token is used once |
| users: consent, deletion, export, import | profile; whole-account documents | long sequential conversions | partial failure | import restores what export wrote |
| reports | none | read-only sums by date range | - | - |
| throttle, storage, e-mail, demo data | counters; adapters | - | - | - |

### Inventory: the frontend

| component | state | operations | what is hard | what makes it correct |
|---|---|---|---|---|
| API client and session (`api/client.ts`, `contexts/AuthContext.tsx`) | shared tokens; per tab a header, `isRefreshing`, parked requests, the user | send, be refused, refresh once, replay; log in and out, register, consent, follow a mailed link | callbacks interleave, two tabs use one single-use token, documents are published meanwhile | parked requests end, no session ends without a cause, a function that outlives its page does no harm, forms end |
| query cache (`api/queryClient.ts`, `hooks/useDomain.ts`) | entries by key, fetches, staleness | fetch, join, invalidate, focus, switch workspace | invalidation during a fetch, keys that share data, answers that are lost | what is called fresh shows what this tab changed; a look converges |
| transaction form (`TransactionFormModal.tsx`, `BottomNav.tsx`) | session of the form, fields, idempotency key, receipt | open, seed, read a receipt, save, retry | answers outlive the session that asked | one session books once, currency follows the account, a receipt fills one form |
| items and receipts (`TransactionItemsEditor.tsx`, `TransactionAttachments.tsx`, `ExtractionReviewModal.tsx`, `useExtractionPolling.ts`) | rows, dirty flag; polled attachment, review | edit, save, refetch; upload, extract, poll, review | refetch against edits; a poll follows what was removed | edits stay, pristine rows follow, the badge ends |
| list pages (`Transactions.tsx`, `Planned.tsx`, `TransfersPage.tsx`, `useDebouncedField.ts`) | filters in the URL, drafts, defaults | set, clear, type, shift the month, page | a draft commits after the URL changed; a URL that is not rendered yet | what was cleared stays cleared, a field follows the URL |
| planned page (`Planned.tsx` and its modals) | rows as fetched, one open surface, requests | execute, adjust, cancel, pause, edit, delete | PUT of a stale row, a switch that outlives its dialog | rows catch up, a rule's rows go only when asked |
| transfers page (`TransferModal.tsx`, `TransfersPage.tsx`) | two forms, last pair, detail query | record, repeat, edit, delete | accounts that arrive late | what was chosen stays |
| budget page (`BudgetDetailPage.tsx`) | selected period, view currency, edited cell | select, plan next, delete, edit | selection read after an await | never selects what was deleted |
| members page (`WorkspaceMembersPage.tsx`, `usePermissions.ts`) | members as fetched, an open dialog | invite, change role, remove, reset, leave | rules written twice, roles that change meanwhile | what is offered is granted, one owner |
| bookmarks page (`BookmarksPage.tsx`, `BookmarkFormModal.tsx`) | two lists as fetched, an open surface, requests | move, switch, archive, restore, edit, delete, create | controls of a row stay enabled while its requests are under way | no request is waited for by a circle; a form ends |
| default views (`WorkspaceDefaultsSection.tsx`, `useWorkspaceSettings.ts`) | draft, seeded once, query | edit, save all, save one page | settings that arrive late, two writers of one document | the button tells whether the draft is saved |
| select panels (`useListboxPanel.ts`, `useOverlay.ts`) | open, search, highlight, focus | keys, pointer, resize | who hears a key | Escape closes the panel and not the dialog |
| other pages and components, translations, configuration | - | rendering | - | - |

How they interact: recurring rules create plans; the execution task creates a
transaction through the same service as a request; uploads and extraction fill the
items of a transaction; merging or deleting a category rewrites transactions,
plans, items and category budgets; deleting a transaction clears the links of plans
and keys (`SET_NULL`) and cascades to items, attachments and the adjustment. In the
browser every page reads through the query cache, writes through the client and
drops cache entries by key when its request is answered; the client's interceptor
stands between all of them and the server.

## 2. What is modelled

Common conventions. A process (a request, a task) is a record with a `pc`; its
action reads what the code reads at that point and keeps it in the record until the
commit, so that stale reads are in the model. A database transaction whose reads
nobody can disturb is one action. In the frontend a request is *sent*, *served*
(the server's change happens) and *settled* (its callback runs, with what the
component holds by then), three actions, and it may fail or lose its answer. `None`
is SQL NULL, "no such row" and an absent value of the page. History variables are
named as such. Every definition that stands for code has its lines in
`PROJECT.json`; operators preceded by "Mutation:" or "Mutant:" are plausible bugs
that are used to show that a property can fail, and are not part of `Next`.

### PlannedExecution, Settlement

`row` is the table of plans, `ledger` the transactions booked from them, `client`
the requests between read and commit, `worker` the queued messages and running
tasks. `Create`, `BeginExecute`/`BeginUpdate`/`BeginDelete` + `Save`/`Remove` +
`Dispatch` follow the handlers of `services.py:376-467`; `Start`, `Book`,
`AlreadyBooked`, `Retry`, `GiveUp` follow the task. The environment crashes either
side, makes tasks raise, archives the account, deletes the booked transaction and
delivers a message twice. `amount` stands for the five fields that are mirrored by
the same five assignments. Two history variables follow the stale saves: `overtaken`
holds the requests whose plan a task booked since they read it, `overwritten` the plans
that such a request saved.

`Settlement` is what the users are promised of the plans (`docs/workflow.md`, "creates
a real transaction ... idempotent", and the error that a done plan cannot change its
status): `known`, `open` and `done` are sets of plans, `booked` what was made of each;
`Accept`, `Execute`, `Settle`, `Drop` are all that happens to them. The refinement
mapping reads the sets off `born` and `row`, and `booked` off `ledger`.

### Idempotency

`create_with_idempotency` statement by statement: lookup, fetch, discard, sweep,
insert under a savepoint, lost race, commit. `POST /transactions` runs it in one
transaction, `POST /planned-transactions` statement by statement, which decides
when a deletion becomes visible (`Drop`). Waits for rows of open transactions are
guards (`DroppedByAnother`, `InsertedByAnother`).

### Recurring

`Generate` is `_generate_for_rule` as one set expression: the occurrences ahead of
the pointer that are due or fit into the window. It runs within creation, adoption,
update and, rule by rule, within a nightly pass, which may fail and may cross
midnight. Days are numbers. An update reads the rule without a lock (`BeginUpdate`) and
saves every column later (`SaveUpdate`); a pass, a deletion or another update may come
in between. The history `rewound` holds the rules whose pointer such a save set to
another one than the row had, or that it brought back after their deletion; `Copies`
bounds how often one occurrence can be generated.

### TransactionItems

One transaction with its items, remainder and linked adjustment. `Normalized` is
`_normalize_coverage`; requests go through *begun* (the transaction row is read and
the form validated), *ready* (the items are read, the writes computed) and the
commit, which writes only the rows the request touched (`Merged`) and fails on a
broken foreign key (`Broken`). Requests overlap in any way, and categories and accounts
change in between. The history `overtaken[q]` says what other requests have written
since q began: "row" for the transaction and its adjustment, "items" for its items.

### Extraction

Rows, bucket objects, the queue and the task `extract_attachment`. Uploads store
first and insert later; deletions remove the object before they commit; a purge
sweeps the objects of the transaction, then commits, and its commit may be refused
(`RequestDies`), for example by the foreign key of a row inserted meanwhile. The task's
read of the file (`ReadBytes`) takes every answer of the bucket that is an error for a
missing file, whether the object is there or not, and marks the row failed, as
`get_file` does; a bucket that cannot be reached raises past the task's retries
(`ReadEscapes`), and the row stays pending. `lost` records the attachments whose message
went with a process or whose task ended that way.

### TokenRenewal, SingleRenewal

`TokenRenewal` is the interceptor of `client.ts` in several tabs. `storage` is the
pair of tokens in `localStorage`; `header`, `refresh` and `req` (one record per
request) belong to each tab. `Handle` is the branch a 401 takes: no token, park,
or begin a refresh; `Renewed` and `RefreshFailed` are the two ends of it, which
replay or reject what is parked. `signIn`, `logout`, `loadUser` and `Reload` set
and clear tokens from outside the interceptor. `expiries` bounds how often the
access token expires; `excused` records that something happened which may end a
session. `SingleRenewal` is what the interceptor promises: per tab, `running` and
the requests `waiting`; a request begins a renewal or joins the one that runs, and
the end releases all. `RenewsOnce` maps `isRefreshing` and the parked requests to
them.

### SignIn

Each asynchronous function of `AuthContext.tsx` and of the pages that sign in,
register, ask for consents and follow a mailed link is a thread (`run`) that awaits
one request after the other and goes on when its page is gone. `form` is the state
of the page's component, `outdated` the documents the server wants accepted,
`Publish` brings out a new one, and the history `late` keeps the documents published
since the form, or the function that grants, was told what is outdated. `Kept` says what
the interceptor leaves of the tokens when it ends a session: on the login and the
registration it drops them and the tab stays, elsewhere it loads the tab again
(`ThrownOut`).

### CacheKeys, QueryCache

`CacheKeys` is a table: for each query of the application its key and the columns
it shows, for each mutation the columns it writes, at once or later in a worker,
and the keys its handlers drop, cancel or set (`Touch`). `QueryCache` watches one
entry: the initial state picks any query and any two mutations that concern it,
`log` lists the changes of what the query shows, an answer is known by how many of
them it has seen. Fetches are joined, cancelled, refused and lost; a look at the
tab, a page change, a switch of the workspace and the garbage collection are steps
of their own. The pairs the code leaves out are listed as `Unrefreshed`, with the
reason of each group, so that a mutation which loses an invalidation breaks
`FreshAgrees`.

### TransactionForm, ItemsTab, ReceiptsTab

The form stays mounted; `form.session` counts its openings. `Seed`, `setSeededLens`,
`handleAccountChange`, `Filled` are the assignments of the fields by the opening, by
accounts that arrive, by the user and by a receipt; `reads` and `save` are requests
that outlive their session, `late` the creates whose answer was lost, `kept` and
`booked` what the server made of the keys. `ItemsTab` has the query and the table
seeded from it (`seeded`, `dirty`, `typed`). The table is seeded again only by data of a
new identity: structural sharing keeps the old one for an equal answer, and two answers
are equal only when neither has a row, since every save makes its rows anew
(`NewIdentity`); `managed` says that the server adds a remainder to every list, as it
does unless the transaction is an adjustment. A fetch may fail (`ItemsFail`).
`ReceiptsTab` has the list, one poll per pending attachment, the request that starts an
extraction and the review. Polls and fetches of the list fail (`PollFails`,
`ListFails`): a poll is repeated while its last answer says pending, and not when there
was none (`Unanswered`); what nothing repeats is asked for again when the window is
focused or the tab is opened. Tabs that are not selected are not mounted.

### ListPages

`url` is what was written last and `seen` what was rendered last; a handler computes
from `seen`. `gate` is the wait for the user's defaults, `latch` says which facets
were filled in from them. A field holds a draft and a timer; `Commit` writes it.
One module follows the three pages (`kind`).

### BudgetBoard, PlannedRows, TransferForm, MembersPage

Each is a page beside the server rows it shows, with what its queries answered last,
which of them are to be fetched again, the one surface (form, dialog, sheet) that is
open with the row it was opened for, and the requests on their way. `BudgetBoard` splits
the asynchronous callbacks at their awaits (`planNext`, `NextPlanned`, `NextSelected`;
`deletePeriod`, `PeriodDeleted`, `SelectionCleared`). The refetch of the periods may
fail (`PeriodsFail`), a deletion may be refused or its answer lost (`DeleteFails`); an
await of the refetch ends in either case (`Resumes`). `PlannedRows` follows one plan,
one rule and its next occurrence, and has the guards of the server's handlers
(`Refuses`). `TransferForm` has the two forms, the one that makes transfers and is
always mounted, and the one that edits. `MembersPage` has a page per user:
`canManageMembers`, `canEditBelowOwner` and `canEditMember` are the rules of
`usePermissions.ts`, `require_role` and `Serve` those of the services, which read the
caller first and the member later.

### Bookmarks, DefaultsPanel

`Bookmarks` runs the requests of one user's list side by side, statement by statement:
`Read` finds the row, the neighbour or the next position, `LockFirst` and `Swap` take the
locks of a move in the order of `LockOrder`, `Save`, `Delete` and `Insert` write what was
read and wait for a row that a move holds (`Holders`). The page sends them from its two
lists, the sheet, the form and the confirmation. `DefaultsPanel` has the document of
default views (`stored`), the query that shows it with its fetch and cancellation, the
section with its draft, and the list page that saves only itself. The draft is seeded
when the section opens and filled once when the query answers first (`Arrival`). Only the
saves are bounded: the section is opened, edited and closed, and the settings are fetched,
any number of times. The history `blind` says that an answer was lost since a fetch was
served last.

### Listbox

The panel of one `Select` or `MultiSelect` in a dialog: `focus` decides which
handler hears a key, `Adjust` is the adjustment during render that clears the
search, `Resize` changes between the dropdown and the bottom sheet.

### Pages

`Pages` instantiates the eleven modules of pages and controls that share no state -
SignIn, ItemsTab, BudgetBoard, PlannedRows, TransferForm, MembersPage, TransactionForm,
ListPages, Listbox, Bookmarks and DefaultsPanel - and runs one of them at a time: `page`
says which, the variables of the others stay `None`. Running two of them side by side
would multiply the states and add no behaviour, since a step of one neither reads nor
writes a variable of another. ReceiptsTab, TokenRenewal and QueryCache have runs of
their own, because their properties need fairness of their own actions.

## 3. Runs

| run | instance | distinct states | shows |
|---|---|---|---|
| `planned_single` | 1 plan, 1 request, 2 message slots, 2 amounts, 2 dates, 1 retry, crashes, faults, archiving, deletions | 7 070 | with one request at a time plans implement `Settlement`, match their booking and settle |
| `planned_concurrent` | 2 requests, 2 slots, repeated delivery, deletions; symmetry | 335 195 | under any overlap links are a plan's own (`LinkIsOwn`), and only a request that read the plan before it was booked and saves it afterwards makes room for a second live booking (`OneLiveBooking`) |
| `planned_booked_twice` | 2 requests | violation | two overlapping executes book twice |
| `idempotency` | 3 requests, 2 keys (one per endpoint), 3 objects, deletion, expiry, crash | 138 115 | one live object per key, all waits end |
| `recurring` | 1 rule, 1 adoptable plan, days 0..5 with a clock to 2, 4 payloads, 1 failing pass, 2 edits that overlap with all of it | 117 310 | nothing generated twice unless an update wrote an older pointer back, nothing passed over, a rule that is behind catches up |
| `items` | 3 categories in 2 budgets, 3 accounts in 2 currencies, 6 forms, 3 lists, 2 receipts, 2 requests (symmetric), 4 operations | 599 234 | only an edit that was overtaken loses the coverage, the agreement of categories and of currencies, or the mirroring adjustment |
| `extraction` | 2 attachments with a limit of 1, 2 requests, 1 worker, 1 retry, 2 dispatches, 1 crash, any failures of the bucket | 551 194 | rows have files, results are stored first, pending ends unless a message or a task was dropped |
| `token_renewal` | 2 tabs, 2 requests under way at once in one of them or in both, 4 refresh tokens, 1 expiry | 75 196 | no session ends without a cause, every request ends, one renewal per tab |
| `query_cache` | every query with every 2 mutations that concern it, 1 change by others | 1 093 087 | what is fresh shows this tab's changes, a look converges |
| `receipts_tab` | 2 attachments, each extracted at most once, any failures of polls and fetches | 178 482 | the badge of a first extraction ends, unless its first poll or the fetch of the list failed |
| `pages` | 11 pages and controls, one at a time; 3 or 4 moves or edits of the user, 3 members, 3 accounts, 3 options, 3 bookmarks, 2 default views with 2 saves, 2 sessions, 2 accounts in 2 currencies, 1 publication | 1 168 218 | see below |
| `planned_rows_resumed` | 1 plan, 1 rule, 4 moves | violation | a resumed rule's occurrences are not shown |

`pages` checks, of the transaction form, that a session books once (`OneBooking`) and
that what a receipt filled in does not come back (`DroppedStaysOut`); of the items table
that a refetch neither takes edits away (`EditedRowsStay`) nor passes an untouched table
by (`PristineShows`, but for an adjustment without items); of the planned page that its
rows catch up with the server (`RowsCaughtUp`) and that deleting a rule takes only what
this dialog was told (`SwitchIsOwn`); of transfers that late accounts replace nothing
(`TypedSurvives`); of the budget page that a deletion, once the refetch has succeeded,
never selects a period that is gone (`NeverPicksDeleted`); of the members page that what
it offers is granted unless somebody's role changed (`OfferedIsGranted`); of the lists
that what was cleared stays cleared (`ClearedStays`) and that a field follows the URL
(`FieldFollows`); of the panels that Escape leaves the dialog open
(`SelectKeepsDialog`); of signing in that the consent gate opens for nothing less than
every consent that was outdated when it last asked the server (`GateOpens`); of
bookmarks that moves never wait for each other in a circle (`MovesNeverDeadlock`); of
the default views that, once nothing is under way, the section offers to save if and
only if its draft is not what the server has (`ButtonTells`, unless since a
fetch was served last an answer was lost, or came before the query knew anything).

**Why the bounds are enough.** Plans share only fresh transaction ids, so one plan
shows every interference, and so do one rule (rules share nothing but the pass,
which handles them one by one) and one transaction. Two requests suffice for every
race between a read and a commit; three requests on one key are needed to have a
winner, a loser and a third one that discards or replays. Two bookings per plan are
one more than there should be. The calendar is long enough for a window of two, a
missed day, a crossing of midnight and the end of a rule. One retry distinguishes
"retries left" from "retries over"; one fault is enough to break any single promise,
and the liveness properties name the faults they cannot survive. Four operations
create a transaction, let two requests overlap on it, and change a category or an
account between them.

In the frontend, two tabs show every use of a shared token, and two requests one that
begins a renewal and one that is parked or, in the other tab, begins its own; requests
are sent again as often as they end, and the name of a token nobody holds is issued
again, so sessions and renewals are not bounded. One expiry meets requests in every
state, of one session or of two. Two mutations and one
change from elsewhere let an invalidation meet a fetch that was begun before one of
them and after the other; queries that the code treats alike collapse into one
initial state. Three moves of the user are an opening, a change and a second opening
or a save, and the answers to them come in any order and at any time; the longer
sequences that matter (pause, resume, look) have four. Two saves of the default views
are the two that overlap. Two sessions of a form are the
one that asked and the one that gets the answer.

**Findings.** Each violation run states something that a comment, a doc or a test
of the repository says, and TLC refutes it; `PROJECT.json` quotes the sentence.
`planned_booked_twice`: status is tested on an unlocked read and the full row is
saved. `planned_rows_resumed`: resuming a rule generates rows at once, and the page
refetches only the rules.

**Fairness.** A request that has begun is run to its end by its web process, and Celery
workers keep taking messages and go on with the task they run: weak fairness per
process, on the steps after the first one only. The beat starts a pass every night and
the pass handles the rules one after another. In the browser a request that was sent is
answered or fails and its callback runs (`ServeRefresh`, `Conclude`, `Answer`, `Handle`;
`ServeFetch`, `ReceiveFetch`, `Apply`, `Book`; `ListArrives` or `ListFails`), a poll is
repeated by its interval, a poll sent again and again is answered once (strong fairness
of `PollArrives`) and an extraction ends (`Polling`, `JobEnds`). Nobody is assumed to
send a request, to press retry, to look at a tab or to let a day pass. Crashes and
faults carry no fairness and are finitely many or recorded (`lost`, `faults`), and the
liveness properties (`ExecutionSettles`, `EveryRequestEnds`, `CatchesUp`, `PendingEnds`,
`RequestsEnd`, `LookAgain`, `FirstBadgeEnds`) say what they except. `PendingEnds`
excepts a message lost with a process and a task that ended on an unreachable bucket:
the code has no step that repairs a row left pending by either. `FirstBadgeEnds` excepts
the states in which nothing asks again by itself (`GaveUp`). `pages` checks safety only
and needs none.

**Refinement.** `RenewsOnce` says that `TokenRenewal` implements `SingleRenewal` with
its fairness, tab by tab: two renewals never run in one tab at once, and whoever
waits for one is released by its end. `SettlesOnce` says that `PlannedExecution`, with
one request at a time, implements `Settlement`: reads without a lock, whole-row saves,
messages, retries and crashes come down to steps that accept, execute, book or drop a
plan, or change nothing of it. What brings a booking about in the end is
`ExecutionSettles`.

Deadlock checking is off where every instance is finite: when its operations are
used up, users stop. It is on for `query_cache` and `token_renewal`, whose users never
do. The waits that could form a cycle are in Idempotency, and `EveryRequestEnds`
covers them.

## 4. Statements that do not hold

Besides the two findings, the modules state what a comment, a doc or a name promises
and what TLC refutes on the instance of the module's run (or on the one named). They
are marked *does not hold* where they stand and are no properties of a run; the
hazards they belong to are in `PROJECT.json`.

| statement | module | why |
|---|---|---|
| `NeverDesync` | PlannedExecution, as in `planned_concurrent` with 2 amounts | a saved update writes the older status and link over the task's |
| `OneAnswer` | Idempotency | a replay discards the record of a deleted object and creates another |
| `NeverRewound` | Recurring | an update saves the pointer it read, over the newer one of a pass; what was generated is then generated again |
| `Covered` | TransactionItems | two overlapping edits do not see each other's rows, and each normalizes its own |
| `ItemCategoriesAgree` | TransactionItems | an update to another budget and a replacement of the items each check what the other changes |
| `CurrenciesAgree` | TransactionItems | the move in bulk checks the currency first and then updates |
| `AdjustmentMirrors` | TransactionItems | of two updates that overlap, one writes the adjustment and the other the transaction |
| `RemainderKeepsCategory` | TransactionItems | the remainder is deleted and created anew |
| `RequestsEnd` with `WrongPasswords = TRUE` | TokenRenewal | a refused password is taken for an old token: renewals and refusals may follow each other for as long as users sign in and out |
| `MutationsInvalidate` | QueryCache | the pairs in `Unrefreshed` |
| `UserHasTokens` | SignIn | a first load that fails late drops the tokens of a login, and a load that succeeds overtakes a logout |
| `GateShut` | SignIn | a version published since the status was read is not asked for |
| `LinkConfirms` | SignIn | a request lost on the way leaves the error page though the link is good |
| `CurrencyLocked` | TransactionForm | a receipt's currency replaces that of the chosen account |
| `ReadsStayHome` | TransactionForm | a receipt still being read when its form closes fills the next one |
| `AlwaysReseeds` | ItemsTab | a save without items of an adjustment that has none is answered with equal data: rows without a name stay in a table that is not dirty |
| `BadgeEnds`, `ReviewRowsMatch` | ReceiptsTab | a first poll that fails is not repeated, and a poll may follow an attachment that was removed; the rows of a review are kept for the next receipt |
| `NewClickLands` | ListPages | a click before the defaults are loaded is counted and not looked at again |
| `AlwaysSelected` | BudgetBoard | after a failed refetch nothing is reconciled, and a period that is not in the list stays selected |
| `PicksFresh` | BudgetBoard | the await of the refetch ends when it fails, too, and the page picks the deleted period from the old list |
| `PastIsReadOnly` | BudgetBoard | a cell that is being edited stays open when a past period is picked |
| `EditOpensFresh`, `LastPairWasRecorded` | TransferForm | the detail query keeps its last answer; the pair is read from the form when the answer comes |
| `MoveGoesItsWay` | Bookmarks | the neighbour is found before the locks: of two moves up of one bookmark the second takes the first one back |
| `DeletedStays` | Bookmarks | a save that read the row before it was deleted inserts it again |
| `OthersUntouched` | DefaultsPanel | of two saves that overlap, the later one writes the pages of the other as it read them |
| `SavesWhatItShowed` | DefaultsPanel | the section can be saved before the query has answered, and clears what it did not show |
| `EscapeClosesOne`, `SheetPicksFirst` | Listbox | a press on a row of a MultiSelect takes the focus from where Escape is heard; a sheet highlights the chosen row |

The rest of the statements that no run lists were checked on the same instances and
hold: `DoneIsFinal`, `ErrorsHaveACause`, `GeneratesWithinRule`, `WindowFull`,
`OverfilledByReceiptOnly`, `RefetchKeepsSelection`,
`ShownIsExported`, `RendersSettle`, `OpensClean`, `EnterPicks`, `EditsAccepted`,
`CurrencyLocks`, `FormsEnd`; `WindowFull` excepts the rules in `rewound`.
`OverfilledByReceiptOnly` and, for one request at a time,
`DoneIsFinal` are also proved (section 5).

## 5. Proofs

All proofs are of the specifications without the bounds of a run, for every value of
the constants that satisfies the named assumptions of the module. They are safety
proofs: an inductive invariant, one lemma per action.

* `PlannedExecution_proofs`: `TypeCorrect`; `LinksCorrect` (`LinkIsOwn`). `LinkIsOwn`
  is not inductive: a request may hold a row read earlier and write its link back.
  `SnapshotsOwn` adds that a link held by a request is to a transaction of that plan,
  dead or alive; the foreign key then refuses the dead one. `OneLive`
  (`OneLiveBooking`) holds under any overlap. Its invariant `BookingInv` adds `Carried`:
  a live transaction of a plan that nobody overwrote is the link of the plan's row, and of
  the row of every request that read the plan since it was booked; a request that read it
  before is in `overtaken`. So the task that finds no link under the lock makes the only
  live booking. `Known` says that rows, requests and bookings are of plans that were
  inserted. `BookedOnce` (`AtMostOneBooking`) assumes
  `OneAtATime`: one request in flight and no repeated delivery. The invariant gives the
  right to book a plan to exactly one holder: the request about to send, a message, or
  a task. `planned_booked_twice` is the counterexample when the assumption is dropped.
  `BookingMatches` (`LinkedBookingMatches`) is also under `OneAtATime`. The task reads
  the payment date before it takes the lock and books on it after. `TaskDate` says that
  the date is still the plan's, because a plan that was executed keeps its payment date
  through every edit; `SaveMatches` that a request about to save neither changes that
  date nor mirrors into a booking of another.
  `PlansSettle` (`SettlesOnce`), under `OneAtATime` too, maps every step to one of
  `Settlement` or to a stutter: `SaveFresh` in the invariant makes a commit an execution
  of an open plan or no change of status, the right to book makes `Book` the first
  booking of a done plan, and `UnusedUnowned` makes it a transaction of no other plan.
  `DoneStays` (`DoneIsFinal`) follows from that refinement.
* `TransactionItems_proofs`: `TypeCorrect` for any interleaving, with the row-by-row
  rules of signs and facets; a request that was begun keeps a validated form (`Begun`).
  The other theorems are about steps, for any number of overlapping requests:
  `AmountCovered` (`StaysCovered`), `CategoriesAgree` (`CategoriesStayTogether`),
  `CurrenciesKept` (`CurrenciesStayEqual`), `AdjustmentKept` (`AdjustmentStaysMirror`)
  and `OnlyReceiptsOverfill` (`OverfilledByReceiptOnly`) name the kinds of edit that
  can break each agreement, and in which respect it must have been overtaken; section 4
  has the agreements themselves, which overlapping edits do break. The invariant `Inv`
  says of every request under way (`UnderWay`) what it knows (`Knows`): what it read of
  the transaction (`KnowsRow`) and of its items (`KnowsItems`) is so still, in what its
  writes rest on, unless `overtaken` says otherwise. `Covered` compares sums over sets of
  rows, which the model takes with a fold in an order that CHOOSE picks. The first part
  of the module is the theory of these sums: `SumsExist` and `SumsAgree` give the
  recursive function that the fold stands for, `TotalWithout` says that any row may be
  taken out first, `TotalOfSame` that only the totals of the rows count. No induction
  theorem is cited: each is shown by a smallest counterexample among the subsets of a
  finite set (`WFMin` over `FS_StrictSubsetOrderingWellFounded`). `NormalizedCovers`
  then proves of `_normalize_coverage` itself that what it leaves covers the amount.
* `Idempotency_proofs`: `TypeCorrect` and `OneObjectPerKey` (`OneLiveObject`). The
  strengthening is the conjunction of five parts: `Indexed`, a live object in its
  24 hours is the target of its key's row; `Reserved`, an open transaction that has
  inserted is alone with its key and its object; `Held`, an open transaction that
  has deleted a row holds that row's lock, and the row protects no live object;
  `Ids`, the ids of rows belong to requests that have answered, and a request about
  to discard a row saw it without a target; and `Plain`, only a created object has
  a key.
* `Extraction_proofs`: `TypeCorrect`, `RowsKeepObjects` (`RowsHaveObjects`) and
  `FilledStored` (`FilledFromStoredResult`). Both rest on `Fresh`: the attachment of
  an upload is known to no other request, message or task, so nobody can drop its
  object before the row is inserted, and the row that appears without a result is
  not one that was filled from. `InsertsStored` and `FillsStored` add what the request
  and the task have done by the time they take their last step.
* `Recurring_proofs`: `TypeCorrect`, `GeneratedOnce` (`NeverTwice`) and
  `NothingPassedOver` (`NoOccurrenceLost`), for any schedule, window and number of
  rules, passes and requests, and for updates that overlap with all of them. `Pointers`
  says that the pointer of a rule which no stale update wrote over has reached every
  occurrence that was generated (`Covers`), and that every plan which carries a rule
  stands for a generated occurrence or for one its pointer has reached (`Backed`);
  `Fresh` says the latter of the pointer an update is about to save, however old.
  `Recorded` says that ids tell what was generated, `Linked` that nothing names a rule
  that is not there. `NeverTwice` excepts the rules in `rewound`, `NoOccurrenceLost` an
  update that saves a pointer ahead of the stored one (`Leaps`). That a window loses
  nothing needs that it is filled from its first day on: the last day generated is a
  minimum, taken by well-founded induction on days, and windows grow with their bound
  (`FS_Subset`).
* `TokenRenewal_proofs`: `TypeCorrect`, `SessionKept` (`ThrownOut`) and `OneRenewal`,
  that `TokenRenewal` implements `SingleRenewal` (its initial states and every step;
  fairness is checked by `RenewsOnce`). `WaitsForRefresh` says that nobody waits for
  a renewal that does not run, `HasToken` that one that runs carries a token, `Quiet`
  that a tab that is not loaded has no requests. For `ThrownOut` the invariant adds
  `Kept` for as long as nothing happened that may end a session: one tab renews at a
  time, its token is good, and the stored one is good unless its successor is on the
  way.
* `QueryCache_proofs`: `FreshShowsTold` (`FreshAgrees`), for any number of calls and of
  changes made elsewhere. `ToldShown` says of every change that the entry is told of:
  its answer is still to come, or the entry shows it, is stale or known to be older, or
  holds what an optimistic handler expects; and a request that was served already shows
  it or is known to be older. Nothing is evaluated of the table of queries and mutations:
  `TableAssumption` is what the argument needs of it - what is told is told by a handler
  that does something, an optimistic handler invalidates whatever the answer - and TLC
  evaluates it for every pair.
* `Pages_proofs`: everything that the run `pages` checks, for every value of the
  constants: any number of users, rows, accounts, options, sessions and requests.
  `PagesInv` says that the page which is followed has its own invariant; a step of one
  page leaves the variables of the others alone (the `...Frame` lemmas), so each page's
  invariant is shown for the instance of that page. What the pages' invariants add to the
  properties:
  - SignIn (`GateKept`): what is outdated but was not when the form, or the function that
    grants, was told, was published since.
  - TransactionForm (`BooksOnce`, `Forgotten`): a session holds one key wherever it is
    held - form, save, late create - and a key that was served is kept by the server
    (`OneKey`, `BookedKept`); a closed form leaves no receipt behind.
  - ItemsTab (`Unedited`, `Edited`): a table that is not dirty is the image of the query
    it was seeded from, but for an adjustment without items.
  - PlannedRows (`SwitchOwned`, `CaughtUp`): every answer that a change outdated is
    going to be fetched again, or the query is marked.
  - TransferForm (`TypedStays`), BudgetBoard (`PicksExisting`), ListPages
    (`StaysCleared`, `Followed`): what the user did last is newer than what the page
    fills in; a list that is fresh, with no deletion being answered, names only periods
    that exist, and the await of a refetch that did not fail ends with such a list; what
    was filled in once from the defaults or the view is not again.
  - MembersPage (`OfferedGranted`, `OneOwner`): a dialog and a request keep the two
    roles they were offered by (`DialogsOffered`, `RequestsOffered`); the server's rules
    preserve that the creator is the owner whatever the pages send.
  - Bookmarks (`LocksInOrder`): a move that waits holds a row with a smaller id than the
    one it waits for, so a set of moves in which each waits for another would have a
    smallest id that is not the smallest (`LeastNumber`).
  - DefaultsPanel (`Told`): unless an answer was lost since a fetch was served last, the
    query's data and the server's document differ only by what is on its way.
  - Listbox (`DialogKept`): an open panel has the focus inside itself.

Every safety property of a run has a theorem. Only model-checked is liveness
(`ExecutionSettles`, `EveryRequestEnds`, `CatchesUp`, `PendingEnds`, `RequestsEnd`,
`LookAgain`, `FirstBadgeEnds`, and the fairness of `RenewsOnce`), which is beyond the
provers, and what the table of the cache says, which TLC evaluates.

## 6. Not modelled, and why

* Of plans: import, export, listing. Of items: names, positions, notes, decimal
  rounding, the description that auto-fill may set. Of rules: plans whose date the
  user moves, and months of different lengths. Of attachments: validation of files
  and thumbnails. The limit on attachments is a guard of the model, as in the code,
  and can be exceeded by overlapping uploads.
* Periods, categories, accounts, transfers, currencies, workspaces, tokens and
  two-factor on the server side: check-then-write services of the kind
  PlannedExecution and TransactionItems show; they are the next modules of the plan.
  What they do to a transaction, to the cache and to the pages is in the modules above.
* Of the frontend: messages, layout, charts, thumbnails, translations, bulk actions,
  two-factor enrolment, the amounts of transfers and the category budgets of a period.
* Reports, the throttle, demo data, configuration and adapters have no state that
  several actors share beyond one counter or one request.
* Account export and import are long conversions without control of interest; they
  are better served by round-trip tests.

## 7. Plan

Done: PlannedExecution with Settlement, Idempotency, Recurring, TransactionItems,
Extraction; the session and the cache of the frontend (TokenRenewal with SingleRenewal,
SignIn, CacheKeys with QueryCache); its pages and controls (the eleven of Pages,
ReceiptsTab). Next, in this order:

1. **Periods**: lazy derivation with clamping, custom periods, copy-forward, category
   budgets; disjointness and one period per date. Bounds: a calendar of some ten
   days, two cadences, two requests.
2. **LedgerReferences**: accounts, transfers, currencies, categories and what refers
   to them: delete guards, defaults, last currency, merge against writers.
3. **Membership** on the server: workspaces and the active workspace. MembersPage has
   the roles already.
4. **Sessions** on the server: temporary tokens, two-factor codes, password change,
   as the counterpart of SignIn and TokenRenewal.
5. **Calendar**: stepping by months with clamping, a pure function against a
   reference definition; Recurring over it, with plans that users move.
6. Composition of Recurring with PlannedExecution over one table of plans, and of
   ItemsTab with ReceiptsTab over one transaction.
7. Proofs: that Idempotency implements an abstract map from keys to answers;
   disjointness of periods.
