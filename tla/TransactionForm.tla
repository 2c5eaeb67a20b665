-------------------------- MODULE TransactionForm --------------------------
(***************************************************************************)
(* The form of a transaction and the two places that open it               *)
(* (src/frontend/src/components/modals/transactions/                       *)
(* TransactionFormModal.tsx, pages/Transactions.tsx and                    *)
(* components/layout/BottomNav.tsx).                                       *)
(*                                                                         *)
(* The component stays mounted.  Each opening, and each change of what it  *)
(* shows, is a session that seeds the fields anew; requests to read a      *)
(* receipt and to save outlive the session that sent them.  A session that *)
(* creates mints an idempotency key, which the server honours              *)
(* (Idempotency.tla).  Of the fields those are kept that the properties    *)
(* tell apart: the account and the currency, the type, and the receipt     *)
(* whose items and file the form holds.                                    *)
(***************************************************************************)
EXTENDS Naturals, FiniteSets

CONSTANTS
  Accounts, Currencies,
  CurrencyOf,     \* CurrencyOf[a]: the currency of account a
  Receipts,       \* the files that are read; a bound
  MaxSessions,    \* bound on the sessions
  MaxChanges,     \* bound on the changes of the accounts while the tab is open
  None

TransactionFormAssumption ==
  /\ CurrencyOf \in [Accounts -> Currencies] /\ Currencies # {}
  /\ None \notin Accounts \cup Currencies \cup Receipts \cup Nat
  /\ MaxSessions \in Nat /\ MaxChanges \in Nat

VARIABLES
  host,      \* who opens the form: the transactions page, or the bottom bar
  open,      \* its prop
  prefill,   \* the bottom bar's receipt, a prop, too
  seen,      \* seenPrefill
  accounts,  \* the accounts the form knows
  changes,   \* how often they changed
  form,      \* the session and the fields
  minted,    \* how many keys were minted
  reads,     \* reads[r]: the request that reads r
  save,      \* the save under way
  late,      \* creates under way that the form has given up
  kept,      \* server: the keys it has a booking for
  booked     \* server: booked[s]: the bookings of session s

vars == <<host, open, prefill, seen, accounts, changes, form, minted, reads, save, late,
          kept, booked>>

serverVars == <<late, kept, booked>>

-----------------------------------------------------------------------------
Sessions == 0..MaxSessions

\* A session mints one key at most.
Keys == 1..(MaxSessions + MaxChanges)

Modes == {"create", "copy", "edit"}

Types == {"expense", "adjustment"}

\* What a transaction that is shown tells: an account and its currency, or a
\* currency alone.
Transaction == {t \in [type : Types, account : Accounts \cup {None}, currency : Currencies] :
                  /\ t.account # None => t.currency = CurrencyOf[t.account]
                  /\ t.type = "adjustment" => t.account # None}

\* misread: history: a receipt left the account and the currency at odds.
Form == [session  : Sessions,
         mode     : Modes \cup {"closed"},
         key      : Keys \cup {None},
         type     : Types,
         account  : Accounts \cup {None},
         currency : Currencies \cup {None},
         receipt  : Receipts \cup {None},
         misread  : BOOLEAN]

Closed(s) == [session |-> s, mode |-> "closed", key |-> None, type |-> "expense",
              account |-> None, currency |-> None, receipt |-> None, misread |-> FALSE]

\* by: the session that asked for it, 0: the bottom bar.  account: the one the
\* callback sees, once its session is over.
Read == [state : {"new", "sent", "over"}, by : Sessions, account : Accounts \cup {None}]

NewRead == [state |-> "new", by |-> 0, account |-> None]
ReadOver == [state |-> "over", by |-> 0, account |-> None]

Save == [state   : {"idle", "create", "created", "update", "upload"},
         session : Sessions,
         key     : Keys \cup {None},
         receipt : Receipts \cup {None}]

Idle == [state |-> "idle", session |-> 0, key |-> None, receipt |-> None]

Create == [session : Sessions, key : Keys \cup {None}]

\* The account for a currency: the default of that currency, else the first.
pickAccountForCurrency(known, c) ==
  LET matches == {a \in known : CurrencyOf[a] = c}
  IN IF matches = {} THEN None ELSE CHOOSE a \in matches : TRUE

\* The only account of a workspace with one.
OnlyAccount(known) == IF Cardinality(known) = 1 THEN CHOOSE a \in known : TRUE ELSE None

Primary == CHOOSE c \in Currencies : TRUE

Init ==
  /\ host \in {"page", "nav"}
  /\ open = FALSE
  /\ prefill = None
  /\ seen = None
  /\ accounts \in SUBSET Accounts
  /\ changes = 0
  /\ form = Closed(0)
  /\ minted = 0
  /\ reads = [r \in Receipts |-> NewRead]
  /\ save = Idle
  /\ late = {}
  /\ kept = {}
  /\ booked = [s \in Sessions |-> 0]

-----------------------------------------------------------------------------
(* Sessions.                                                               *)

\* What receipt r, read in currency c, makes of the fields f; the callback sees
\* account a.  An enabled currency is taken first, then an account that holds
\* it, unless the one the callback sees does.
Filled(f, r, c, a, stray) ==
  LET pick  == pickAccountForCurrency(accounts, c)
      holds == a \in accounts /\ CurrencyOf[a] = c
  IN [f EXCEPT !.receipt  = r,
               !.currency = IF c # None THEN c ELSE @,
               !.account  = IF pick # None /\ ~holds THEN pick ELSE @,
               !.misread  = @ \/ stray \/ (c # None /\ pick = None)]

\* The fields of a new session that creates.
Fresh(s, k) ==
  LET only == OnlyAccount(accounts)
  IN [session |-> s, mode |-> "create", key |-> k, type |-> "expense", account |-> only,
      currency |-> IF only # None THEN CurrencyOf[only] ELSE Primary,
      receipt |-> None, misread |-> FALSE]

\* The fields of one that shows t; only an edit sends no key.
Shows(s, mode, t, k) ==
  [session |-> s, mode |-> mode, key |-> IF mode = "edit" THEN None ELSE k, type |-> t.type,
   account |-> t.account, currency |-> t.currency, receipt |-> None, misread |-> FALSE]

\* Each session gets a number, and the key that is next.
Opening == form.session < MaxSessions /\ minted < MaxSessions + MaxChanges

\* Mutant: does not open the form.
SeedUnopened(f) ==
  /\ open' = open
  /\ form' = f
  /\ minted' = IF f.key = None THEN minted ELSE minted + 1
  /\ reads' = reads

\* A session starts with the fields f.  parse.reset() forgets the requests to
\* read of earlier sessions; their callbacks see this first rendering.
Seed(f) ==
  /\ open' = TRUE
  /\ form' = f
  /\ minted' = IF f.key = None THEN minted ELSE minted + 1
  /\ reads' = [r \in Receipts |->
                 IF reads[r].state = "sent" /\ reads[r].by # 0
                 THEN [reads[r] EXCEPT !.account = f.account] ELSE reads[r]]

\* The buttons of the page: one that adds, and three for each row.
PageButtons == host = "page" /\ ~open

\* The copy button of the form that edits.
CopyButton == host = "page" /\ open /\ form.mode = "edit"

\* The bottom bar's sheet of actions.
QuickAddActions == host = "nav" /\ ~open

openNew ==
  /\ PageButtons /\ Opening
  /\ Seed(Fresh(form.session + 1, minted + 1))
  /\ UNCHANGED <<host, prefill, seen, accounts, changes, save, serverVars>>

openEdit(t) ==
  /\ PageButtons /\ Opening
  /\ Seed(Shows(form.session + 1, "edit", t, None))
  /\ UNCHANGED <<host, prefill, seen, accounts, changes, save, serverVars>>

\* From the list, or from the form that edits it.
openCopy(t) ==
  /\ PageButtons \/ CopyButton
  /\ Opening
  /\ Seed(Shows(form.session + 1, "copy", t, minted + 1))
  /\ UNCHANGED <<host, prefill, seen, accounts, changes, save, serverVars>>

\* The bottom bar's form with receipt r, in currency c: applied once.
Prefilled(r, c) ==
  LET f == Fresh(form.session + 1, minted + 1)
  IN IF r # None /\ r # seen THEN Filled(f, r, c, f.account, FALSE) ELSE f

quickAdd ==
  /\ QuickAddActions /\ Opening
  /\ \E c \in Currencies \cup {None} : Seed(Prefilled(prefill, c))
  /\ seen' = IF prefill # None THEN prefill ELSE seen
  /\ UNCHANGED <<host, prefill, accounts, changes, save, serverVars>>

\* Mutant: the bottom bar keeps the receipt.
CloseKeeping ==
  /\ open' = FALSE
  /\ form' = Closed(form.session)
  /\ UNCHANGED prefill

\* onClose, of either host.
Close ==
  /\ open' = FALSE
  /\ form' = Closed(form.session)
  /\ prefill' = None

\* The buttons of the footer: Cancel, or Delete, which asks elsewhere.
Footer ==
  /\ open
  /\ Close
  /\ UNCHANGED <<host, seen, accounts, changes, minted, reads, save, serverVars>>

\* Mutant: a list that arrives seeds the form anew, with a new key.
setSeededLensAnew(known) ==
  /\ changes < MaxChanges /\ known # accounts
  /\ accounts' = known
  /\ changes' = changes + 1
  /\ IF open /\ form.mode = "create" /\ Cardinality(known) # Cardinality(accounts)
     THEN /\ form' = [form EXCEPT !.key = minted + 1]
          /\ minted' = minted + 1
     ELSE UNCHANGED <<form, minted>>
  /\ UNCHANGED <<host, open, prefill, seen, reads, save, serverVars>>

\* The accounts are fetched again.  Where their number changed, a form that
\* creates and has no account takes the only one.
setSeededLens(known) ==
  /\ changes < MaxChanges /\ known # accounts
  /\ accounts' = known
  /\ changes' = changes + 1
  /\ form' = IF /\ open /\ form.mode = "create" /\ form.account = None
                /\ Cardinality(known) = 1 /\ Cardinality(known) # Cardinality(accounts)
             THEN [form EXCEPT !.account  = OnlyAccount(known),
                               !.currency = CurrencyOf[OnlyAccount(known)]]
             ELSE form
  /\ UNCHANGED <<host, open, prefill, seen, minted, reads, save, serverVars>>

-----------------------------------------------------------------------------
(* The fields.                                                             *)

\* An adjustment cannot do without an account.
AccountSelect == accounts \cup (IF form.type = "adjustment" THEN {} ELSE {None})

\* The currency is locked while there is an account.
CurrencyEnabled == form.account = None

TypeSelect(type) ==
  /\ open
  /\ form' = [form EXCEPT !.type = type]
  /\ UNCHANGED <<host, open, prefill, seen, accounts, changes, minted, reads, save, serverVars>>

\* An account brings its currency; without one the currency stays.
handleAccountChange(a) ==
  /\ open /\ a \in AccountSelect
  /\ form' = [form EXCEPT !.account  = a,
                          !.currency = IF a = None THEN @ ELSE CurrencyOf[a],
                          !.misread  = FALSE]
  /\ UNCHANGED <<host, open, prefill, seen, accounts, changes, minted, reads, save, serverVars>>

CurrencySelect(c) ==
  /\ open /\ CurrencyEnabled
  /\ form' = [form EXCEPT !.currency = c]
  /\ UNCHANGED <<host, open, prefill, seen, accounts, changes, minted, reads, save, serverVars>>

-----------------------------------------------------------------------------
(* Receipts.                                                               *)

Sent(r, by) == [reads EXCEPT ![r] = [state |-> "sent", by |-> by, account |-> None]]

\* Shown by a form that creates, disabled while it reads.
ReceiptButton ==
  /\ open /\ form.mode # "edit"
  /\ ~\E q \in Receipts : reads[q].state = "sent" /\ reads[q].by = form.session

handleFile(r) ==
  /\ ReceiptButton
  /\ reads[r].state = "new"
  /\ reads' = Sent(r, form.session)
  /\ UNCHANGED <<host, open, prefill, seen, accounts, changes, form, minted, save, serverVars>>

\* The bottom bar reads the file first.
handleReceiptFile(r) ==
  /\ QuickAddActions
  /\ reads[r].state = "new"
  /\ reads' = Sent(r, 0)
  /\ UNCHANGED <<host, open, prefill, seen, accounts, changes, form, minted, save, serverVars>>

\* The account the callback of r sees.
Callback(r) == IF reads[r].by = form.session THEN form.account ELSE reads[r].account

\* The form's receipt is read.  The callback fills the form that is open, also
\* one of a later session.
parseSucceeds(r, c) ==
  /\ reads[r].state = "sent" /\ reads[r].by # 0
  /\ reads' = [reads EXCEPT ![r] = ReadOver]
  /\ form' = IF open THEN Filled(form, r, c, Callback(r), reads[r].by # form.session) ELSE form
  /\ UNCHANGED <<host, open, prefill, seen, accounts, changes, minted, save, serverVars>>

\* The bottom bar's receipt is read: the form opens with it; one that is open
\* already does not look at it.
receiptArrives(r, c) ==
  /\ reads[r].state = "sent" /\ reads[r].by = 0
  /\ prefill' = r
  /\ IF open
     THEN /\ reads' = [reads EXCEPT ![r] = ReadOver]
          /\ UNCHANGED <<open, form, minted, seen>>
     ELSE /\ Opening
          /\ LET f == Prefilled(r, c)
             IN /\ open' = TRUE
                /\ form' = f
                /\ minted' = minted + 1
                /\ reads' = [q \in Receipts |->
                               IF q = r THEN ReadOver
                               ELSE IF reads[q].state = "sent" /\ reads[q].by # 0
                               THEN [reads[q] EXCEPT !.account = f.account] ELSE reads[q]]
          /\ seen' = r
  /\ UNCHANGED <<host, accounts, changes, save, serverVars>>

parseFails(r) ==
  /\ reads[r].state = "sent"
  /\ reads' = [reads EXCEPT ![r] = ReadOver]
  /\ UNCHANGED <<host, open, prefill, seen, accounts, changes, form, minted, save, serverVars>>

-----------------------------------------------------------------------------
(* Saving.                                                                 *)

\* One save at a time, also across sessions.
SaveButton == open /\ save.state = "idle"

\* What the form asks for before it sends anything.
Complete == (form.type = "adjustment" => form.account # None) /\ form.currency # None

handleSubmit ==
  /\ SaveButton /\ Complete
  /\ save' = [state   |-> IF form.mode = "edit" THEN "update" ELSE "create",
              session |-> form.session,
              key     |-> form.key,
              receipt |-> form.receipt]
  /\ UNCHANGED <<host, open, prefill, seen, accounts, changes, form, minted, reads, serverVars>>

\* The server books a create, unless it has a booking under its key.
Book(s, k) ==
  /\ booked' = [booked EXCEPT ![s] = IF k \in kept THEN @ ELSE @ + 1]
  /\ kept' = IF k = None THEN kept ELSE kept \cup {k}

Served ==
  /\ save.state = "create"
  /\ Book(save.session, save.key)
  /\ save' = [save EXCEPT !.state = "created"]
  /\ UNCHANGED <<host, open, prefill, seen, accounts, changes, form, minted, reads, late>>

\* The form gives up a request that the server may still serve.
GivenUp ==
  /\ save.state = "create"
  /\ late' = late \cup {[session |-> save.session, key |-> save.key]}
  /\ save' = Idle
  /\ UNCHANGED <<host, open, prefill, seen, accounts, changes, form, minted, reads, kept, booked>>

ServedLate(w) ==
  /\ w \in late
  /\ Book(w.session, w.key)
  /\ late' = late \ {w}
  /\ UNCHANGED <<host, open, prefill, seen, accounts, changes, form, minted, reads, save>>

\* Refused, or the answer is lost.
SaveFails ==
  /\ save.state \in {"create", "created", "update"}
  /\ save' = Idle
  /\ UNCHANGED <<host, open, prefill, seen, accounts, changes, form, minted, reads, serverVars>>

\* The receipt's file follows its transaction.
uploadAttachment ==
  /\ save.state = "created" /\ save.receipt # None
  /\ save' = [save EXCEPT !.state = "upload"]
  /\ UNCHANGED <<host, open, prefill, seen, accounts, changes, form, minted, reads, serverVars>>

\* The last answer, whether the file was taken or not: the form is closed, also
\* one that was opened meanwhile.
Saved ==
  /\ \/ save.state = "created" /\ save.receipt = None
     \/ save.state \in {"update", "upload"}
  /\ save' = Idle
  /\ IF open THEN Close ELSE UNCHANGED <<open, form>> /\ prefill' = None
  /\ UNCHANGED <<host, seen, accounts, changes, minted, reads, serverVars>>

-----------------------------------------------------------------------------
User ==
  \/ openNew \/ quickAdd \/ Footer \/ handleSubmit
  \/ \E t \in Transaction : openEdit(t) \/ openCopy(t)
  \/ \E type \in Types : TypeSelect(type)
  \/ \E a \in Accounts \cup {None} : handleAccountChange(a)
  \/ \E c \in Currencies : CurrencySelect(c)
  \/ \E r \in Receipts : handleFile(r) \/ handleReceiptFile(r)

Reading(r) ==
  \/ \E c \in Currencies \cup {None} : parseSucceeds(r, c) \/ receiptArrives(r, c)
  \/ parseFails(r)

Saving == Served \/ GivenUp \/ SaveFails \/ uploadAttachment \/ Saved

Next ==
  \/ User
  \/ \E r \in Receipts : Reading(r)
  \/ Saving
  \/ \E w \in late : ServedLate(w)
  \/ \E known \in SUBSET Accounts : setSeededLens(known)

Spec == Init /\ [][Next]_vars

-----------------------------------------------------------------------------
(* Properties.                                                             *)

TypeOK ==
  /\ host \in {"page", "nav"}
  /\ open \in BOOLEAN
  /\ prefill \in Receipts \cup {None} /\ seen \in Receipts \cup {None}
  /\ accounts \subseteq Accounts
  /\ changes \in 0..MaxChanges
  /\ form \in Form
  /\ open <=> form.mode # "closed"
  /\ minted \in 0..(MaxSessions + MaxChanges)
  /\ reads \in [Receipts -> Read]
  /\ save \in Save
  /\ late \subseteq Create
  /\ kept \subseteq Keys
  /\ booked \in [Sessions -> Nat]

\* TransactionFormModal: "makes a double-click or a network-blip replay return
\* the original 201 instead of a duplicate": one session books one transaction,
\* however often it is submitted, and whatever is lost or late.
OneBooking == \A s \in Sessions : booked[s] <= 1

\* An account locks the currency to its own through every change of the fields,
\* the session and the list, unless a receipt in another currency, or one of an
\* earlier session, came between.
CurrencyLocks == form.account # None /\ ~form.misread => form.currency = CurrencyOf[form.account]

\* The items and the file of a receipt fill one form: closed with it, they do not
\* come back in a later one.
DroppedStaysOut ==
  \A r \in Receipts : form'.receipt = r /\ form.receipt # r => reads[r].state = "sent"

\* docs/workflow.md: the currency locks to the account's when one is set.
\* Does not hold: the currency of a receipt replaces that of the chosen account.
CurrencyLocked == form.account # None => form.currency = CurrencyOf[form.account]

\* TransactionFormModal: a session closed while it reads must not leak.
\* Does not hold: a receipt still being read when its form closes fills the next one.
ReadsStayHome ==
  \A r \in Receipts : form'.receipt = r /\ form.receipt # r /\ reads[r].by # 0
    => reads[r].by = form.session
=============================================================================
