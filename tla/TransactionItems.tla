-------------------------- MODULE TransactionItems --------------------------
(***************************************************************************)
(* One transaction with its line items and its auto-generated adjustment   *)
(* (TransactionService in backend/transactions/services.py).               *)
(*                                                                         *)
(* Every request is one database transaction at READ COMMITTED that takes  *)
(* no row lock: it reads the row of the transaction, then the item rows,   *)
(* and its writes become visible when it commits.  Amounts are numbers of  *)
(* cents.  Names, dates, notes and the position of an item are left out,   *)
(* and so is the period that a categorized transaction touches.            *)
(***************************************************************************)
EXTENDS Integers, Sequences, FiniteSets, FiniteSetsExt

CONSTANTS
  Categories, BudgetOf,   \* BudgetOf[k]: the budget of category k
  Accounts, CurrencyOf,   \* CurrencyOf[a]: the currency of account a
  Currencies,
  Forms,        \* what clients send to create or replace the transaction
  Lists,        \* the item lists they send
  Receipts,     \* the item lists the parser answers with
  Requests,     \* requests and extraction tasks that can be in flight
  MaxRows,      \* the longest item list, a bound
  MaxOps,       \* how many operations begin, a bound
  None          \* SQL NULL, no row

Form == [type : {"expense", "income", "adjustment"}, amount : Int,
         account : Accounts \cup {None}, code : Currencies \cup {None},
         cat : Categories \cup {None},
         orig : Nat, origCur : Currencies \cup {None}, origAccount : Accounts \cup {None}]

\* The schema's own checks of the original-currency facet; 0 means no facet.
FacetAllowed(f) ==
  /\ f.orig = 0 <=> f.origCur = None
  /\ f.origAccount # None => f.orig # 0
  /\ f.orig # 0 => f.type # "adjustment"

VARIABLES
  trans,      \* the columns of the transaction, None while no such row exists
  born,       \* was it ever created
  items,      \* items[i]: the columns of item i, None while no such row exists
  adj,        \* the linked adjustment, None while no such row exists
  category,   \* category[k]: "live", "archived" or "gone"
  closed,     \* the archived accounts
  request,
  overtaken,  \* overtaken[q]: what others wrote of what q reads, since q began
  ops         \* operations begun so far

vars == <<trans, born, items, adj, category, closed, request, overtaken, ops>>
world == <<category, closed>>

-----------------------------------------------------------------------------
\* Item <<op, n>> is the n-th row that operation op inserts, 0 the remainder.
Ids == (1..MaxOps) \X (0..MaxRows)

Item == [total : Int, cat : Categories \cup {None}, rem : BOOLEAN]

Trans == [type : {"expense", "income", "adjustment"}, amount : Int,
          account : Accounts \cup {None}, cur : Currencies, cat : Categories \cup {None},
          orig : Nat, origCur : Currencies \cup {None}]

\* op is the operation that inserted the row.
Adjustment == [op : 1..MaxOps, account : Accounts, amount : Int]

\* A row of a list that is sent or parsed; the parser knows no categories.
Line == [total : Int, cat : Categories \cup {None}]

ASSUME ConstantsAssumption ==
  /\ DOMAIN BudgetOf = Categories
  /\ CurrencyOf \in [Accounts -> Currencies]
  /\ \A f \in Forms : f \in Form /\ FacetAllowed(f)
  /\ MaxRows \in Nat /\ MaxOps \in Nat
  /\ \A list \in Lists \cup Receipts : list \in Seq(Line) /\ Len(list) <= MaxRows
  /\ \A list \in Receipts : \A n \in DOMAIN list : list[n].cat = None
  /\ None \notin Categories \cup Accounts \cup Currencies \cup Item \cup Trans \cup Adjustment
  /\ None \notin Requests

Empty == [i \in Ids |-> None]

Idle == [pc |-> "idle", kind |-> "none", op |-> 0, row |-> None, linked |-> None,
         facet |-> None, given |-> <<>>, remCat |-> None, before |-> Empty, after |-> Empty]

Request == [pc : {"idle", "begun", "ready"},
            kind : {"none", "update", "replace", "fill", "move"}, op : 0..MaxOps,
            row : Trans \cup {None}, linked : Adjustment \cup {None},
            facet : Accounts \cup {None}, given : Seq(Line), remCat : Categories \cup {None},
            before : [Ids -> Item \cup {None}], after : [Ids -> Item \cup {None}]]

Init ==
  /\ trans = None /\ born = FALSE
  /\ items = Empty
  /\ adj = None
  /\ category = [k \in Categories |-> "live"]
  /\ closed = {}
  /\ request = [q \in Requests |-> Idle]
  /\ overtaken = [q \in Requests |-> {}]
  /\ ops = 0

-----------------------------------------------------------------------------
(* Coverage.  t is a table of items.                                       *)

Rows(t) == {i \in Ids : t[i] # None}
UserRows(t) == {i \in Rows(t) : ~t[i].rem}
Remainders(t) == {i \in Rows(t) : t[i].rem}
Total(t, S) == MapThenSumSet(LAMBDA i : t[i].total, S)

\* Mutation: the remainder row counts as one of the user's.
RestOfAll(row, t) == row.amount - Total(t, Rows(t))

Rest(row, t) == row.amount - Total(t, UserRows(t))

\* The check that user requests make; auto-fill is lenient.
OverSum(row, t) == row.type # "adjustment" /\ Rest(row, t) < 0

\* _normalize_coverage: the tables it can leave behind.  first() picks one
\* remainder row.
Normalized(row, t, op) ==
  IF row.type = "adjustment"
  THEN {[i \in Ids |-> IF i \in Remainders(t) THEN None ELSE t[i]]}
  ELSE IF Remainders(t) = {}
  THEN {IF Rest(row, t) <= 0 THEN t
        ELSE [t EXCEPT ![<<op, 0>>] = [total |-> Rest(row, t), cat |-> None, rem |-> TRUE]]}
  ELSE {[t EXCEPT ![i] = IF Rest(row, t) <= 0 THEN None ELSE [t[i] EXCEPT !.total = Rest(row, t)]] :
          i \in Remainders(t)}

\* bulk_create of a list of items by operation op, on top of the table t.
WithRows(t, op, list) ==
  [i \in Ids |-> IF i[1] = op /\ i[2] \in DOMAIN list
                 THEN [total |-> list[i[2]].total, cat |-> list[i[2]].cat, rem |-> FALSE]
                 ELSE t[i]]

-----------------------------------------------------------------------------
(* The validations.                                                        *)

TypeAmountAllowed(f) ==
  IF f.type = "adjustment"
  THEN f.amount # 0 /\ f.cat = None /\ f.account # None
  ELSE f.amount > 0

CurrencyFor(f) == IF f.account # None THEN CurrencyOf[f.account] ELSE f.code

CurrencyAllowed(f) ==
  /\ f.account # None => f.code \in {None, CurrencyOf[f.account]}
  /\ f.account = None => f.code # None

CategoryAllowed(k) == k # None => category[k] = "live"

\* Mutation: rows already stored are not looked at.
StoredUnchecked(k, cats) == TRUE

\* _validate_item_categories: explicit categories need a category of the
\* transaction, in the same budget.
ItemCategoriesAllowed(k, cats) ==
  \A c \in cats \ {None} : k # None /\ category[c] = "live" /\ BudgetOf[c] = BudgetOf[k]

OriginalAllowed(f) ==
  /\ f.origCur # None => f.origCur # CurrencyFor(f)
  /\ f.origAccount # None => CurrencyOf[f.origAccount] = f.origCur

RowOf(f) == [type |-> f.type, amount |-> f.amount, account |-> f.account,
             cur |-> CurrencyFor(f), cat |-> f.cat, orig |-> f.orig, origCur |-> f.origCur]

ListCategories(list) == {list[n].cat : n \in DOMAIN list}

Signed(row) == IF row.type = "expense" THEN -row.orig ELSE row.orig

\* Mutation: an adjustment that exists keeps its amount.
UpsertedAccountOnly(row, account, linked, op) ==
  IF linked # None THEN [linked EXCEPT !.account = account]
  ELSE [op |-> op, account |-> account, amount |-> Signed(row)]

Upserted(row, account, linked, op) ==
  [op |-> IF linked # None THEN linked.op ELSE op, account |-> account, amount |-> Signed(row)]

\* Mutation: the currencies are not compared.
MoveToAny(a) == a \notin closed

MoveAllowed(a) == a \notin closed /\ trans.cur = CurrencyOf[a]

-----------------------------------------------------------------------------
(* Requests.                                                               *)

Op == ops < MaxOps /\ ops' = ops + 1

Begin(q, r) == request' = [request EXCEPT ![q] = r]

\* POST /transactions: nobody sees the row before the commit.
Create(f, list) ==
  /\ Op
  /\ ~born
  /\ f.account \notin closed
  /\ TypeAmountAllowed(f) /\ CurrencyAllowed(f) /\ CategoryAllowed(f.cat)
  /\ ItemCategoriesAllowed(f.cat, ListCategories(list))
  /\ OriginalAllowed(f) /\ f.origAccount \notin closed
  /\ LET t == WithRows(Empty, ops', list) IN
     /\ ~OverSum(RowOf(f), t)
     /\ items' \in Normalized(RowOf(f), t, ops')
  /\ born' = TRUE
  /\ trans' = RowOf(f)
  /\ adj' = IF f.origAccount = None THEN None ELSE Upserted(RowOf(f), f.origAccount, None, ops')
  /\ UNCHANGED <<world, request, overtaken>>

\* PUT /transactions/{id}: the row is read and the form validated.
BeginUpdate(q, f) ==
  /\ Op
  /\ request[q].pc = "idle"
  /\ trans # None
  /\ f.account \in closed => f.account = trans.account
  /\ TypeAmountAllowed(f) /\ CurrencyAllowed(f) /\ CategoryAllowed(f.cat)
  /\ ItemCategoriesAllowed(f.cat, {items[i].cat : i \in Rows(items)})
  /\ OriginalAllowed(f)
  /\ f.origAccount \in closed => adj # None /\ adj.account = f.origAccount
  /\ Begin(q, [Idle EXCEPT !.pc = "begun", !.kind = "update", !.op = ops', !.row = RowOf(f),
                           !.linked = adj, !.facet = f.origAccount])
  /\ UNCHANGED <<trans, born, items, adj, world, overtaken>>

\* PUT /transactions/{id}/items, with an optional category of the remainder.
BeginReplace(q, list, k) ==
  /\ Op
  /\ request[q].pc = "idle"
  /\ trans # None
  /\ ItemCategoriesAllowed(trans.cat, ListCategories(list))
  /\ Begin(q, [Idle EXCEPT !.pc = "begun", !.kind = "replace", !.op = ops', !.row = trans,
                           !.given = list, !.remCat = k])
  /\ UNCHANGED <<trans, born, items, adj, world, overtaken>>

\* auto_fill_from_extraction: the extraction task has the parser's answer.
BeginFill(q, list) ==
  /\ Op
  /\ request[q].pc = "idle"
  /\ trans # None
  /\ Begin(q, [Idle EXCEPT !.pc = "begun", !.kind = "fill", !.op = ops', !.row = trans,
                           !.given = list])
  /\ UNCHANGED <<trans, born, items, adj, world, overtaken>>

\* The item rows are read and the writes follow from them.
Ready(q, t) ==
  /\ request' = [request EXCEPT ![q].pc = "ready", ![q].before = items, ![q].after = t]
  /\ UNCHANGED overtaken

Refuse(q) ==
  /\ request' = [request EXCEPT ![q] = Idle]
  /\ overtaken' = [overtaken EXCEPT ![q] = {}]

\* What this step writes, the account of the transaction aside.
Written ==
  (IF <<trans', adj'>> = <<trans, adj>> THEN {} ELSE {"row"})
    \cup (IF items' = items THEN {} ELSE {"items"})

\* The requests under way that p overtakes with its writes.
Overtake(p) ==
  overtaken' = [q \in Requests |-> IF q = p \/ request[q].pc = "idle" THEN {}
                                   ELSE overtaken[q] \cup Written]

Finish(q) == request' = [request EXCEPT ![q] = Idle] /\ Overtake(q)

PrepareUpdate(q) ==
  LET r == request[q] IN
  /\ r.pc = "begun" /\ r.kind = "update"
  /\ IF OverSum(r.row, items) THEN Refuse(q)
     ELSE \E t \in Normalized(r.row, items, r.op) : Ready(q, t)
  /\ UNCHANGED <<trans, born, items, adj, world, ops>>

\* The remainder takes the category that was sent, when there is a remainder.
WithRemainderCategory(t, k) ==
  [i \in Ids |-> IF i \in Remainders(t) /\ k # None THEN [t[i] EXCEPT !.cat = k] ELSE t[i]]

PrepareReplace(q) ==
  LET r == request[q]
      fresh == WithRows(Empty, r.op, r.given) IN
  /\ r.pc = "begun" /\ r.kind = "replace"
  /\ IF OverSum(r.row, fresh) THEN Refuse(q)
     ELSE \E t \in Normalized(r.row, fresh, r.op) :
            IF Remainders(t) # {} /\ ~ItemCategoriesAllowed(r.row.cat, {r.remCat})
            THEN Refuse(q)
            ELSE Ready(q, WithRemainderCategory(t, r.remCat))
  /\ UNCHANGED <<trans, born, items, adj, world, ops>>

FillWanted(t, list) == UserRows(t) = {} /\ list # <<>>

\* Parsed rows are kept whatever they sum to.
PrepareFill(q) ==
  LET r == request[q]
      kept == [i \in Ids |-> IF i \in Remainders(items) THEN None ELSE items[i]] IN
  /\ r.pc = "begun" /\ r.kind = "fill"
  /\ IF FillWanted(items, r.given)
     THEN \E t \in Normalized(r.row, WithRows(kept, r.op, r.given), r.op) : Ready(q, t)
     ELSE Refuse(q)
  /\ UNCHANGED <<trans, born, items, adj, world, ops>>

\* The rows as the commit leaves them: what others did meanwhile stays, and
\* resizing the remainder writes that column only.
Merged(r) ==
  [i \in Ids |->
     IF i \in Rows(r.before) \cap Rows(r.after)
     THEN IF i \in Remainders(items) THEN [items[i] EXCEPT !.total = r.after[i].total] ELSE items[i]
     ELSE IF i \in Rows(r.before) \cup Rows(r.after) THEN r.after[i] ELSE items[i]]

\* A new row whose category is gone, or a remainder row to resize that is
\* gone: the database refuses and everything is rolled back.
Broken(r) ==
  \/ \E i \in Rows(r.after) \ Rows(r.before) :
       r.after[i].cat # None /\ category[r.after[i].cat] = "gone"
  \/ \E i \in Remainders(r.before) \cap Remainders(r.after) : items[i] = None

\* One adjustment per source: an insert beside another one is refused.
Duplicate(r) == r.facet # None /\ adj # None /\ (r.linked = None \/ r.linked.op # adj.op)

\* The row is saved whole; the save inserts it again if it was deleted.
CommitUpdate(q) ==
  LET r == request[q] IN
  /\ r.pc = "ready" /\ r.kind = "update"
  /\ IF \/ Broken(r)
        \/ r.row.cat # None /\ category[r.row.cat] = "gone"
        \/ Duplicate(r)
     THEN UNCHANGED <<trans, items, adj>>
     ELSE /\ trans' = r.row
          /\ items' = Merged(r)
          /\ adj' = IF r.facet # None THEN Upserted(r.row, r.facet, r.linked, r.op)
                    ELSE IF r.linked # None /\ adj # None /\ adj.op = r.linked.op THEN None ELSE adj
  /\ Finish(q)
  /\ UNCHANGED <<born, world, ops>>

CommitItems(q) ==
  LET r == request[q] IN
  /\ r.pc = "ready" /\ r.kind \in {"replace", "fill"}
  /\ IF trans = None \/ Broken(r) THEN UNCHANGED items ELSE items' = Merged(r)
  /\ UNCHANGED <<trans, born, adj, world, ops>>
  /\ Finish(q)

\* POST /transactions/bulk-account: check, then one UPDATE.
BeginMove(q, a) ==
  /\ Op
  /\ request[q].pc = "idle"
  /\ trans # None
  /\ MoveAllowed(a)
  /\ Begin(q, [Idle EXCEPT !.pc = "ready", !.kind = "move", !.op = ops', !.facet = a])
  /\ UNCHANGED <<trans, born, items, adj, world, overtaken>>

CommitMove(q) ==
  /\ request[q].pc = "ready" /\ request[q].kind = "move"
  /\ trans' = IF trans = None THEN None ELSE [trans EXCEPT !.account = request[q].facet]
  /\ Refuse(q)
  /\ UNCHANGED <<born, items, adj, world, ops>>

\* DELETE /transactions/{id}: items and adjustment go by CASCADE.
Delete ==
  /\ Op
  /\ trans # None
  /\ trans' = None /\ items' = Empty /\ adj' = None
  /\ Overtake(None)
  /\ UNCHANGED <<born, world, request>>

-----------------------------------------------------------------------------
(* The other components.                                                   *)

\* Categories: archive or unarchive, merge k into l, delete (SET NULL).
ArchiveCategory(k) ==
  /\ Op
  /\ category[k] # "gone"
  /\ category' = [category EXCEPT ![k] = IF @ = "live" THEN "archived" ELSE "live"]
  /\ UNCHANGED <<trans, born, items, adj, closed, request, overtaken>>

Recategorized(k, l) ==
  /\ category' = [category EXCEPT ![k] = "gone"]
  /\ trans' = IF trans # None /\ trans.cat = k THEN [trans EXCEPT !.cat = l] ELSE trans
  /\ items' = [i \in Ids |-> IF i \in Rows(items) /\ items[i].cat = k
                             THEN [items[i] EXCEPT !.cat = l] ELSE items[i]]
  /\ UNCHANGED <<born, adj, closed, request, overtaken>>

MergeCategory(k, l) ==
  /\ Op
  /\ k # l /\ category[k] # "gone" /\ category[l] # "gone" /\ BudgetOf[k] = BudgetOf[l]
  /\ Recategorized(k, l)

DeleteCategory(k) ==
  /\ Op
  /\ category[k] # "gone"
  /\ Recategorized(k, None)

ArchiveAccount(a) ==
  /\ Op
  /\ closed' = IF a \in closed THEN closed \ {a} ELSE closed \cup {a}
  /\ UNCHANGED <<trans, born, items, adj, category, request, overtaken>>

Next ==
  \/ \E f \in Forms, list \in Lists : Create(f, list)
  \/ \E q \in Requests :
       \/ \E f \in Forms : BeginUpdate(q, f)
       \/ \E list \in Lists, k \in Categories \cup {None} : BeginReplace(q, list, k)
       \/ \E list \in Receipts : BeginFill(q, list)
       \/ \E a \in Accounts : BeginMove(q, a)
       \/ PrepareUpdate(q) \/ PrepareReplace(q) \/ PrepareFill(q)
       \/ CommitUpdate(q) \/ CommitItems(q) \/ CommitMove(q)
  \/ Delete
  \/ \E k \in Categories :
       \/ ArchiveCategory(k) \/ DeleteCategory(k)
       \/ \E l \in Categories : MergeCategory(k, l)
  \/ \E a \in Accounts : ArchiveAccount(a)

Spec == Init /\ [][Next]_vars

-----------------------------------------------------------------------------
(* Properties.                                                             *)

\* Types, and the constraints that hold row by row: signs, what an adjustment
\* may carry, both halves of the original-currency facet or neither.
TypeOK ==
  /\ trans \in Trans \cup {None} /\ born \in BOOLEAN
  /\ items \in [Ids -> Item \cup {None}]
  /\ adj \in Adjustment \cup {None}
  /\ category \in [Categories -> {"live", "archived", "gone"}] /\ closed \subseteq Accounts
  /\ ops \in 0..MaxOps
  /\ request \in [Requests -> Request]
  /\ overtaken \in [Requests -> SUBSET {"row", "items"}]
  /\ trans # None =>
       /\ trans.type = "adjustment" => trans.amount # 0 /\ trans.cat = None /\ trans.orig = 0
       /\ trans.type # "adjustment" => trans.amount > 0
       /\ trans.orig = 0 <=> trans.origCur = None

\* Request q of one of these kinds commits, overtaken in one of these respects.
Stale(q, kinds, respects) ==
  /\ request[q].pc = "ready" /\ request'[q].pc = "idle" /\ request[q].kind \in kinds
  /\ overtaken[q] \cap respects # {}

\* The coverage invariant: "every non-adjustment transaction's items sum to its
\* amount", by one remainder row at most.  Only the rows of a receipt may sum
\* to more, and then there is no remainder.
\* Does not hold: a request may normalize rows that another one has changed.
Covered ==
  /\ trans = None => Rows(items) = {}
  /\ trans # None =>
       /\ \A i, j \in Remainders(items) : i = j
       /\ trans.type = "adjustment" => Remainders(items) = {}
       /\ trans.type # "adjustment" =>
            IF Total(items, UserRows(items)) >= trans.amount THEN Remainders(items) = {}
            ELSE Total(items, Rows(items)) = trans.amount

\* However requests, merges, moves and deletions overlap, the coverage is lost
\* only to an edit that another edit or the deletion overtook: one that changed
\* the amount, the type or the rows after this one began.
StaysCovered ==
  [][Covered /\ ~Covered' =>
       \E q \in Requests : Stale(q, {"update", "replace", "fill"}, {"row", "items"})]_vars

Overfull == trans # None /\ trans.type # "adjustment" /\ Rest(trans, items) < 0

\* "Over-sum raises": no edit leaves items above the amount but one that was
\* overtaken; else only a receipt does, on a transaction without user rows.
OverfilledByReceiptOnly ==
  [][Overfull' /\ ~Overfull =>
       \E q \in Requests :
         \/ request[q].kind = "fill" /\ request'[q].pc = "idle" /\ UserRows(items) = {}
         \/ Stale(q, {"update", "replace", "fill"}, {"row", "items"})]_vars

\* "Explicit item categories must belong to the transaction category's budget."
\* A transaction whose own category was deleted is left with what it has.
\* Does not hold: an update and a replacement of the items may overlap.
ItemCategoriesAgree ==
  trans # None /\ trans.cat # None =>
    \A i \in Rows(items) : items[i].cat # None => BudgetOf[items[i].cat] = BudgetOf[trans.cat]

\* Merges, archiving and deletion of categories never part the categories of
\* the items from that of the transaction, whatever request they overlap: only
\* an update does whose items were replaced meanwhile, or a replacement whose
\* transaction was updated meanwhile.
CategoriesStayTogether ==
  [][ItemCategoriesAgree /\ ~ItemCategoriesAgree' =>
       \E q \in Requests : Stale(q, {"update"}, {"items"}) \/ Stale(q, {"replace"}, {"row"})]_vars

\* Whenever an account is set its currency is the transaction's, and the
\* facet records another one.
\* Does not hold: the move in bulk checks first and then updates.
CurrenciesAgree ==
  trans # None =>
    /\ trans.account # None => CurrencyOf[trans.account] = trans.cur
    /\ trans.origCur # trans.cur

\* No update breaks this however stale it is, for it saves account, currency
\* and facet together; a move in bulk does only if the transaction was updated
\* or deleted between its check and its UPDATE.
CurrenciesStayEqual ==
  [][CurrenciesAgree /\ ~CurrenciesAgree' =>
       \E q \in Requests : Stale(q, {"move"}, {"row"})]_vars

\* The linked adjustment mirrors its source: it exists only beside a source
\* with a facet, in the facet's currency, with the amount and sign of it.
\* Does not hold: two updates may overlap.
AdjustmentMirrors ==
  adj # None =>
    /\ trans # None /\ trans.orig # 0
    /\ CurrencyOf[adj.account] = trans.origCur
    /\ adj.amount = IF trans.type = "expense" THEN -trans.orig ELSE trans.orig

\* It stays one through edits, moves, receipts, merges and deletions: only an
\* update parts the two whose transaction or adjustment was written meanwhile.
AdjustmentStaysMirror ==
  [][AdjustmentMirrors /\ ~AdjustmentMirrors' =>
       \E q \in Requests : Stale(q, {"update"}, {"row"})]_vars

\* What the items endpoint promises: the remainder's category is unchanged
\* when the request leaves it out.
\* Does not hold: the remainder is deleted and created anew, with no category.
RemainderKeepsCategory ==
  [][\A q \in Requests :
       request[q].kind = "replace" /\ request[q].remCat = None /\ items' # items =>
         \A i \in Remainders(items), j \in Remainders(items') : items'[j].cat = items[i].cat]_vars
=============================================================================
