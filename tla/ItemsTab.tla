------------------------------ MODULE ItemsTab ------------------------------
(***************************************************************************)
(* The items below the form that edits a transaction: a table of rows,     *)
(* seeded from the query cache and saved as a whole                        *)
(* (src/frontend/src/components/transactions/TransactionItemsEditor.tsx    *)
(* and TransactionItemsList.tsx).                                          *)
(*                                                                         *)
(* A tab that is not selected is not mounted: its state is lost, the cache *)
(* and the requests it sent stay.  What the server does to items is in     *)
(* TransactionItems.tla: here a save stores what it sends.  Meanwhile      *)
(* receipts are read into the items: by a task that finds none, or by the  *)
(* review of the other tab (ReceiptsTab.tla).  A row is its line; what its *)
(* fields hold is left out but for the name.                               *)
(***************************************************************************)
EXTENDS Naturals, FiniteSets, Sequences

CONSTANTS
  Lines,      \* items that are there from the start, or typed
  ReadLines,  \* items that are read from a receipt
  None

ItemsTabAssumption == None \notin Lines \cup ReadLines

VARIABLES
  managed,    \* does the server keep a remainder row: not of an adjustment
  tab,        \* detailTab
  stored,     \* server: the items
  items,      \* the query transaction-items
  itemsFetch,
  rows,       \* the table
  dirty,
  seeded,     \* lastSeededData
  expanded,   \* expandedIndex, 0: none
  typed,      \* the lines the user has typed
  save

tableVars == <<rows, dirty, seeded, expanded, typed>>
vars == <<managed, tab, stored, items, itemsFetch, save, tableVars>>

-----------------------------------------------------------------------------
Items == SUBSET (Lines \cup ReadLines)

\* A row is named or not.
Row == [line : Lines \cup ReadLines, named : BOOLEAN]

\* A cached query: its data, and whether a mount fetches it again.
Cached == [data : Items \cup {None}, stale : BOOLEAN]

\* A fetch, sent, or served with data.
Fetching == [state : {"idle", "sent", "served"}, data : Items \cup {None}]

\* own: by the table that is mounted.
Save == [state : {"idle", "sent", "served"}, items : Items, own : BOOLEAN]

NoFetch == [state |-> "idle", data |-> None]
Sent == [state |-> "sent", data |-> None]
Served(d) == [state |-> "served", data |-> d]
NoSave == [state |-> "idle", items |-> {}, own |-> FALSE]

\* The items by their positions; which those are is left open.
positions(data) == CHOOSE f \in [1..Cardinality(data) -> data] :
  \A l \in data : \E i \in 1..Cardinality(data) : f[i] = l

toUserRows(data) == [i \in 1..Cardinality(data) |-> [line |-> positions(data)[i], named |-> TRUE]]

Without(rs, e) == SubSeq(rs, 1, e - 1) \o SubSeq(rs, e + 1, Len(rs))

Init ==
  /\ managed \in BOOLEAN
  /\ tab = "none"
  /\ stored \in {{}} \cup {{n} : n \in Lines}
  /\ items = [data |-> None, stale |-> TRUE] /\ itemsFetch = NoFetch
  /\ rows = <<>> /\ dirty = FALSE /\ seeded = None
  /\ expanded = 0
  /\ typed = stored
  /\ save = NoSave

-----------------------------------------------------------------------------
(* The query and the table.                                                *)

\* The data as the table shows it when it is seeded anew.
Seed(data) ==
  /\ rows' = toUserRows(data)
  /\ seeded' = data

\* Mutant: only the first data seeds the table.
SeedOnce(data) ==
  IF tab = "items" /\ seeded = None
  THEN Seed(data) ELSE UNCHANGED <<rows, seeded>>

\* Mutant: data that arrives seeds the table, edited or not.
SeedWhenever(data) ==
  IF tab = "items" /\ data # seeded
  THEN Seed(data) ELSE UNCHANGED <<rows, seeded>>

\* Data that arrives seeds the table unless it was edited.
SeedPristine(data) ==
  IF tab = "items" /\ data # seeded
  THEN IF dirty THEN seeded' = data /\ UNCHANGED <<rows>> ELSE Seed(data)
  ELSE UNCHANGED <<rows, seeded>>

\* The tabs are buttons: the one that is left loses its state.
setDetailTab(t) ==
  /\ t # tab
  /\ tab' = t
  /\ expanded' = 0 /\ dirty' = FALSE
  /\ IF t = "items" /\ items.data # None
     THEN rows' = toUserRows(items.data) /\ seeded' = items.data
     ELSE rows' = <<>> /\ seeded' = None
  /\ itemsFetch' = IF t = "items" /\ items.stale /\ itemsFetch.state = "idle" THEN Sent ELSE itemsFetch
  /\ save' = [save EXCEPT !.own = FALSE]
  /\ UNCHANGED <<managed, stored, items, typed>>

ItemsServed ==
  /\ itemsFetch.state = "sent"
  /\ itemsFetch' = Served(stored)
  /\ UNCHANGED <<managed, tab, stored, items, rows, dirty, seeded, expanded, typed, save>>

ItemsArrive ==
  /\ itemsFetch.state = "served"
  /\ items' = [data |-> itemsFetch.data, stale |-> FALSE]
  /\ itemsFetch' = NoFetch
  /\ SeedPristine(itemsFetch.data)
  /\ UNCHANGED <<managed, tab, stored, dirty, expanded, typed, save>>

\* The fetch is refused or lost: the query keeps its data.
ItemsFail ==
  /\ itemsFetch.state # "idle"
  /\ itemsFetch' = NoFetch
  /\ UNCHANGED <<managed, tab, stored, items, rows, dirty, seeded, expanded, typed, save>>

\* The table is shown once there is data.
Shown == tab = "items" /\ items.data # None

Edited(rs) == rows' = rs /\ dirty' = TRUE

\* The table's own part of the variables: what its handlers leave alone.
TableKeeps == UNCHANGED <<managed, tab, stored, items, itemsFetch, seeded, save>>

\* The header of a row expands or collapses it.
toggle(i) ==
  /\ Shown /\ i \in DOMAIN rows
  /\ expanded' = IF expanded = i THEN 0 ELSE i
  /\ UNCHANGED <<rows, dirty, typed>> /\ TableKeeps

handleAdd(n) ==
  /\ Shown
  /\ n \in Lines \ typed
  /\ typed' = typed \cup {n}
  /\ Edited(Append(rows, [line |-> n, named |-> FALSE]))
  /\ expanded' = Len(rows) + 1
  /\ TableKeeps

\* The form of the row that is expanded: its fields and its buttons.
FieldsShown == Shown /\ expanded \in DOMAIN rows

updateRow ==
  /\ FieldsShown
  /\ Edited([rows EXCEPT ![expanded].named = TRUE])
  /\ UNCHANGED <<expanded, typed>> /\ TableKeeps

removeRow ==
  /\ FieldsShown
  /\ Edited(Without(rows, expanded))
  /\ expanded' = 0
  /\ UNCHANGED typed /\ TableKeeps

\* Swaps with a neighbour; the row stays expanded.
move(j) ==
  /\ FieldsShown /\ j \in DOMAIN rows
  /\ expanded = j + 1 \/ j = expanded + 1
  /\ Edited([rows EXCEPT ![expanded] = rows[j], ![j] = rows[expanded]])
  /\ expanded' = j
  /\ UNCHANGED typed /\ TableKeeps

\* The card of what the items leave of the amount, below a table with a named row:
\* its name and category are edits too.
editRemainder ==
  /\ Shown /\ \E i \in DOMAIN rows : rows[i].named
  /\ dirty' = TRUE
  /\ UNCHANGED <<rows, expanded, typed>> /\ TableKeeps

\* Rows without a name are dropped.
rowsToItems == {rows[i].line : i \in {j \in DOMAIN rows : rows[j].named}}

handleSave ==
  /\ Shown /\ save.state = "idle"
  /\ save' = [state |-> "sent", items |-> rowsToItems, own |-> TRUE]
  /\ UNCHANGED <<managed, tab, stored, items, itemsFetch, rows, dirty, seeded, expanded,
                 typed>>

SaveServed ==
  /\ save.state = "sent"
  /\ stored' = save.items
  /\ save' = [save EXCEPT !.state = "served"]
  /\ UNCHANGED <<managed, tab, items, itemsFetch, rows, dirty, seeded, expanded, typed>>

SaveFails ==
  /\ save.state # "idle"
  /\ save' = NoSave
  /\ UNCHANGED <<managed, tab, stored, items, itemsFetch, rows, dirty, seeded, expanded,
                 typed>>

\* The answer goes into the cache, as new data unless it equals the old: every save
\* makes its rows anew, so that only two answers without a row are equal.
NewIdentity == managed \/ items.data # {} \/ save.items # {}

\* The table that sent it is pristine again, and so it is seeded by new data,
\* whatever was typed since.
Saved ==
  /\ save.state = "served"
  /\ items' = [data |-> save.items, stale |-> FALSE]
  /\ IF save.own
     THEN /\ dirty' = FALSE
          /\ IF NewIdentity THEN Seed(save.items) ELSE UNCHANGED <<rows, seeded>>
     ELSE SeedPristine(save.items) /\ UNCHANGED dirty
  /\ save' = NoSave
  /\ UNCHANGED <<managed, tab, stored, itemsFetch, expanded, typed>>

-----------------------------------------------------------------------------
(* The receipts.                                                           *)

\* A task fills the items of a transaction that has none; the cache is not told.
AutoFill(r) ==
  /\ stored = {}
  /\ stored' = {r}
  /\ UNCHANGED <<managed, tab, items, itemsFetch, save, tableVars>>

\* The review replaces the items, or appends to them, while its tab is selected;
\* the query is invalidated.  A fetch that runs meanwhile goes on, and makes it fresh.
Reviewed(r, append) ==
  /\ tab = "receipts"
  /\ stored' = {r} \cup (IF append THEN stored ELSE {})
  /\ items' = [items EXCEPT !.stale = TRUE]
  /\ UNCHANGED <<managed, tab, itemsFetch, save, tableVars>>

-----------------------------------------------------------------------------
Table ==
  \/ updateRow \/ removeRow \/ editRemainder
  \/ \E n \in Lines : handleAdd(n)
  \/ \E i \in DOMAIN rows : toggle(i) \/ move(i)

Next ==
  \/ \E t \in {"items", "receipts"} : setDetailTab(t)
  \/ Table
  \/ ItemsServed \/ ItemsArrive \/ ItemsFail \/ handleSave \/ SaveServed \/ SaveFails \/ Saved
  \/ \E r \in ReadLines : AutoFill(r) \/ Reviewed(r, TRUE) \/ Reviewed(r, FALSE)

Spec == Init /\ [][Next]_vars

-----------------------------------------------------------------------------
(* Properties.                                                             *)

TypeOK ==
  /\ managed \in BOOLEAN
  /\ tab \in {"none", "items", "receipts"}
  /\ stored \in Items /\ typed \subseteq Lines
  /\ items \in Cached /\ itemsFetch \in Fetching /\ save \in Save
  /\ rows \in Seq(Row) /\ dirty \in BOOLEAN /\ seeded \in Items \cup {None}
  /\ expanded \in Nat

Answered == save.state = "served" /\ save'.state = "idle"

\* TransactionItemsEditor: "refetches re-seed only a pristine table, never one
\* with unsaved edits": a row leaves an edited table only by its button, or with
\* the answer to the table's own save.
EditedRowsStay ==
  tab = "items" /\ tab' = "items" /\ dirty /\ ~(save.own /\ Answered)
    => \A i \in DOMAIN rows :
         \/ \E j \in DOMAIN rows' : rows'[j].line = rows[i].line
         \/ dirty' /\ rows' = Without(rows, i)

Unedited == tab = "items" /\ ~dirty /\ items.data # None

ShowsCache == {rows[i] : i \in DOMAIN rows} = [line : items.data, named : {TRUE}]

\* A table that was not edited shows what the cache holds, unless those are the
\* items of an adjustment that has none.
PristineShows == Unedited /\ (managed \/ items.data # {}) => ShowsCache

\* TransactionItemsEditor: "Server truth straight into the cache: the data-identity
\* adjust below re-seeds the rows from it".
\* Does not hold: a save without items of an adjustment that has none is answered
\* with equal data, and rows without a name stay in a table that is not dirty.
AlwaysReseeds == Unedited => ShowsCache
=============================================================================
