----------------------------- MODULE ListPages -----------------------------
(***************************************************************************)
(* A list page: transactions, planned or transfers                         *)
(* (src/frontend/src/pages/Transactions.tsx, Planned.tsx and               *)
(* TransfersPage.tsx, with utils/params.ts, utils/pageDefaults.ts,         *)
(* hooks/useDebouncedField.ts and components/common).                      *)
(*                                                                         *)
(* The filters live in the URL.  A handler computes the next URL from the  *)
(* one that was rendered last, and the router renders a new URL when       *)
(* nothing is more urgent: until then url and seen differ, and what a      *)
(* second handler writes is not based on the first.  The content of the    *)
(* page waits behind a gate for the user's defaults, which it writes into  *)
(* the URL unless the URL has the facet.  Two text fields keep a draft     *)
(* that is committed when the typing pauses.                               *)
(*                                                                         *)
(* Of the facets of a view a range and one more are followed: the view of  *)
(* the planned page, whose other value hides the filters, the type of the  *)
(* transactions page.  The pages of a list are counted anew by every       *)
(* answer.                                                                 *)
(***************************************************************************)
EXTENDS Naturals

CONSTANTS
  Kinds,     \* the pages that are followed
  Plain,     \* a text as the URL keeps it
  Typed,     \* the same amount as it may be typed, with a comma
  MaxPages,  \* bound on the pages of a list
  MaxEdits,  \* bound on what the user does
  None       \* an absent parameter, an empty text

ListPagesAssumption ==
  /\ Kinds \subseteq {"transactions", "planned", "transfers"}
  /\ None \notin {Plain, Typed} /\ Plain # Typed
  /\ MaxPages \in Nat \ {0} /\ MaxEdits \in Nat

VARIABLES
  kind,
  gate,      \* "away", "loading" the defaults, or "open": the content is mounted
  saved,     \* server: the user's defaults
  settings,  \* the query of the defaults
  url,       \* searchParams
  pending,   \* was the URL set since the last render
  seen,      \* searchParams as rendered last
  latch,     \* defaultsLatch
  restored,  \* restoredSearch
  stored,    \* localStorage: the search of the last visit
  field,     \* the drafts
  filtersOpen,
  pages,     \* total_pages of the list that is shown, 0: none
  clicks,    \* createRequest, consumedCreateRequest
  formOpen,
  edits      \* what the user did so far

content == <<seen, latch, restored, field, filtersOpen, pages, formOpen>>
vars == <<kind, gate, saved, settings, url, pending, stored, clicks, edits, content>>

-----------------------------------------------------------------------------
Text == {Plain, Typed}
Field == {"search", "amount"}

\* range: any dates, or the current month.  view: absent, or not the built-in.
Params == [search : Text \cup {None}, amount : Text \cup {None},
           range : {None, "month", "custom"}, view : BOOLEAN, page : 1..MaxPages]

NoParams == [search |-> None, amount |-> None, range |-> None, view |-> FALSE, page |-> 1]

\* The stored facets of a page; a range that is not a named preset is all-time.
PageSettings == [range : {None, "month", "all"}, view : BOOLEAN]

\* What is still to be written into the URL.
DefaultsLatch == [range : {None, "month"}, view : BOOLEAN]

Spent == [range |-> None, view |-> FALSE]

\* timer: the typing paused less than the delay ago.
Draft == [on : BOOLEAN, draft : Text \cup {None}, committed : Text \cup {None}, timer : BOOLEAN]

Off == [on |-> FALSE, draft |-> None, committed |-> None, timer |-> FALSE]

ClickCount == [asked : 0..MaxEdits, consumed : 0..MaxEdits]

-----------------------------------------------------------------------------
(* The defaults.                                                           *)

\* The planned page is for the current month, the others for all time.
builtinRange == IF kind = "planned" THEN "month" ELSE "all"

rangeLatch(s, u) ==
  LET preset == IF s.range = None THEN builtinRange ELSE s.range
  IN IF u.range # None \/ preset = "all" THEN None ELSE preset

\* A facet that the URL has is not defaulted.
buildDefaultsLatch(s, u) ==
  [range |-> rangeLatch(s, u), view |-> kind # "transfers" /\ s.view /\ ~u.view]

reverseResolveRange(r) == IF r = "month" THEN "month" ELSE "all"

capturePageDefaults(u) == [range |-> reverseResolveRange(u.range), view |-> u.view]

\* Mutant: defaults are written as long as they are absent.
ConsumeNever(l, u) == l

\* A facet that the URL has had is never defaulted again.
Consumed(l, u) ==
  [range |-> IF u.range # None THEN None ELSE l.range, view |-> l.view /\ ~u.view]

live(l) == l.range # None \/ l.view

\* Every patch goes back to the first page, unless it sets the page.
updateParams(u, patch) == [x \in DOMAIN u |-> IF x \in DOMAIN patch THEN patch[x]
                                              ELSE IF x = "page" THEN 1 ELSE u[x]]

\* All facets that are live are written at once.
Materialize(u, l) ==
  updateParams(u, [range |-> IF l.range # None THEN l.range ELSE u.range, view |-> l.view \/ u.view])

stale(u, n) == n > 0 /\ u.page > n

\* The effects of a render of u, while the URL is cur and rendered unless p.  Each
\* effect starts from u: the last one wins.
Effects(cur, p, u, l, n) ==
  /\ pending' = (p \/ stale(u, n) \/ live(l))
  /\ url' = IF stale(u, n) THEN updateParams(u, [page |-> 1])
            ELSE IF live(l) THEN Materialize(u, l) ELSE cur

-----------------------------------------------------------------------------
(* The text fields.                                                        *)

\* Amounts are committed in the wire's form.
normalizeAmountInput(f, t) == IF f = "amount" /\ t = Typed THEN Plain ELSE t

value(f, u, r) == IF f = "amount" THEN u.amount
                  ELSE IF u.search # None THEN u.search ELSE r

\* The other view of the planned page has no filters, transfers no texts.
Mounted(f, u, l, o) ==
  /\ kind # "transfers" /\ ~(kind = "planned" /\ (u.view \/ l.view))
  /\ f = "search" \/ o

Seeded(v) == [on |-> TRUE, draft |-> v, committed |-> v, timer |-> FALSE]

\* Mutant: an empty value is not adopted.
AdoptText(x, old, v) ==
  IF v \notin {old, x.committed, None} THEN [Seeded(v) EXCEPT !.timer = x.timer /\ x.draft = v] ELSE x

\* A value that changes, and is not the echo of the last commit, replaces the
\* draft.  A draft that already had it keeps its timer.
Adopt(x, old, v) ==
  IF v \notin {old, x.committed} THEN [Seeded(v) EXCEPT !.timer = x.timer /\ x.draft = v] ELSE x

\* The fields after a render from u with restored search r, where u0 and r0 were.
Follow(u0, r0, u, r, l, o) ==
  [f \in Field |->
     LET x == field[f] v == value(f, u, r)
     IN IF ~Mounted(f, u, l, o) THEN Off
        ELSE IF ~x.on THEN Seeded(v) ELSE Adopt(x, value(f, u0, r0), v)]

-----------------------------------------------------------------------------
(* The gate.                                                               *)

Mount(s, u) ==
  LET l == buildDefaultsLatch(s, u)
      r == IF kind # "transfers" /\ u.search = None THEN stored ELSE None
  IN /\ gate' = "open" /\ seen' = u /\ latch' = l /\ restored' = r
     /\ field' = [f \in Field |-> IF Mounted(f, u, l, FALSE) THEN Seeded(value(f, u, r)) ELSE Off]
     /\ filtersOpen' = FALSE /\ pages' = 0 /\ formOpen' = FALSE
     /\ Effects(u, FALSE, u, l, 0)

Unmounted ==
  /\ seen' = NoParams /\ latch' = Spent /\ restored' = None
  /\ field' = [f \in Field |-> Off]
  /\ filtersOpen' = FALSE /\ pages' = 0 /\ formOpen' = FALSE

Did == edits < MaxEdits /\ edits' = edits + 1

\* By a link, a bookmark or the back button.  The counters of the header's button
\* start anew: a content counts from what it finds.
arrive(u) ==
  /\ gate = "away" /\ Did
  /\ clicks' = [asked |-> 0, consumed |-> 0]
  /\ IF settings = None
     THEN gate' = "loading" /\ url' = u /\ UNCHANGED <<pending, content>>
     ELSE Mount(settings, u)
  /\ UNCHANGED <<kind, saved, settings, stored>>

leave ==
  /\ gate # "away"
  /\ gate' = "away" /\ url' = NoParams /\ pending' = FALSE /\ clicks' = [asked |-> 0, consumed |-> 0]
  /\ Unmounted
  /\ UNCHANGED <<kind, saved, settings, stored, edits>>

SettingsArrive ==
  /\ settings # saved
  /\ settings' = saved
  /\ IF gate = "loading"
     THEN Mount(saved, url) /\ clicks' = [clicks EXCEPT !.consumed = clicks.asked]
     ELSE UNCHANGED <<gate, url, pending, content, clicks>>
  /\ UNCHANGED <<kind, saved, stored, edits>>

\* The header's button; the content that is mounted opens the form.
setCreateRequest ==
  /\ gate # "away" /\ ~formOpen /\ Did
  /\ clicks' = [asked |-> clicks.asked + 1,
                consumed |-> IF gate = "open" THEN clicks.asked + 1 ELSE clicks.consumed]
  /\ formOpen' = (gate = "open")
  /\ UNCHANGED <<kind, gate, saved, settings, url, pending, stored, seen, latch, restored, field, filtersOpen, pages>>

closeForm ==
  /\ formOpen
  /\ formOpen' = FALSE
  /\ UNCHANGED <<kind, gate, saved, settings, url, pending, stored, clicks, edits, seen, latch, restored, field,
                 filtersOpen, pages>>

-----------------------------------------------------------------------------
(* The content.                                                            *)

Render ==
  /\ gate = "open" /\ pending
  /\ LET l == Consumed(latch, url)
     IN /\ latch' = l
        /\ field' = Follow(seen, restored, url, restored, l, filtersOpen)
        /\ Effects(url, FALSE, url, l, pages)
  /\ seen' = url
  /\ UNCHANGED <<kind, gate, saved, settings, stored, clicks, edits, restored, filtersOpen, pages, formOpen>>

\* The answer to the list, of as many pages as there are now.
ListArrives(n) ==
  /\ gate = "open"
  /\ pages' = n
  /\ Effects(url, pending, seen, latch, n)
  /\ UNCHANGED <<kind, gate, saved, settings, stored, clicks, edits, seen, latch, restored, field, filtersOpen,
                 formOpen>>

\* A control of the page: it patches the URL that was rendered.
Patch(patch) ==
  /\ gate = "open" /\ Did
  /\ url' = updateParams(seen, patch) /\ pending' = TRUE
  /\ UNCHANGED <<kind, gate, saved, settings, stored, clicks, content>>

ListShown == ~(kind = "planned" /\ (seen.view \/ latch.view))

PanelShown == ListShown /\ (kind = "transfers" \/ filtersOpen)

setRange(r) == PanelShown /\ Patch([range |-> r])

\* The stepper of the planned page goes to another month; when there is nothing in
\* the month, a button shows all.
handleMonthShift(r) ==
  /\ kind = "planned" /\ ListShown
  /\ seen.range = "month" \/ latch.range = "month"
  /\ Patch([range |-> r])

setView(v) == (kind = "planned" \/ (kind = "transactions" /\ PanelShown)) /\ Patch([view |-> v])

onPageChange(p) == ListShown /\ p <= pages /\ Patch([page |-> p])

\* Transfers always shows its filters; the planned page keeps its view.
clearFilters ==
  /\ PanelShown
  /\ Patch([amount |-> None, range |-> None, view |-> kind = "planned" /\ seen.view])

\* A link to the same page: the content stays mounted.
goTo(u) ==
  /\ gate = "open" /\ Did
  /\ url' = u /\ pending' = TRUE
  /\ UNCHANGED <<kind, gate, saved, settings, stored, clicks, content>>

setFiltersOpen ==
  /\ gate = "open" /\ kind # "transfers" /\ ListShown /\ Did
  /\ filtersOpen' = ~filtersOpen
  /\ field' = Follow(seen, restored, seen, restored, latch, ~filtersOpen)
  /\ UNCHANGED <<kind, gate, saved, settings, url, pending, stored, clicks, seen, latch, restored, pages, formOpen>>

type(f, t) ==
  /\ field[f].on /\ field[f].draft # t /\ Did
  /\ field' = [field EXCEPT ![f].draft = t, ![f].timer = t # field[f].committed]
  /\ UNCHANGED <<kind, gate, saved, settings, url, pending, stored, clicks, seen, latch, restored, filtersOpen, pages,
                 formOpen>>

\* The hint is dropped and the term remembered; the URL is rendered later.
handleSearchChange(t, x) ==
  /\ restored' = None /\ stored' = t
  /\ field' = [Follow(seen, restored, seen, None, latch, filtersOpen) EXCEPT
                 !["search"] = Adopt(x, value("search", seen, restored), value("search", seen, None))]
  /\ LET u == updateParams(seen, [search |-> t])
     IN IF restored # None THEN Effects(u, TRUE, seen, latch, pages) ELSE url' = u /\ pending' = TRUE

\* The typing has paused.
Commit(f) ==
  /\ field[f].timer
  /\ LET t == field[f].draft
         x == [field[f] EXCEPT !.committed = t, !.timer = FALSE]
     IN IF f = "search" THEN handleSearchChange(t, x)
        ELSE /\ field' = [field EXCEPT ![f] = x]
             /\ url' = updateParams(seen, [amount |-> normalizeAmountInput(f, t)]) /\ pending' = TRUE
             /\ UNCHANGED <<restored, stored>>
  /\ UNCHANGED <<kind, gate, saved, settings, clicks, edits, seen, latch, filtersOpen, pages, formOpen>>

\* The cross of the search box: committed at once, and again by the timer, unless
\* the empty text comes back first.
clearSearch ==
  /\ field["search"].on /\ field["search"].draft # None /\ Did
  /\ handleSearchChange(None, [field["search"] EXCEPT !.draft = None,
                                                      !.timer = field["search"].committed # None])
  /\ UNCHANGED <<kind, gate, saved, settings, clicks, seen, latch, filtersOpen, pages, formOpen>>

handleSaveDefaults ==
  /\ gate = "open" /\ Did
  /\ saved' = capturePageDefaults(seen)
  /\ UNCHANGED <<kind, gate, settings, url, pending, stored, clicks, content>>

-----------------------------------------------------------------------------
Init ==
  /\ kind \in Kinds /\ gate = "away"
  /\ saved \in PageSettings /\ settings = None
  /\ url = NoParams /\ pending = FALSE /\ stored \in {None, Plain}
  /\ seen = NoParams /\ latch = Spent /\ restored = None
  /\ field = [f \in Field |-> Off]
  /\ filtersOpen = FALSE /\ pages = 0 /\ formOpen = FALSE
  /\ clicks = [asked |-> 0, consumed |-> 0] /\ edits = 0

\* Links: the plain page, and views that were bookmarked or left.
Links == {NoParams, [NoParams EXCEPT !.range = "custom"],
          [NoParams EXCEPT !.search = Plain, !.view = kind # "transfers", !.page = MaxPages]}

Next ==
  \/ \E u \in Links : arrive(u) \/ goTo(u)
  \/ leave \/ SettingsArrive \/ setCreateRequest \/ closeForm
  \/ Render
  \/ \E n \in 1..MaxPages : ListArrives(n) \/ onPageChange(n)
  \/ \E r \in {None, "month", "custom"} : setRange(r)
  \/ \E r \in {None, "custom"} : handleMonthShift(r)
  \/ \E v \in BOOLEAN : setView(v)
  \/ clearFilters \/ setFiltersOpen \/ clearSearch \/ handleSaveDefaults
  \/ \E f \in Field : Commit(f) \/ \E t \in Text \cup {None} : type(f, t)

\* The router renders, requests are answered, timers run.
Fairness == WF_vars(Render) /\ WF_vars(SettingsArrive) /\ \A f \in Field : WF_vars(Commit(f))

Spec == Init /\ [][Next]_vars /\ Fairness

-----------------------------------------------------------------------------
(* Properties.                                                             *)

TypeOK ==
  /\ kind \in Kinds /\ gate \in {"away", "loading", "open"}
  /\ saved \in PageSettings /\ settings \in PageSettings \cup {None}
  /\ url \in Params /\ pending \in BOOLEAN /\ seen \in Params /\ latch \in DefaultsLatch
  /\ restored \in Text \cup {None} /\ stored \in Text \cup {None}
  /\ field \in [Field -> Draft] /\ filtersOpen \in BOOLEAN
  /\ pages \in 0..MaxPages /\ clicks \in ClickCount /\ formOpen \in BOOLEAN /\ edits \in 0..MaxEdits

\* "All time / Clear filters / deep links never re-default within a session": a
\* render never fills a facet that the view had, and that was taken out of it.
ClearedStays ==
  gate = "open" /\ gate' = "open" /\ seen' = url /\ seen' # seen
    => /\ (seen.range # None /\ url.range = None => url'.range = None)
       /\ (seen.view /\ ~url.view => ~url'.view)

\* The header exports what the URL says: once it is rendered, that is what the
\* list shows, defaults included.
ShownIsExported == gate = "open" /\ ~pending => url = seen /\ latch = Spent

\* The defaults and the reset of a page that is out of range do not undo each other
\* forever: every URL is rendered in the end.
RendersSettle == pending ~> ~pending

\* When the value of a field changes, the field shows it, or something that was
\* typed since and will be committed.
FieldFollows ==
  \A f \in Field :
    field[f].on /\ field'[f].on /\ value(f, seen', restored') # value(f, seen, restored)
      => field'[f].draft = value(f, seen', restored') \/ field'[f].timer

\* Transactions.tsx: a click on the header's button while the defaults are loaded
\* "lands after materialization".
\* Does not hold: the click is counted before the form can show and not looked at again.
NewClickLands == (gate = "loading" /\ clicks.asked > 0) ~> (formOpen \/ gate = "away")
=============================================================================
