---------------------------- MODULE BudgetBoard ----------------------------
(***************************************************************************)
(* The page of a budget: a period and a currency of it, and the planned    *)
(* amounts of its categories                                               *)
(* (src/frontend/src/pages/BudgetDetailPage.tsx, with                      *)
(* components/budgets/PeriodPicker.tsx and utils/currencies.ts).           *)
(*                                                                         *)
(* Which period is selected is state of the page, seeded from the URL and  *)
(* adjusted to what the queries know; going from one budget to another     *)
(* keeps the page mounted.  A period that is not there yet is made by      *)
(* asking for it.  What callbacks do when they come back from an await is  *)
(* decided by what they saw before it.  A fetch of the periods may fail:   *)
(* the list stays as it was, and those who wait for it go on.              *)
(*                                                                         *)
(* A budget has a past, a current and a future period; a custom one is     *)
(* given its periods by hand.  One category is followed.                   *)
(***************************************************************************)
EXTENDS Naturals, FiniteSets

CONSTANTS
  Budgets,
  Custom,   \* those without a cadence
  Codes,    \* currencies
  MaxMoves, \* of the user, in a behaviour
  None

VARIABLES
  here,      \* the URL: a budget, and the parameters period and currency
  periodId,
  view,      \* viewCurrency
  stored,    \* localStorage: the currency that was viewed last, by budget
  editing,   \* editingCell: the period its value was read in
  exists,    \* server: the periods of each budget
  written,   \* server: the periods an amount was planned in
  listed,    \* the query periods, by budget: what was fetched, and isSuccess
  stale,     \* the budgets whose periods are fetched again
  current,   \* the query current-period, by budget
  planning,  \* goToPeriod, while it waits
  deleting,  \* deletePeriod, while it waits
  moves      \* what the user did

server == <<exists, written>>
queries == <<listed, stale, current>>
page == <<periodId, view, editing>>
vars == <<here, page, stored, server, queries, planning, deleting, moves>>

-----------------------------------------------------------------------------
Past == 1
Current == 2
Future == 3

Period == Budgets \X {Past, Current, Future}

Here == [budget : Budgets, period : Period \cup {None}, currency : Codes \cup {None}]

\* A list, and whether the last fetch of it succeeded.
Listing == [periods : SUBSET Period, success : BOOLEAN]

\* A callback: the budget and the period it is for; whether it waits for the server, for
\* the list that is fetched again, for nothing, or no more, since that fetch failed.
Waiting == [budget : Budgets, period : Period, for : {"answer", "list", "nothing", "failed"}]

BudgetBoardAssumption ==
  /\ Custom \subseteq Budgets /\ MaxMoves \in Nat
  /\ None \notin Codes \cup Budgets /\ None \notin Period /\ None \notin Waiting /\ None # "made"

\* The query of the current period ended, or is not asked.
known(b, cur) == b \in Custom \/ cur[b] # None

\* invalidateQueries: a list that is shown is fetched again, and waited for.
Awaited(b) == IF b = here.budget THEN "list" ELSE "nothing"

\* Mutant: nobody waits for it.
Unawaited(w) == w # None /\ w.for # "answer"

\* The await ends with the fetch, whether it succeeded or not.
Resumes(w) ==
  w # None /\ (w.for \in {"nothing", "failed"} \/ (w.for = "list" /\ w.budget \notin stale))

\* What became of one that waits for the list of b.
AwaitFailed(w, b) ==
  IF w # None /\ w.budget = b /\ w.for = "list" THEN [w EXCEPT !.for = "failed"] ELSE w

\* The periods of the list, and the current one the server has made.
allPeriods(b, lst, cur) ==
  (IF lst[b] = None THEN {} ELSE lst[b].periods) \cup (IF cur[b] = "made" THEN {<<b, Current>>} ELSE {})

\* The newest that has started, or the first to begin.
nearestPeriod(P) ==
  LET started == {p \in P : p[2] <= Current}
  IN IF P = {} THEN None
     ELSE IF started # {} THEN CHOOSE p \in started : \A q \in started : q[2] <= p[2]
     ELSE CHOOSE p \in P : \A q \in P : p[2] <= q[2]

\* The adjustment while rendering: one branch of it.
Adjust(p, b, lst, cur) ==
  IF p = None
  THEN IF cur[b] = "made" THEN <<b, Current>>
       ELSE IF known(b, cur) THEN nearestPeriod(allPeriods(b, lst, cur)) ELSE None
  ELSE IF lst[b] # None /\ lst[b].success /\ known(b, cur) /\ p \notin allPeriods(b, lst, cur)
       THEN None ELSE p

\* Rendered until nothing changes: what is not of this budget is cleared first.
Settled(p, b, lst, cur) == Adjust(Adjust(p, b, lst, cur), b, lst, cur)

\* The effect of another budget: the parameter, or the selection if it is of this
\* budget.
Reset(p, u, lst, cur) ==
  IF u.period # None THEN u.period
  ELSE IF p \in allPeriods(u.budget, lst, cur) THEN p ELSE None

\* The page renders the URL u, with p selected: for another budget than before, or
\* anew, the effect runs, and changes what is rendered again only if it changes it.
Show(u, p, v, anew, lst, cur) ==
  LET q == Settled(p, u.budget, lst, cur)
      r == IF anew THEN Reset(q, u, lst, cur) ELSE q
  IN /\ here' = u
     /\ periodId' = Settled(r, u.budget, lst, cur)
     /\ view' = IF ~anew THEN v ELSE IF u.currency # None THEN u.currency ELSE stored[u.budget]

\* The queries change under the page.
Refreshed(lst, cur) ==
  /\ listed' = lst /\ current' = cur
  /\ Show(here, periodId, view, FALSE, lst, cur)

\* setPeriodId and the parameter, from the page of budget b: the address is that of
\* the page the handler belongs to.
Select(b, p) ==
  Show([here EXCEPT !.budget = b, !.period = p], p, view, b # here.budget, listed, current)

Move == moves < MaxMoves /\ moves' = moves + 1

-----------------------------------------------------------------------------
(* Going to a budget.                                                      *)

\* The cards of periods and the bookmarks of a currency.
Links == {u \in Here : u.period = None \/ (u.period[1] = u.budget /\ u.currency = None)}

\* From another page.  What was asked for before is out of sight.
open(u) ==
  /\ Move
  /\ Show(u, None, None, TRUE, listed, current)
  /\ editing' = None
  /\ UNCHANGED <<stored, server, queries, planning, deleting>>

\* From the page of a budget, by the command palette or a bookmark.
navigate(u) ==
  /\ Move
  /\ Show(u, periodId, view, u.budget # here.budget, listed, current)
  /\ UNCHANGED <<editing, stored, server, queries, planning, deleting>>

-----------------------------------------------------------------------------
(* The queries of the budget that is open; a fetch that was begun goes on.  *)

fetching == {here.budget} \cup {w.budget : w \in {v \in {planning, deleting} \ {None} : v.for = "list"}}

PeriodsArrive(b) ==
  /\ b \in fetching /\ (listed[b] = None \/ b \in stale)
  /\ stale' = stale \ {b}
  /\ Refreshed([listed EXCEPT ![b] = [periods |-> {p \in exists : p[1] = b}, success |-> TRUE]], current)
  /\ UNCHANGED <<editing, stored, server, planning, deleting, moves>>

\* The fetch fails, and so does its retry.
PeriodsFail(b) ==
  /\ b \in fetching /\ (listed[b] = None \/ b \in stale)
  /\ Refreshed(IF listed[b] = None THEN listed ELSE [listed EXCEPT ![b].success = FALSE], current)
  /\ planning' = AwaitFailed(planning, b) /\ deleting' = AwaitFailed(deleting, b)
  /\ UNCHANGED <<editing, stored, server, stale, moves>>

\* The server makes the current period; a failure is final.
CurrentArrives(how) ==
  LET b == here.budget
  IN /\ b \notin Custom /\ current[b] = None
     /\ exists' = IF how = "made" THEN exists \cup {<<b, Current>>} ELSE exists
     /\ Refreshed(listed, [current EXCEPT ![b] = how])
     /\ UNCHANGED <<editing, stored, written, stale, planning, deleting, moves>>

-----------------------------------------------------------------------------
(* The switcher.                                                           *)

all == allPeriods(here.budget, listed, current)

selectedPeriod == IF periodId \in all THEN periodId ELSE None

\* The picker and its window of rows: any of the periods.
selectPeriod(p) ==
  /\ Move
  /\ p \in all
  /\ Select(here.budget, p)
  /\ UNCHANGED <<editing, stored, server, queries, planning, deleting>>

Newer(p) == {q \in all : q[2] > p[2]}

canPlanAhead == here.budget \notin Custom

\* The chevrons step to the neighbours.
goToPeriod(p) ==
  /\ Move
  /\ selectedPeriod # None /\ p \in all
  /\ \/ p \in Newer(periodId) /\ planning = None /\ \A q \in Newer(periodId) : p[2] <= q[2]
     \/ periodId \in Newer(p) /\ \A q \in all : periodId \in Newer(q) => q[2] <= p[2]
  /\ Select(here.budget, p)
  /\ UNCHANGED <<editing, stored, server, queries, planning, deleting>>

\* Past the newest period the next one is asked for.
planNext ==
  /\ Move
  /\ selectedPeriod # None /\ Newer(periodId) = {} /\ canPlanAhead
  /\ planning = None /\ periodId[2] < Future
  /\ planning' = [budget |-> here.budget, period |-> <<here.budget, periodId[2] + 1>>, for |-> "answer"]
  /\ UNCHANGED <<here, page, stored, server, queries, deleting>>

\* It is made, and the list is fetched again before it is selected.
NextPlanned ==
  /\ planning # None /\ planning.for = "answer"
  /\ exists' = exists \cup {planning.period}
  /\ stale' = stale \cup {planning.budget}
  /\ planning' = [planning EXCEPT !.for = Awaited(planning.budget)]
  /\ UNCHANGED <<here, page, stored, written, listed, current, deleting, moves>>

\* Wherever the page is by now, it goes to the period that was asked for.
NextSelected ==
  /\ Resumes(planning)
  /\ planning' = None
  /\ Select(planning.budget, planning.period)
  /\ UNCHANGED <<editing, stored, server, queries, deleting, moves>>

\* The server refuses; nothing after that can.
PlanFails ==
  /\ planning # None /\ planning.for = "answer"
  /\ planning' = None
  /\ UNCHANGED <<here, page, stored, server, queries, deleting, moves>>

-----------------------------------------------------------------------------
(* The periods of a custom budget.                                         *)

canManagePeriods == here.budget \in Custom

\* The modal; the list is fetched again.
addPeriod(p) ==
  /\ Move
  /\ canManagePeriods /\ p[1] = here.budget /\ p \notin exists
  /\ exists' = exists \cup {p}
  /\ stale' = stale \cup {p[1]}
  /\ UNCHANGED <<here, page, stored, written, listed, current, planning, deleting>>

\* The confirmed deletion of the selected period.
deletePeriod ==
  /\ Move
  /\ canManagePeriods /\ selectedPeriod \in exists
  /\ deleting = None
  /\ exists' = exists \ {periodId}
  /\ deleting' = [budget |-> here.budget, period |-> periodId, for |-> "answer"]
  /\ UNCHANGED <<here, page, stored, written, queries, planning>>

\* The answer: the list is fetched again first.  Whether the selection is to be
\* cleared is decided by what was selected when the answer came.
PeriodDeleted ==
  /\ deleting # None /\ deleting.for = "answer"
  /\ stale' = stale \cup {deleting.budget}
  /\ deleting' = IF periodId = deleting.period THEN [deleting EXCEPT !.for = Awaited(deleting.budget)] ELSE None
  /\ UNCHANGED <<here, page, stored, server, listed, current, planning, moves>>

SelectionCleared ==
  /\ Resumes(deleting)
  /\ deleting' = None
  /\ Show([here EXCEPT !.budget = deleting.budget, !.period = None], None, view,
          deleting.budget # here.budget, listed, current)
  /\ UNCHANGED <<editing, stored, server, queries, planning, moves>>

\* The answer is lost; a refusal leaves everything as it was.
DeleteFails ==
  /\ deleting # None /\ deleting.for = "answer"
  /\ deleting' = None
  /\ UNCHANGED <<here, page, stored, server, queries, planning, moves>>

-----------------------------------------------------------------------------
(* The ledger.                                                             *)

canEditPlan == periodId # None /\ periodId[2] # Past

\* The planned amount of the category becomes an input.
setEditingCell ==
  /\ Move
  /\ selectedPeriod # None /\ canEditPlan /\ editing = None
  /\ editing' = periodId
  /\ UNCHANGED <<here, periodId, view, stored, server, queries, planning, deleting>>

\* Its check mark: the amount is for the period that is selected now.
saveCell ==
  /\ Move
  /\ selectedPeriod # None /\ editing # None /\ editing[1] = here.budget
  /\ written' = written \cup ({periodId} \cap exists)
  /\ editing' = None
  /\ UNCHANGED <<here, periodId, view, stored, exists, queries, planning, deleting>>

cancelCell ==
  /\ Move
  /\ editing # None
  /\ editing' = None
  /\ UNCHANGED <<here, periodId, view, stored, server, queries, planning, deleting>>

\* The strip of currencies, its keys and those of the panel.
selectCurrency(c) ==
  /\ Move
  /\ selectedPeriod # None /\ c # view
  /\ view' = c /\ stored' = [stored EXCEPT ![here.budget] = c]
  /\ editing' = None
  /\ UNCHANGED <<here, periodId, server, queries, planning, deleting>>

-----------------------------------------------------------------------------
Init ==
  /\ \E b \in Budgets : here = [budget |-> b, period |-> None, currency |-> None]
  /\ periodId = None /\ view = None /\ editing = None
  /\ stored = [b \in Budgets |-> None]
  /\ exists \in SUBSET (Budgets \X {Past}) /\ written = {}
  /\ listed = [b \in Budgets |-> None] /\ current = [b \in Budgets |-> None]
  /\ stale = {}
  /\ planning = None /\ deleting = None /\ moves = 0

Next ==
  \/ \E u \in Links : open(u) \/ navigate(u)
  \/ \E b \in Budgets : PeriodsArrive(b) \/ PeriodsFail(b)
  \/ \E how \in {"made", "failed"} : CurrentArrives(how)
  \/ \E p \in Period : selectPeriod(p) \/ goToPeriod(p) \/ addPeriod(p)
  \/ planNext \/ NextPlanned \/ NextSelected \/ PlanFails
  \/ deletePeriod \/ PeriodDeleted \/ DeleteFails \/ SelectionCleared
  \/ setEditingCell \/ saveCell \/ cancelCell
  \/ \E c \in Codes : selectCurrency(c)

Spec == Init /\ [][Next]_vars

-----------------------------------------------------------------------------
(* Properties.                                                             *)

TypeOK ==
  /\ here \in Here /\ periodId \in Period \cup {None} /\ view \in Codes \cup {None}
  /\ stored \in [Budgets -> Codes \cup {None}] /\ editing \in Period \cup {None}
  /\ exists \subseteq Period /\ written \subseteq Period
  /\ \A b \in Budgets : listed[b] = None \/ listed[b] \in Listing
  /\ stale \subseteq Budgets /\ current \in [Budgets -> {None, "made", "failed"}]
  /\ planning \in Waiting \cup {None} /\ deleting \in Waiting \cup {None}
  /\ moves \in 0..MaxMoves

\* "A period is ALWAYS selected whenever one exists", and it is of the budget, once
\* its periods are known.
\* Does not hold: after a failed refetch of the list nothing is reconciled, and a period
\* that is not in it stays selected.
AlwaysSelected ==
  listed[here.budget] # None /\ known(here.budget, current)
    => periodId \in all \/ (all = {} /\ periodId = None)

\* Queries that answer do not move a selection that is still there.
RefetchKeepsSelection ==
  queries' # queries /\ periodId # None /\ periodId \in all' => periodId' = periodId

\* "Picking from a stale list could re-select the just-deleted id": the page that clears
\* its selection after a deletion, once the refetch of the list has succeeded, picks a
\* period that exists: none that went meanwhile, in this budget or in another.
NeverPicksDeleted ==
  deleting # None /\ deleting.for \notin {"answer", "failed"} /\ deleting' = None
    => periodId' \in exists' \cup {None}

\* "The awaited refetch above guarantees the auto-pick re-selects from the fresh list
\* (not the just-deleted id)".
\* Does not hold: the await ends with a failed refetch too.
PicksFresh ==
  deleting # None /\ deleting.for # "answer" /\ deleting' = None
    => periodId' \in exists' \cup {None}

\* docs/workflow.md: "Past periods render as read-only snapshots".
\* Does not hold: a cell that is being edited stays open when a past period is picked.
PastIsReadOnly == \A p \in written : p[2] # Past
=============================================================================
