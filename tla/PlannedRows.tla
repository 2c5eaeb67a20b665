---------------------------- MODULE PlannedRows ----------------------------
(***************************************************************************)
(* The rows of the Planned page and what is done to them: the plans and    *)
(* the recurring rules, their forms, dialogs and sheets                    *)
(* (src/frontend/src/pages/Planned.tsx, with PlannedFormModal.tsx,         *)
(* RecurringFormModal.tsx, ExecuteAdjustedModal.tsx, ConfirmDialog.tsx and *)
(* ActionSheet.tsx), beside what the server does with the requests         *)
(* (src/backend/planned_transactions/services.py).                         *)
(*                                                                         *)
(* Whatever is opened keeps the row it was opened for, as the list showed  *)
(* it; a PUT replaces the whole row, so it repeats what that row said of   *)
(* everything the user did not touch.  A list is fetched again when a      *)
(* mutation that is answered invalidates it.                               *)
(*                                                                         *)
(* One plan and one rule are followed, and the next occurrence of the      *)
(* rule; what is created joins other rows.  A row is its status and a text *)
(* that stands for its other fields.  Nobody else edits them.              *)
(***************************************************************************)
EXTENDS Naturals

CONSTANTS
  Texts,
  MaxMoves, \* of the user, in a behaviour
  None

PlannedRowsAssumption == MaxMoves \in Nat

VARIABLES
  plan, rule, \* server: the rows, or None
  due,        \* server: the row of the rule's next occurrence exists
  seen,       \* the queries: the rows they answered last
  stale,      \* the queries that are to be fetched (again)
  view,       \* which of the two lists is shown
  surface,    \* the form, dialog or sheet that is open
  deleteRulePending,
  requests,
  lost,       \* an answer to a request that was served was lost
  moves       \* what the user did

server == <<plan, rule, due>>
queries == <<seen, stale>>
page == <<view, surface, deleteRulePending>>
vars == <<server, queries, page, requests, lost, moves>>

-----------------------------------------------------------------------------
\* The rule of a plan: this one, another, or none.
Plan == [status : {"pending", "done", "cancelled"}, text : Texts, rule : {"this", "other", None}]
Rule == [active : BOOLEAN, text : Texts]

Forms == {"edit", "copy", "new"}
RuleForms == {"editRule", "fromPlanned", "newRule"}
PlanKinds == {"edit", "copy", "sheet", "adjust", "cancel", "delete", "fromPlanned"}
RuleKinds == {"editRule", "ruleSheet", "deleteRule"}

\* The row it was opened for, and what the user sees or sets in it: the text, and the
\* switch of a form (active, adopt).  Of the switch of the rule's dialog it remembers
\* whether the user has touched it.
Surface == [kind : PlanKinds \cup RuleKinds \cup {"new", "newRule"}, row : Plan \cup Rule \cup {None},
            text : Texts \cup {None}, switch : BOOLEAN]

Ops == {"execute", "adjust", "cancel", "delete", "save", "create",
        "toggle", "deleteRule", "saveRule", "createRule"}

Request == [id : 1..MaxMoves, op : Ops, row : Plan \cup Rule \cup {None},
            put : Plan \cup Rule \cup {None}, flag : BOOLEAN, phase : {"sent", "ok", "error"}]

\* A mutation that is under way disables its button.
Busy(ops) == \E r \in requests : r.op \in ops

\* Mutant: a rule is of the recurring list only.
InvalidatesOwn(op) ==
  IF op \in {"deleteRule", "saveRule", "createRule", "toggle"} THEN {"recurring"} ELSE {"planned"}

\* What the mutations do when they are answered.
Invalidates(op) ==
  IF op \in {"deleteRule", "saveRule", "createRule"} THEN {"planned", "recurring"}
  ELSE IF op = "toggle" THEN {"recurring"} ELSE {"planned"}

Closes(op, phase) ==
  CASE op \in {"cancel", "delete", "deleteRule"} -> {op}
    [] op = "adjust" /\ phase = "ok" -> {"adjust"}
    [] op \in {"save", "create"} /\ phase = "ok" -> Forms
    [] op \in {"saveRule", "createRule"} /\ phase = "ok" -> RuleForms
    [] OTHER -> {}

-----------------------------------------------------------------------------
(* The user.                                                               *)

Move == moves < MaxMoves /\ moves' = moves + 1

Open(kind, row, text, switch) ==
  surface' = [kind |-> kind, row |-> row, text |-> text, switch |-> switch]

Send(op, row, put, flag) ==
  requests' = requests \cup
    {[id |-> moves + 1, op |-> op, row |-> row, put |-> put, flag |-> flag, phase |-> "sent"]}

IsOpen(kind) == surface # None /\ surface.kind = kind

\* The row a button belongs to: that of the list, or that of a sheet or form, which
\* closes first.
planOf(kinds) ==
  (IF surface # None
   THEN (IF surface.kind \in kinds THEN {surface.row} ELSE {})
   ELSE IF view = "planned" THEN {seen.plan} ELSE {}) \ {None}

ruleOf(kinds) ==
  (IF surface # None
   THEN (IF surface.kind \in kinds THEN {surface.row} ELSE {})
   ELSE IF view = "recurring" THEN {seen.rule} ELSE {}) \ {None}

Untouched == UNCHANGED <<server, queries, view, lost>>

setView(v) ==
  /\ Move /\ surface = None /\ v # view
  /\ view' = v
  /\ UNCHANGED <<server, queries, surface, deleteRulePending, requests, lost>>

\* The New button of the page.
openNew ==
  /\ Move /\ surface = None
  /\ Open(IF view = "planned" THEN "new" ELSE "newRule", None, None, FALSE)
  /\ Untouched /\ UNCHANGED <<deleteRulePending, requests>>

\* On touch, a tap on the row.
setRowAction ==
  /\ Move /\ surface = None
  /\ \/ \E p \in planOf({}) : Open("sheet", p, None, FALSE)
     \/ \E r \in ruleOf({}) : Open("ruleSheet", r, None, FALSE)
  /\ Untouched /\ UNCHANGED <<deleteRulePending, requests>>

\* Escape, the backdrop, or the Cancel of a form.
close ==
  /\ Move /\ surface # None
  /\ surface' = None
  /\ Untouched /\ UNCHANGED <<deleteRulePending, requests>>

execute(p) ==
  /\ Move
  /\ p \in planOf({"sheet", "edit"}) /\ p.status = "pending"
  /\ Send("execute", p, None, FALSE)
  /\ surface' = None
  /\ Untouched /\ UNCHANGED deleteRulePending

setAdjusting(p) ==
  /\ Move
  /\ p \in planOf({"sheet"}) /\ p.status = "pending"
  /\ Open("adjust", p, None, FALSE)
  /\ Untouched /\ UNCHANGED <<deleteRulePending, requests>>

setCancelling(p) ==
  /\ Move
  /\ p \in planOf({"sheet", "edit"}) /\ p.status = "pending"
  /\ Open("cancel", p, None, FALSE)
  /\ Untouched /\ UNCHANGED <<deleteRulePending, requests>>

setDeleting(p) ==
  /\ Move
  /\ p \in planOf({"sheet", "edit"})
  /\ Open("delete", p, None, FALSE)
  /\ Untouched /\ UNCHANGED <<deleteRulePending, requests>>

openEdit(p) ==
  /\ Move
  /\ p \in planOf({"sheet"})
  /\ Open("edit", p, p.text, FALSE)
  /\ Untouched /\ UNCHANGED <<deleteRulePending, requests>>

\* A copy is a new plan, prefilled.
openCopy(p) ==
  /\ Move
  /\ p \in planOf({"edit"})
  /\ Open("copy", p, p.text, FALSE)
  /\ Untouched /\ UNCHANGED <<deleteRulePending, requests>>

\* A rule prefilled from a plan, which it adopts unless the switch is turned off.
openMakeRecurring(p) ==
  /\ Move
  /\ p \in planOf({"sheet"}) /\ p.status = "pending" /\ p.rule = None
  /\ Open("fromPlanned", p, p.text, TRUE)
  /\ Untouched /\ UNCHANGED <<deleteRulePending, requests>>

openEditRule(r) ==
  /\ Move
  /\ r \in ruleOf({"ruleSheet"})
  /\ Open("editRule", r, r.text, r.active)
  /\ Untouched /\ UNCHANGED <<deleteRulePending, requests>>

\* Mutant: the switch is where the last dialog left it.
openDeleteRuleAsLeft(r) ==
  /\ Move
  /\ r \in ruleOf({"ruleSheet", "editRule"})
  /\ Open("deleteRule", r, None, FALSE)
  /\ Untouched /\ UNCHANGED <<deleteRulePending, requests>>

openDeleteRule(r) ==
  /\ Move
  /\ r \in ruleOf({"ruleSheet", "editRule"})
  /\ Open("deleteRule", r, None, FALSE)
  /\ deleteRulePending' = FALSE
  /\ Untouched /\ UNCHANGED requests

setDeleteRulePending ==
  /\ Move /\ IsOpen("deleteRule")
  /\ deleteRulePending' = ~deleteRulePending
  /\ surface' = [surface EXCEPT !.switch = TRUE]
  /\ Untouched /\ UNCHANGED requests

\* A form is edited: its text, or its switch.
type(t) ==
  /\ Move /\ surface # None /\ surface.kind \in Forms \cup RuleForms
  /\ surface' = [surface EXCEPT !.text = t]
  /\ Untouched /\ UNCHANGED <<deleteRulePending, requests>>

setSwitch ==
  /\ Move /\ surface # None /\ surface.kind \in {"editRule", "fromPlanned"}
  /\ surface' = [surface EXCEPT !.switch = ~@]
  /\ Untouched /\ UNCHANGED <<deleteRulePending, requests>>

-----------------------------------------------------------------------------
(* What is sent.  The form or dialog stays open until the answer.          *)

\* An edit states the status of the row it was opened for.
put(p, t) == [p EXCEPT !.text = t]

submitPlanned ==
  /\ Move /\ surface # None /\ surface.kind \in Forms /\ surface.text # None
  /\ ~Busy({"save", "create"})
  /\ IF surface.kind = "edit"
     THEN Send("save", surface.row, put(surface.row, surface.text), FALSE)
     ELSE Send("create", None, None, FALSE)
  /\ Untouched /\ UNCHANGED <<surface, deleteRulePending>>

submitRule ==
  /\ Move /\ surface # None /\ surface.kind \in RuleForms /\ surface.text # None
  /\ ~Busy({"saveRule", "createRule"})
  /\ IF surface.kind = "editRule"
     THEN Send("saveRule", surface.row, [active |-> surface.switch, text |-> surface.text], FALSE)
     ELSE Send("createRule", surface.row, None, surface.kind = "fromPlanned" /\ surface.switch)
  /\ Untouched /\ UNCHANGED <<surface, deleteRulePending>>

submitAdjusted ==
  /\ Move /\ IsOpen("adjust") /\ ~Busy({"adjust"})
  /\ Send("adjust", surface.row, None, FALSE)
  /\ Untouched /\ UNCHANGED <<surface, deleteRulePending>>

\* The dialogs.  A plan is cancelled by a PUT of its row with another status.
confirmCancel ==
  /\ Move /\ IsOpen("cancel") /\ ~Busy({"cancel"})
  /\ Send("cancel", surface.row, [surface.row EXCEPT !.status = "cancelled"], FALSE)
  /\ Untouched /\ UNCHANGED <<surface, deleteRulePending>>

confirmDelete ==
  /\ Move /\ IsOpen("delete") /\ ~Busy({"delete"})
  /\ Send("delete", surface.row, None, FALSE)
  /\ Untouched /\ UNCHANGED <<surface, deleteRulePending>>

confirmDeleteRule ==
  /\ Move /\ IsOpen("deleteRule") /\ ~Busy({"deleteRule"})
  /\ Send("deleteRule", surface.row, None, deleteRulePending)
  /\ Untouched /\ UNCHANGED <<surface, deleteRulePending>>

\* A rule is paused or resumed by a PUT of its row.
toggleActive(r) ==
  /\ Move
  /\ r \in ruleOf({"ruleSheet"})
  /\ Send("toggle", r, [r EXCEPT !.active = ~@], FALSE)
  /\ surface' = None
  /\ Untouched /\ UNCHANGED deleteRulePending

-----------------------------------------------------------------------------
(* The server.                                                             *)

\* What it refuses: a row that is gone, a plan that was executed and would be executed
\* again or reverted, a plan that cannot be adopted.
Refuses(r) ==
  CASE r.op \in {"execute", "adjust"} -> plan = None \/ plan.status = "done"
    [] r.op \in {"save", "cancel"} -> plan = None \/ (plan.status = "done" /\ r.put.status # "done")
    [] r.op = "delete" -> plan = None
    [] r.op \in {"toggle", "saveRule", "deleteRule"} -> rule = None
    [] r.op = "createRule" /\ r.flag -> plan = None \/ plan.status # "pending" \/ plan.rule # None
    [] OTHER -> FALSE

planAfter(r) ==
  CASE r.op \in {"execute", "adjust"} -> [plan EXCEPT !.status = "done"]
    [] r.op \in {"save", "cancel"} -> [plan EXCEPT !.status = r.put.status, !.text = r.put.text]
    [] r.op = "delete" -> None
    [] r.op = "createRule" /\ r.flag -> [plan EXCEPT !.rule = "other"]
    [] r.op = "deleteRule" /\ plan # None ->
         IF plan.rule # "this" THEN plan
         ELSE IF r.flag /\ plan.status = "pending" THEN None ELSE [plan EXCEPT !.rule = None]
    [] OTHER -> plan

\* A rule that is saved active is generated from at once.
dueAfter(r) ==
  CASE r.op \in {"toggle", "saveRule"} -> due \/ r.put.active
    [] r.op = "deleteRule" -> due /\ ~r.flag
    [] OTHER -> due

ruleAfter(r) ==
  CASE r.op \in {"toggle", "saveRule"} -> r.put
    [] r.op = "deleteRule" -> None
    [] OTHER -> rule

Answered(r, phase) == requests' = (requests \ {r}) \cup {[r EXCEPT !.phase = phase]}

Serve(r) ==
  /\ r.phase = "sent"
  /\ IF Refuses(r)
     THEN Answered(r, "error") /\ UNCHANGED server
     ELSE Answered(r, "ok") /\ plan' = planAfter(r) /\ rule' = ruleAfter(r) /\ due' = dueAfter(r)
  /\ UNCHANGED <<queries, page, lost, moves>>

\* The request, or the answer, is lost.
Fail(r) ==
  /\ r.phase # "error"
  /\ Answered(r, "error")
  /\ lost' = (lost \/ r.phase = "ok")
  /\ UNCHANGED <<server, queries, page, moves>>

-----------------------------------------------------------------------------
(* The answers, and the lists.                                             *)

\* Whatever of its kind is open closes, and only a success invalidates.
Settle(r) ==
  /\ r.phase # "sent"
  /\ requests' = requests \ {r}
  /\ stale' = IF r.phase = "ok" THEN stale \cup Invalidates(r.op) ELSE stale
  /\ surface' = IF surface # None /\ surface.kind \in Closes(r.op, r.phase) THEN None ELSE surface
  /\ UNCHANGED <<server, seen, view, deleteRulePending, lost, moves>>

FetchPlanned ==
  /\ "planned" \in stale
  /\ stale' = stale \ {"planned"}
  /\ seen' = [seen EXCEPT !.plan = plan, !.due = due]
  /\ UNCHANGED <<server, page, requests, lost, moves>>

\* Asked for in the recurring view only.
FetchRecurring ==
  /\ "recurring" \in stale /\ view = "recurring"
  /\ stale' = stale \ {"recurring"}
  /\ seen' = [seen EXCEPT !.rule = rule]
  /\ UNCHANGED <<server, page, requests, lost, moves>>

-----------------------------------------------------------------------------
\* A paused rule may have missed an occurrence.
Init ==
  /\ plan \in {p \in Plan : p.text = CHOOSE t \in Texts : TRUE}
  /\ rule \in {r \in Rule : r.text = CHOOSE t \in Texts : TRUE}
  /\ due \in BOOLEAN /\ (rule.active => due)
  /\ seen = [plan |-> plan, due |-> due, rule |-> None] /\ stale = {"recurring"}
  /\ view \in {"planned", "recurring"} /\ surface = None /\ deleteRulePending = FALSE
  /\ requests = {} /\ lost = FALSE /\ moves = 0

Plans == {plan, seen.plan} \cup {IF surface = None THEN None ELSE surface.row}
Rules == {rule, seen.rule} \cup {IF surface = None THEN None ELSE surface.row}

Next ==
  \/ \E v \in {"planned", "recurring"} : setView(v)
  \/ openNew \/ setRowAction \/ close
  \/ \E p \in Plans : execute(p) \/ setAdjusting(p) \/ setCancelling(p) \/ setDeleting(p)
                        \/ openEdit(p) \/ openCopy(p) \/ openMakeRecurring(p)
  \/ \E r \in Rules : openEditRule(r) \/ openDeleteRule(r) \/ toggleActive(r)
  \/ setDeleteRulePending \/ setSwitch \/ \E t \in Texts : type(t)
  \/ submitPlanned \/ submitRule \/ submitAdjusted
  \/ confirmCancel \/ confirmDelete \/ confirmDeleteRule
  \/ \E r \in requests : Serve(r) \/ Fail(r) \/ Settle(r)
  \/ FetchPlanned \/ FetchRecurring

Spec == Init /\ [][Next]_vars

-----------------------------------------------------------------------------
(* Properties.                                                             *)

TypeOK ==
  /\ plan \in Plan \cup {None} /\ rule \in Rule \cup {None} /\ due \in BOOLEAN
  /\ seen \in [plan : Plan \cup {None}, due : BOOLEAN, rule : Rule \cup {None}]
  /\ stale \subseteq {"planned", "recurring"} /\ view \in {"planned", "recurring"}
  /\ surface \in Surface \cup {None}
  /\ surface # None /\ surface.kind \in PlanKinds => surface.row \in Plan
  /\ surface # None /\ surface.kind \in RuleKinds => surface.row \in Rule
  /\ deleteRulePending \in BOOLEAN /\ lost \in BOOLEAN
  /\ requests \subseteq Request /\ moves \in 0..MaxMoves

\* When nothing is under way, no answer was lost and nothing is to be fetched, the page
\* shows the rows as they are.
RowsCaughtUp ==
  requests = {} /\ ~lost =>
    /\ "planned" \notin stale => seen.plan = plan
    /\ "recurring" \notin stale => seen.rule = rule

\* "A previous session's toggle never leaks into the next": pending rows are deleted
\* with their rule only if the user turned the switch on in this dialog.
SwitchIsOwn == IsOpen("deleteRule") /\ deleteRulePending => surface.switch

\* An edit of a plan that nothing has changed since the form opened is not refused,
\* whatever its status.
EditsAccepted ==
  \A r \in requests : r.op = "save" /\ r.phase = "sent" /\ r.row = plan => ~Refuses(r)

\* Planned.tsx of pausing and resuming: "Planned rows never change here, so only
\* ['recurring'] refetches".
OccurrencesShown ==
  requests = {} /\ ~lost /\ "planned" \notin stale => seen.due = due
=============================================================================
