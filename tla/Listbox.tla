------------------------------ MODULE Listbox ------------------------------
(***************************************************************************)
(* The panel of a Select or MultiSelect inside a dialog                    *)
(* (src/frontend/src/hooks/useListboxPanel.ts and useOverlay.ts,           *)
(* components/common/Select.tsx, MultiSelect.tsx and listboxParts.tsx).    *)
(*                                                                         *)
(* A panel opens from a trigger, narrows its list by a search, follows a   *)
(* highlight and is closed in five ways, three of which leave the search   *)
(* to an adjustment made by a later render.  Its parent may give it other  *)
(* options meanwhile, and the window may change between the dropdown and   *)
(* the bottom sheet.  A search is the set of the options it matches; a row *)
(* number counts from 1 and 0 stands for no row.                           *)
(***************************************************************************)
EXTENDS Naturals, Sequences, FiniteSets

CONSTANTS
  N,       \* the options are 1..N, in this order
  None

ListboxAssumption == N \in Nat

VARIABLES
  kind,        \* "select" or "multi"
  dialog,      \* the dialog around it is open
  options,     \* what the parent offers at the moment
  chosen,      \* value, or values
  open,
  highlighted,
  query,       \* None when the search is empty
  isMobile,
  focus

panel == <<open, highlighted, query>>
vars == <<kind, dialog, options, chosen, panel, isMobile, focus>>

-----------------------------------------------------------------------------
matchesQuery(opt) == query = None \/ opt \in query

\* The row of an option is the number of options up to it.
InOrder(s) == [i \in 1..Cardinality(s) |-> CHOOSE opt \in s : Cardinality({o \in s : o <= opt}) = i]

filteredOptions == InOrder({opt \in options : matchesQuery(opt)})
count == Len(filteredOptions)

\* The first row with one of these options.
RowIn(shown, opts) ==
  LET I == {i \in 1..Len(shown) : shown[i] \in opts}
  IN IF I = {} THEN 0 ELSE CHOOSE i \in I : \A j \in I : i <= j

\* The row a panel opens on; it is a row of the whole list.
initialHighlightIndex ==
  LET first == RowIn(InOrder(options), chosen)
  IN IF first = 0 THEN 1 ELSE first

\* The overlays in the order in which they were opened; Escape closes the last.
overlayStack == (IF dialog THEN <<"dialog">> ELSE <<>>) \o (IF open /\ isMobile THEN <<"sheet">> ELSE <<>>)

Init ==
  /\ kind \in {"select", "multi"}
  /\ dialog = TRUE
  /\ options \in SUBSET (1..N)
  /\ chosen \in {c \in SUBSET (1..N) : Cardinality(c) <= (IF kind = "select" THEN 1 ELSE N)}
  /\ open = FALSE /\ highlighted = 0 /\ query = None
  /\ isMobile \in BOOLEAN
  /\ focus = "page"

-----------------------------------------------------------------------------

openPanel ==
  /\ open' = TRUE /\ query' = None /\ highlighted' = initialHighlightIndex
  /\ focus' = IF isMobile THEN "sheet" ELSE "trigger"
  /\ UNCHANGED <<kind, dialog, options, chosen, isMobile>>

closePanel == open' = FALSE /\ query' = None /\ highlighted' = 0 /\ focus' = "trigger"

\* A render commits with the panel closed.
Adjust ==
  /\ ~open /\ (query # None \/ highlighted # 0)
  /\ query' = None /\ highlighted' = 0
  /\ UNCHANGED <<kind, dialog, options, chosen, open, isMobile, focus>>

\* setOpen(false): Tab, a press outside (a sheet covers what is outside it), or the trigger.
setClosed(f) ==
  /\ open' = FALSE /\ focus' = f
  /\ UNCHANGED <<kind, dialog, options, chosen, highlighted, query, isMobile>>

TriggerClick == (~open /\ openPanel) \/ (open /\ ~isMobile /\ setClosed("trigger"))
handlePointerDown == open /\ ~isMobile /\ setClosed("page")
Tab == open /\ focus = "trigger" /\ setClosed("page")

-----------------------------------------------------------------------------
Toggled(opt) == IF opt \in chosen THEN chosen \ {opt} ELSE chosen \cup {opt}

\* selectIndex and toggleIndex: a row that is not there is not picked.
onActivate(i, f) ==
  /\ UNCHANGED <<kind, dialog, options, isMobile>>
  /\ CASE i \notin 1..count -> UNCHANGED <<chosen, panel, focus>>
       [] i \in 1..count /\ kind = "select" -> chosen' = {filteredOptions[i]} /\ closePanel
       [] OTHER -> /\ chosen' = Toggled(filteredOptions[i])
                   /\ focus' \in f
                   /\ UNCHANGED panel

\* Whether a press on a button focuses it is up to the browser.
RowClick == open /\ \E i \in 1..count : onActivate(i, {focus, "row"})

ArrowOpens == ~open /\ focus = "trigger" /\ openPanel

Move(row) ==
  /\ open /\ focus = "trigger"
  /\ highlighted' = IF count = 0 THEN 0 ELSE row
  /\ UNCHANGED <<kind, dialog, options, chosen, open, query, isMobile, focus>>

ArrowDown == Move(IF highlighted = 0 THEN 1 ELSE (highlighted % count) + 1)
ArrowUp == Move(IF highlighted <= 1 THEN count ELSE highlighted - 1)
Home == Move(1)
End == Move(count)

\* The labels that begin with what was typed on the trigger.
TypeAhead == \E labels \in SUBSET (1..N) :
  LET idx == RowIn(filteredOptions, labels)
  IN idx # 0 /\ Move(idx)

TriggerEnter ==
  /\ open /\ focus = "trigger"
  /\ \/ highlighted # 0 /\ onActivate(highlighted, {"trigger"})
     \/ highlighted = 0 /\ closePanel /\ UNCHANGED <<kind, dialog, options, chosen, isMobile>>

-----------------------------------------------------------------------------
FocusSearch ==
  /\ open /\ focus # "search" /\ focus' = "search"
  /\ UNCHANGED <<kind, dialog, options, chosen, panel, isMobile>>

FocusTrigger ==
  /\ ~open /\ focus # "trigger" /\ focus' = "trigger"
  /\ UNCHANGED <<kind, dialog, options, chosen, panel, isMobile>>

\* The dropdown highlights the first match, the sheet has no highlight to show.
handleSearchChange(value) ==
  /\ open /\ focus = "search"
  /\ query' = value
  /\ highlighted' = IF isMobile THEN highlighted ELSE 1
  /\ UNCHANGED <<kind, dialog, options, chosen, open, isMobile, focus>>

match == IF highlighted # 0 /\ highlighted <= count THEN highlighted ELSE 1

SearchEnter == open /\ focus = "search" /\ count # 0 /\ onActivate(match, {"search"})

\* Mutant: Enter and Escape of the search box are left to the document.
consumedByTrigger == open /\ focus = "trigger"

\* The handlers of the trigger and of the search box stop the key.
consumed == open /\ focus \in {"trigger", "search"}

Escape ==
  LET top == overlayStack[Len(overlayStack)] = "dialog"
  IN /\ UNCHANGED <<kind, options, isMobile, chosen>>
     /\ IF consumed \/ ~top
        THEN closePanel /\ UNCHANGED dialog
        ELSE dialog' = FALSE /\ open' = FALSE /\ query' = None /\ highlighted' = 0 /\ focus' = "page"

\* The dialog is mounted again, with what the form holds by then.
OpenDialog ==
  /\ ~dialog /\ dialog' = TRUE
  /\ UNCHANGED <<kind, options, chosen, panel, isMobile, focus>>

OptionsChange ==
  /\ \E s \in SUBSET (1..N) : s # options /\ options' = s
  /\ UNCHANGED <<kind, dialog, chosen, panel, isMobile, focus>>

\* The sheet takes the focus when it comes up and gives it back when it goes.
Resize ==
  /\ isMobile' = ~isMobile
  /\ focus' = IF open THEN (IF isMobile THEN "trigger" ELSE "sheet") ELSE focus
  /\ UNCHANGED <<kind, dialog, options, chosen, panel>>

Listening ==
  \/ TriggerClick \/ handlePointerDown \/ Tab \/ RowClick
  \/ ArrowOpens \/ ArrowDown \/ ArrowUp \/ Home \/ End \/ TypeAhead \/ TriggerEnter
  \/ FocusSearch \/ FocusTrigger \/ SearchEnter \/ Escape
  \/ \E value \in {None} \cup SUBSET (1..N) : handleSearchChange(value)

Next == (dialog /\ Listening) \/ Adjust \/ OpenDialog \/ OptionsChange \/ Resize

Spec == Init /\ [][Next]_vars

-----------------------------------------------------------------------------
TypeOK ==
  /\ kind \in {"select", "multi"} /\ dialog \in BOOLEAN
  /\ options \subseteq 1..N /\ chosen \subseteq 1..N /\ (kind = "select" => Cardinality(chosen) <= 1)
  /\ open \in BOOLEAN /\ highlighted \in 0..N+1 /\ query \in {None} \cup SUBSET (1..N)
  /\ isMobile \in BOOLEAN /\ focus \in {"page", "trigger", "search", "row", "sheet"}

(***************************************************************************)
(* "Every open starts clean regardless of what the previous session left": *)
(* the whole list is shown, whichever way the panel was closed and whether *)
(* or not a render came between (useListboxPanel.ts:120-146).              *)
(***************************************************************************)
OpensClean ==
  ~open /\ open' => query' = None

(***************************************************************************)
(* Enter in the search box finds a match to pick whenever one is listed,   *)
(* also when the list became shorter under a highlight that was further    *)
(* down (handleSearchKeyDown).                                             *)
(***************************************************************************)
EnterPicks == open /\ focus = "search" /\ count # 0 => match \in 1..count

(***************************************************************************)
(* Escape with the panel of a Select open closes the panel and never the   *)
(* dialog around it, in which a form may be half filled in                 *)
(* (useOverlay.ts:3-5).                                                    *)
(***************************************************************************)
SelectKeepsDialog ==
  kind = "select" /\ open /\ Escape => dialog' = dialog

(***************************************************************************)
(* The same of every panel: "Consume the key: without this, a surrounding  *)
(* Modal's document-level Escape listener [...] closes the whole dialog"   *)
(* (useListboxPanel.ts:214).  Does not hold: a press on a row of a         *)
(* MultiSelect leaves the panel open and the focus on the row, where no    *)
(* handler consumes the key.                                               *)
(***************************************************************************)
EscapeClosesOne ==
  open /\ Escape => dialog' = dialog

(***************************************************************************)
(* "The mobile sheet has no highlight, so fall back to the first match"    *)
(* (useListboxPanel.ts:253): does not hold, openPanel highlights the       *)
(* chosen row on a sheet as well.                                          *)
(***************************************************************************)
SheetPicksFirst ==
  SearchEnter /\ isMobile /\ kind = "select" => chosen' = {filteredOptions[1]}
=============================================================================
