---------------------------- MODULE TransferForm ---------------------------
(***************************************************************************)
(* The forms of the Transfers page                                         *)
(* (src/frontend/src/components/accounts/TransferModal.tsx and             *)
(* src/frontend/src/pages/TransfersPage.tsx).                              *)
(*                                                                         *)
(* One form makes transfers and is always mounted: what it holds outlives  *)
(* its closing, and a session begins when it opens or when what it repeats *)
(* changes.  The other edits a transfer, and is there while its detail     *)
(* query has an answer; when that answer changes it begins again.  The     *)
(* answer to a save is handled by whatever the form is by then.            *)
(*                                                                         *)
(* One transfer is followed; a transfer is its two accounts and a text     *)
(* that stands for its amounts, date and description.                      *)
(***************************************************************************)
EXTENDS Naturals, FiniteSets

CONSTANTS
  Accounts, \* numbers, in the order of the list
  Texts,    \* the first of them is the empty one
  MaxMoves,
  None

TransferFormAssumption ==
  /\ Accounts \subseteq Nat /\ IsFiniteSet(Accounts) /\ Texts \subseteq Nat
  /\ None \notin Nat /\ MaxMoves \in Nat

VARIABLES
  accounts,   \* the query: the accounts that are known
  transfer,   \* server: the followed transfer, or None
  row,        \* the list: that transfer, as it was fetched last
  detail,     \* the query of the edit form, or None
  stale,      \* of the two queries
  open,       \* transferOpen
  repeatFrom, \* repeatTransfer
  form,       \* the fields of the form that makes transfers
  session,    \* its last session
  seededLen,  \* seededAccountsLen
  editing,    \* editingId is that of the transfer
  edit,       \* the fields of the edit form, and the detail they were seeded from, or None
  deleting,   \* the dialog: the row
  saving,     \* what each form has sent
  lastPair,   \* localStorage: LAST_PAIR_KEY
  recorded,   \* history: the last pair the server recorded for this page
  moves

queries == <<row, detail, stale>>
createForm == <<open, repeatFrom, form, session, seededLen>>
vars == <<accounts, transfer, queries, createForm, editing, edit, deleting, saving, lastPair, recorded, moves>>

-----------------------------------------------------------------------------
Empty == CHOOSE t \in Texts : \A u \in Texts : t <= u

Pair == (Accounts \cup {None}) \X (Accounts \cup {None})
Transfer == [from : Accounts, to : Accounts, text : Texts]
Form == [from : Accounts \cup {None}, to : Accounts \cup {None}, text : Texts]
Session == [open : BOOLEAN, source : Transfer \cup {None}]
Saving == [form : {"create", "edit"}, put : Transfer, phase : {"sent", "ok", "error"}]

First(S) == CHOOSE a \in S : \A b \in S : a <= b
Last(S) == CHOOSE a \in S : \A b \in S : b <= a

\* The pair of the last transfer, as far as its accounts are there; or the only two.
deriveDefaultPair(S) ==
  LET from == IF lastPair # None /\ lastPair[1] \in S THEN lastPair[1] ELSE None
      to == IF lastPair # None /\ lastPair[2] \in S THEN lastPair[2] ELSE None
  IN IF from = None /\ to = None /\ Cardinality(S) = 2 THEN <<First(S), Last(S)>> ELSE <<from, to>>

\* The fields of a new session.
Seed(source, S) ==
  IF source # None THEN [from |-> source.from, to |-> source.to, text |-> Empty]
  ELSE [from |-> deriveDefaultPair(S)[1], to |-> deriveDefaultPair(S)[2], text |-> Empty]

Move == moves < MaxMoves /\ moves' = moves + 1

Idle == ~open /\ ~editing /\ deleting = None

\* The form renders: a session that is not the last one seeds it, if it is open.
Render(isOpen, source) ==
  LET s == [open |-> isOpen, source |-> source]
  IN /\ open' = isOpen /\ repeatFrom' = source /\ session' = s
     /\ form' = IF s # session /\ isOpen THEN Seed(source, accounts) ELSE form

-----------------------------------------------------------------------------
(* Accounts and transfers arrive.                                          *)

\* Mutant: a pair that is half chosen is derived again.
UntouchedHalf(f) == f.from = None \/ f.to = None

Untouched(f) == f.from = None /\ f.to = None

\* A list of another length derives the pair again, in a session without a source
\* whose pair is still empty.
AccountsArrive(S) ==
  /\ Cardinality(S) # Cardinality(accounts)
  /\ accounts' = S /\ seededLen' = Cardinality(S)
  /\ form' = IF open /\ repeatFrom = None /\ Untouched(form)
             THEN [form EXCEPT !.from = deriveDefaultPair(S)[1], !.to = deriveDefaultPair(S)[2]]
             ELSE form
  /\ UNCHANGED <<transfer, queries, open, repeatFrom, session, editing, edit, deleting, saving, lastPair, recorded, moves>>

FetchList ==
  /\ "list" \in stale
  /\ row' = transfer /\ stale' = stale \ {"list"}
  /\ UNCHANGED <<accounts, transfer, detail, createForm, editing, edit, deleting, saving, lastPair, recorded, moves>>

\* The edit form is there while editing has a detail, and begins again with another one.
Mounted(isEditing, d) ==
  IF ~isEditing \/ d = None THEN None
  ELSE IF edit # None /\ edit.source = d THEN edit ELSE [fields |-> d, source |-> d]

\* Asked for while it edits; a fetch that was begun ends.
FetchDetail ==
  /\ "detail" \in stale /\ (editing \/ detail # None)
  /\ transfer # None
  /\ detail' = transfer /\ stale' = stale \ {"detail"}
  /\ edit' = Mounted(editing, transfer)
  /\ UNCHANGED <<accounts, transfer, row, createForm, editing, deleting, saving, lastPair, recorded, moves>>

-----------------------------------------------------------------------------
(* The user.                                                               *)

openCreate ==
  /\ Move /\ Idle
  /\ Render(TRUE, None)
  /\ UNCHANGED <<accounts, transfer, queries, seededLen, editing, edit, deleting, saving, lastPair, recorded>>

openRepeat ==
  /\ Move /\ Idle /\ row # None
  /\ Render(TRUE, row)
  /\ UNCHANGED <<accounts, transfer, queries, seededLen, editing, edit, deleting, saving, lastPair, recorded>>

setEditingId ==
  /\ Move /\ Idle /\ row # None
  /\ editing' = TRUE /\ edit' = Mounted(TRUE, detail)
  /\ UNCHANGED <<accounts, transfer, queries, createForm, deleting, saving, lastPair, recorded>>

setDeleting ==
  /\ Move /\ Idle /\ row # None
  /\ deleting' = row
  /\ UNCHANGED <<accounts, transfer, queries, createForm, editing, edit, saving, lastPair, recorded>>

\* The fields of the form that is open.
setField(f) ==
  /\ Move
  /\ \/ open /\ form' = f /\ UNCHANGED edit
     \/ edit # None /\ edit' = [edit EXCEPT !.fields = f] /\ UNCHANGED form
  /\ f.from \in accounts \cup {None} /\ f.to \in accounts \cup {None}
  /\ UNCHANGED <<accounts, transfer, queries, open, repeatFrom, session, seededLen, editing, deleting, saving, lastPair, recorded>>

close ==
  /\ Move /\ ~Idle
  /\ Render(FALSE, repeatFrom)
  /\ editing' = FALSE /\ edit' = None /\ deleting' = None
  /\ UNCHANGED <<accounts, transfer, queries, seededLen, saving, lastPair, recorded>>

Complete(f) == f.from # None /\ f.to # None /\ f.from # f.to /\ f.text # Empty

\* A form that waits for an answer does not submit again.
handleSubmit ==
  /\ Move
  /\ \E which \in {"create", "edit"} :
       LET f == IF which = "create" THEN form ELSE edit.fields
       IN /\ IF which = "create" THEN open ELSE edit # None
          /\ Complete(f) /\ \A s \in saving : s.form # which
          /\ saving' = saving \cup {[form |-> which, put |-> f, phase |-> "sent"]}
  /\ UNCHANGED <<accounts, transfer, queries, createForm, editing, edit, deleting, lastPair, recorded>>

\* The confirmed deletion, and its answer: the dialog closes whatever it says.
deleteTransfer(served) ==
  /\ Move /\ deleting # None
  /\ deleting' = None
  /\ transfer' = IF served THEN None ELSE transfer
  /\ stale' = IF served THEN stale \cup {"list", "detail"} ELSE stale
  /\ UNCHANGED <<accounts, row, detail, createForm, editing, edit, saving, lastPair, recorded>>

-----------------------------------------------------------------------------
(* The answers.                                                            *)

Phase(s, p) == saving' = (saving \ {s}) \cup {[s EXCEPT !.phase = p]}

\* The server records the transfer, or does not.
Serve(s) ==
  /\ s.phase = "sent"
  /\ IF s.form = "create"
     THEN Phase(s, "ok") /\ recorded' = <<s.put.from, s.put.to>> /\ UNCHANGED transfer
     ELSE IF transfer = None THEN Phase(s, "error") /\ UNCHANGED <<transfer, recorded>>
     ELSE Phase(s, "ok") /\ transfer' = s.put /\ UNCHANGED recorded
  /\ UNCHANGED <<accounts, queries, createForm, editing, edit, deleting, lastPair, moves>>

\* The request or its answer is lost.
Fail(s) ==
  /\ s.phase # "error"
  /\ Phase(s, "error")
  /\ UNCHANGED <<accounts, transfer, queries, createForm, editing, edit, deleting, lastPair, recorded, moves>>

\* The pair it remembers is the one the form has now.
Recorded(s) == IF s.form = "create" THEN <<form.from, form.to>> ELSE lastPair

\* A success closes the session there is by now; a failure is a toast.
Settle(s) ==
  /\ s.phase # "sent"
  /\ saving' = saving \ {s}
  /\ IF s.phase = "error" THEN UNCHANGED <<stale, createForm, editing, edit, lastPair>>
     ELSE /\ lastPair' = Recorded(s)
          /\ stale' = stale \cup {"list", "detail"}
          /\ UNCHANGED seededLen
          /\ IF s.form = "create"
             THEN Render(FALSE, repeatFrom) /\ UNCHANGED <<editing, edit>>
             ELSE editing' = FALSE /\ edit' = None /\ UNCHANGED <<open, repeatFrom, form, session>>
  /\ UNCHANGED <<accounts, transfer, row, detail, deleting, recorded, moves>>

-----------------------------------------------------------------------------
Init ==
  /\ accounts = {}
  /\ transfer \in {t \in Transfer : t.from < t.to /\ t.text = Last(Texts)}
  /\ row = transfer /\ detail = None /\ stale = {"detail"}
  /\ open = FALSE /\ repeatFrom = None /\ session = [open |-> FALSE, source |-> None]
  /\ form = [from |-> None, to |-> None, text |-> Empty] /\ seededLen = 0
  /\ editing = FALSE /\ edit = None /\ deleting = None
  /\ saving = {} /\ lastPair \in {None, <<First(Accounts), Last(Accounts)>>}
  /\ recorded = lastPair /\ moves = 0

\* One field of a form is changed at a time.
Touched(f) ==
  {[f EXCEPT !.from = a] : a \in accounts} \cup {[f EXCEPT !.to = a] : a \in accounts}
    \cup {[f EXCEPT !.text = t] : t \in Texts}

Next ==
  \/ \E S \in SUBSET Accounts : AccountsArrive(S)
  \/ FetchList \/ FetchDetail
  \/ openCreate \/ openRepeat \/ setEditingId \/ setDeleting \/ close
  \/ \E f \in Touched(IF edit # None THEN edit.fields ELSE form) : setField(f)
  \/ handleSubmit \/ \E served \in BOOLEAN : deleteTransfer(served)
  \/ \E s \in saving : Serve(s) \/ Fail(s) \/ Settle(s)

Spec == Init /\ [][Next]_vars

-----------------------------------------------------------------------------
(* Properties.                                                             *)

TypeOK ==
  /\ accounts \subseteq Accounts /\ transfer \in Transfer \cup {None}
  /\ row \in Transfer \cup {None} /\ detail \in Transfer \cup {None}
  /\ stale \subseteq {"list", "detail"} /\ open \in BOOLEAN /\ editing \in BOOLEAN
  /\ repeatFrom \in Transfer \cup {None} /\ form \in Form /\ session \in Session
  /\ session = [open |-> open, source |-> repeatFrom]
  /\ seededLen = Cardinality(accounts)
  /\ edit \in [fields : Form, source : Transfer] \cup {None}
  /\ deleting \in Transfer \cup {None} /\ saving \subseteq Saving
  /\ lastPair \in Pair \cup {None} /\ recorded \in Pair \cup {None} /\ moves \in 0..MaxMoves

\* "A mid-edit refetch never clobbers a typed transfer": accounts that arrive fill in a
\* pair, but do not replace an account that was chosen.
TypedSurvives ==
  accounts' # accounts =>
    /\ form.from # None => form'.from = form.from
    /\ form.to # None => form'.to = form.to
    /\ form'.text = form.text /\ edit' = edit

\* TransfersPage.tsx: "so the form never opens against stale/missing data".
\* Does not hold: the detail query keeps its last answer, and the form opens with it.
EditOpensFresh ==
  edit = None /\ edit' # None /\ transfer # None => edit'.source = transfer

\* TransferModal.tsx: "only a newly recorded pair is the last transfer made".
\* Does not hold: the pair is read from the form when the answer arrives.
LastPairWasRecorded ==
  lastPair' # lastPair => lastPair' = recorded
=============================================================================
