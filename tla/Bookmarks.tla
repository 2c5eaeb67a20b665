----------------------------- MODULE Bookmarks -----------------------------
(***************************************************************************)
(* The bookmarks of one user in a workspace: the page that manages them    *)
(* and the form that makes them                                            *)
(* (src/frontend/src/pages/BookmarksPage.tsx,                              *)
(* components/modals/bookmarks/BookmarkFormModal.tsx, hooks/useBookmarks), *)
(* beside the requests as the server runs them, together                   *)
(* (src/backend/bookmarks/services.py).                                    *)
(*                                                                         *)
(* The order of the list is by position, then by id.  A request reads what *)
(* is committed, then writes; a move locks the two rows it swaps one after *)
(* the other, and other writers of a row wait for it.  The page disables   *)
(* no control of a row while a request is under way.                       *)
(*                                                                         *)
(* A bookmark is its place and its two switches; name, icon, colour and    *)
(* target are not followed: a name may be taken, a target not be there.    *)
(* Nor is the cap of the sidebar.                                          *)
(***************************************************************************)
EXTENDS Naturals, FiniteSets

CONSTANTS
  MaxId,    \* rows that can be made
  MaxMoves, \* of the user, in a behaviour
  None

VARIABLES
  rows,     \* server: the bookmarks by id
  nextId,   \* server: the sequence of ids
  seen,     \* the query: the rows it answered last
  dialog,   \* the sheet, form or confirmation that is open
  requests, \* by the move of the user that sent it
  moves     \* what the user did

server == <<rows, nextId>>
vars == <<server, seen, dialog, requests, moves>>

-----------------------------------------------------------------------------
Ids == 1..MaxId
Moves == 1..MaxMoves

Bookmark == [position : Nat, active : BOOLEAN, archived : BOOLEAN]
Rows == [Ids -> Bookmark \cup {None}]

BookmarksAssumption == MaxId \in Nat \ {0} /\ MaxMoves \in Nat /\ None \notin Bookmark

\* waits: the request that disables the buttons of the form.
Dialog == [kind : {"sheet", "edit", "delete", "create"}, id : Ids \cup {None},
           archived : BOOLEAN, waits : 0..MaxMoves]

\* set: the switches to be written; read: the row as the request found it, of a new one as
\* it is to be; other: the neighbour.
Request == [op : {"up", "down", "visibility", "edit", "delete", "create"}, id : Ids \cup {None},
            set : [active : BOOLEAN \cup {None}, archived : BOOLEAN \cup {None}],
            read : Bookmark \cup {None}, other : Ids \cup {None},
            phase : {"sent", "read", "first", "ok", "error"}]

Sent == {n \in Moves : requests[n] # None}

Exist(R) == {i \in Ids : R[i] # None}

\* Meta.ordering
Before(R, i, j) ==
  R[i].position < R[j].position \/ (R[i].position = R[j].position /\ i < j)

First(R, S) == CHOOSE i \in S : \A j \in S \ {i} : Before(R, i, j)
Last(R, S) == CHOOSE i \in S : \A j \in S \ {i} : Before(R, j, i)

-----------------------------------------------------------------------------
(* The page.                                                               *)

Move == moves < MaxMoves /\ moves' = moves + 1

activeBookmarks == IF seen = None THEN {} ELSE {i \in Exist(seen) : ~seen[i].archived}
archivedBookmarks == IF seen = None THEN {} ELSE Exist(seen) \ activeBookmarks

\* The rows a control is for: those of the list, or that of the sheet, which closes.
rowAction(archived) ==
  IF dialog = None THEN (IF archived THEN archivedBookmarks ELSE activeBookmarks)
  ELSE IF dialog.kind # "sheet" THEN {}
  ELSE {i \in {dialog.id} : dialog.archived = archived}

nothing == [active |-> None, archived |-> None]

Post(op, i, set) ==
  requests' = [requests EXCEPT ![moves + 1] =
    [op |-> op, id |-> i, set |-> set, read |-> None, other |-> None, phase |-> "sent"]]

Shown(kind, i, archived) ==
  dialog' = [kind |-> kind, id |-> i, archived |-> archived, waits |-> 0]

setRowAction(i) ==
  /\ Move
  /\ dialog = None /\ i \in activeBookmarks \cup archivedBookmarks
  /\ Shown("sheet", i, seen[i].archived)
  /\ UNCHANGED <<server, seen, requests>>

\* The chevrons, which the ends of the list do not have.
move(op, i) ==
  /\ Move
  /\ i \in rowAction(FALSE)
  /\ activeBookmarks # {} =>
       i # (IF op = "up" THEN First(seen, activeBookmarks) ELSE Last(seen, activeBookmarks))
  /\ Post(op, i, nothing)
  /\ dialog' = None
  /\ UNCHANGED <<server, seen>>

\* The switch of the row.
setVisible(i) ==
  /\ Move
  /\ dialog = None /\ i \in activeBookmarks
  /\ Post("visibility", i, [nothing EXCEPT !.active = ~seen[i].active])
  /\ UNCHANGED <<server, seen, dialog>>

archive(i) ==
  /\ Move
  /\ i \in rowAction(FALSE)
  /\ Post("visibility", i, [nothing EXCEPT !.archived = TRUE])
  /\ dialog' = None
  /\ UNCHANGED <<server, seen>>

restore(i) ==
  /\ Move
  /\ i \in rowAction(TRUE)
  /\ Post("visibility", i, [nothing EXCEPT !.archived = FALSE])
  /\ dialog' = None
  /\ UNCHANGED <<server, seen>>

\* Editing and deleting a row of either list.
Opened(kind, i) ==
  /\ Move
  /\ i \in rowAction(FALSE) \cup rowAction(TRUE)
  /\ Shown(kind, i, FALSE)
  /\ UNCHANGED <<server, seen, requests>>

setEditing(i) == Opened("edit", i)
setDeleting(i) == Opened("delete", i)

\* The form is opened for a target, on the page of a budget or of a list.
setBookmarking ==
  /\ Move
  /\ dialog = None
  /\ Shown("create", None, FALSE)
  /\ UNCHANGED <<server, seen, requests>>

onClose ==
  /\ Move
  /\ dialog # None
  /\ dialog' = None
  /\ UNCHANGED <<server, seen, requests>>

handleSubmit ==
  /\ Move
  /\ dialog # None /\ dialog.kind \in {"edit", "create"} /\ dialog.waits = 0
  /\ Post(dialog.kind, dialog.id, nothing)
  /\ dialog' = [dialog EXCEPT !.waits = moves + 1]
  /\ UNCHANGED <<server, seen>>

\* The mutation is the page's: its buttons are disabled in every confirmation.
onConfirm ==
  /\ Move
  /\ dialog # None /\ dialog.kind = "delete"
  /\ \A n \in Sent : requests[n].op # "delete"
  /\ Post("delete", dialog.id, nothing)
  /\ UNCHANGED <<server, seen, dialog>>

\* The list is fetched whenever the window is looked at, and after a mutation.
BookmarksArrive ==
  /\ seen # rows
  /\ seen' = rows
  /\ UNCHANGED <<server, dialog, requests, moves>>

\* The answer of request n, if it comes.  The form that waits for it closes; the
\* confirmation closes in any case.
Answered(n) ==
  /\ n \in Sent /\ requests[n].phase \in {"ok", "error"}
  /\ \E ok \in BOOLEAN :
       /\ ok => requests[n].phase = "ok"
       /\ dialog' = IF dialog = None THEN None
                    ELSE IF dialog.waits = n
                    THEN (IF ok THEN None ELSE [dialog EXCEPT !.waits = 0])
                    ELSE IF requests[n].op = "delete" /\ dialog.kind = "delete" THEN None
                    ELSE dialog
  /\ requests' = [requests EXCEPT ![n] = None]
  /\ UNCHANGED <<server, seen, moves>>

-----------------------------------------------------------------------------
(* The server.                                                             *)

next_position == IF Exist(rows) = {} THEN 0 ELSE rows[Last(rows, Exist(rows))].position + 1

neighbor(op, i) ==
  LET S == {j \in Exist(rows) \ {i} : IF op = "up" THEN Before(rows, j, i) ELSE Before(rows, i, j)}
  IN IF S = {} THEN None ELSE IF op = "up" THEN Last(rows, S) ELSE First(rows, S)

Phase(n, phase) == requests' = [requests EXCEPT ![n].phase = phase]

IsMove(r) == r.op \in {"up", "down"}

\* What a request reads first, and what it answers at once: a target that is refused, or
\* a row that is gone, or the end of the list.
Read(n) ==
  LET r == requests[n]
  IN /\ n \in Sent /\ r.phase = "sent"
     /\ IF r.op = "create"
        THEN \/ Phase(n, "error")
             \/ requests' = [requests EXCEPT ![n].phase = "read", ![n].read =
                  [position |-> next_position, active |-> TRUE, archived |-> FALSE]]
        ELSE IF rows[r.id] = None THEN Phase(n, "error")
        ELSE IF IsMove(r) /\ neighbor(r.op, r.id) = None THEN Phase(n, "ok")
        ELSE IF IsMove(r)
        THEN requests' = [requests EXCEPT ![n].phase = "read", ![n].other = neighbor(r.op, r.id)]
        ELSE requests' = [requests EXCEPT ![n].phase = "read", ![n].read = rows[r.id]]
     /\ UNCHANGED <<server, seen, dialog, moves>>

\* Mutant: the bookmark, then its neighbour.
LockOrderAsNamed(r) == <<r.id, r.other>>

\* The rows a move locks: in the order of their ids.
LockOrder(r) == IF r.id < r.other THEN <<r.id, r.other>> ELSE <<r.other, r.id>>

\* The moves that hold a row until they end.
Holders(i) ==
  {n \in Sent : IsMove(requests[n]) /\ requests[n].phase = "first" /\ LockOrder(requests[n])[1] = i}

\* A row that was deleted while the move waited is not locked: the move ends as not found.
LockFirst(n) ==
  LET r == requests[n]
      i == LockOrder(r)[1]
  IN /\ n \in Sent /\ IsMove(r) /\ r.phase = "read" /\ Holders(i) = {}
     /\ Phase(n, IF rows[i] = None THEN "error" ELSE "first")
     /\ UNCHANGED <<server, seen, dialog, moves>>

\* The places are swapped; equal ones are pulled apart.
Swapped(R, op, i, j) ==
  LET p == R[i].position
      q == R[j].position
  IN IF p # q THEN [R EXCEPT ![i].position = q, ![j].position = p]
     ELSE IF op = "up" THEN [R EXCEPT ![j].position = p + 1]
     ELSE [R EXCEPT ![i].position = q + 1]

Swap(n) ==
  LET r == requests[n]
      i == LockOrder(r)[2]
  IN /\ n \in Sent /\ IsMove(r) /\ r.phase = "first" /\ Holders(i) = {}
     /\ IF rows[i] = None
        THEN Phase(n, "error") /\ UNCHANGED rows
        ELSE Phase(n, "ok") /\ rows' = Swapped(rows, r.op, r.id, r.other)
     /\ UNCHANGED <<nextId, seen, dialog, moves>>

\* save() writes the whole row as it was read, or inserts it if it is gone; the
\* check of an edited name refuses one that is taken.
Save(n) ==
  LET r == requests[n]
      new == [r.read EXCEPT !.active = IF r.set.active = None THEN @ ELSE r.set.active,
                            !.archived = IF r.set.archived = None THEN @ ELSE r.set.archived]
  IN /\ n \in Sent /\ r.op \in {"edit", "visibility"} /\ r.phase = "read" /\ Holders(r.id) = {}
     /\ \/ r.op = "edit" /\ Phase(n, "error") /\ UNCHANGED rows
        \/ Phase(n, "ok") /\ rows' = [rows EXCEPT ![r.id] = new]
     /\ UNCHANGED <<nextId, seen, dialog, moves>>

Delete(n) ==
  LET r == requests[n]
  IN /\ n \in Sent /\ r.op = "delete" /\ r.phase = "read" /\ Holders(r.id) = {}
     /\ rows' = [rows EXCEPT ![r.id] = None]
     /\ Phase(n, "ok")
     /\ UNCHANGED <<nextId, seen, dialog, moves>>

Insert(n) ==
  LET r == requests[n]
  IN /\ n \in Sent /\ r.op = "create" /\ r.phase = "read" /\ nextId <= MaxId
     /\ \/ Phase(n, "error") /\ UNCHANGED rows
        \/ Phase(n, "ok") /\ rows' = [rows EXCEPT ![nextId] = r.read]
     /\ nextId' = nextId + 1
     /\ UNCHANGED <<seen, dialog, moves>>

-----------------------------------------------------------------------------
\* Bookmarks that were made one after the other, some of them archived since; one more
\* can be made.
Init ==
  /\ nextId = MaxId
  /\ \E archived \in SUBSET (1..(nextId - 1)) :
       rows = [i \in Ids |-> IF i >= nextId THEN None ELSE
                [position |-> i - 1, active |-> TRUE, archived |-> i \in archived]]
  /\ seen = None
  /\ dialog = None /\ requests = [n \in Moves |-> None] /\ moves = 0

Next ==
  \/ \E i \in Ids : setRowAction(i) \/ move("up", i) \/ move("down", i) \/ setVisible(i)
                      \/ archive(i) \/ restore(i) \/ setEditing(i) \/ setDeleting(i)
  \/ setBookmarking \/ handleSubmit \/ onConfirm \/ onClose \/ BookmarksArrive
  \/ \E n \in Moves : Read(n) \/ LockFirst(n) \/ Swap(n) \/ Save(n) \/ Delete(n) \/ Insert(n) \/ Answered(n)

Spec == Init /\ [][Next]_vars

-----------------------------------------------------------------------------
(* Properties.                                                             *)

TypeOK ==
  /\ rows \in Rows /\ nextId \in 1..(MaxId + 1)
  /\ seen \in Rows \cup {None}
  /\ dialog \in Dialog \cup {None}
  /\ requests \in [Moves -> Request \cup {None}] /\ moves \in 0..MaxMoves

\* "Concurrent moves over the same pair can never deadlock": of any moves that hold a
\* row, one waits for a row that none of them holds.
MovesNeverDeadlock ==
  \A S \in SUBSET {n \in Sent : IsMove(requests[n]) /\ requests[n].phase = "first"} :
    S # {} => \E n \in S : Holders(LockOrder(requests[n])[2]) \cap S = {}

\* services.py, move: "Swap the bookmark with its adjacent neighbor", up or down.
\* Does not hold: the neighbour is found before the rows are locked; two moves up of
\* one bookmark find the same neighbour, and the second takes the first one back.
MoveGoesItsWay ==
  \A n \in Sent :
    requests[n].op = "up" /\ requests[n].phase = "first" /\ requests'[n] # None /\ requests'[n].phase = "ok"
      => Before(rows', requests[n].id, requests[n].other)

\* api.py, delete_bookmark: "Delete a bookmark permanently".
\* Does not hold: a save that read the row before writes it again.
DeletedStays == \A i \in Ids : i < nextId /\ rows[i] = None => rows'[i] = None
=============================================================================
