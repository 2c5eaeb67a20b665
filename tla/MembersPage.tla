---------------------------- MODULE MembersPage ----------------------------
(***************************************************************************)
(* The members of a workspace and the pages their managers have open       *)
(* (src/frontend/src/pages/WorkspaceMembersPage.tsx, with usePermissions   *)
(* and WorkspaceContext; src/backend/workspaces/services.py and            *)
(* users/two_factor.py, with common/permissions.py).                       *)
(*                                                                         *)
(* A page knows the members, and through them the role of its user, as     *)
(* they were fetched last, and offers what usePermissions makes of that; a *)
(* dialog keeps the member it was opened for.  The server reads the role   *)
(* of the caller first and the member, mostly under a lock, after it; the  *)
(* rules it applies are written a second time there.                       *)
(*                                                                         *)
(* Passwords are not followed, nor are names and messages.                 *)
(***************************************************************************)
EXTENDS Naturals, FiniteSets

CONSTANTS
  Users,
  Creator,    \* of the workspace
  MaxMembers, \* WORKSPACE_MAX_MEMBERS
  MaxMoves,   \* of all the users, in a behaviour
  None

MembersPageAssumption ==
  /\ Creator \in Users
  /\ None \notin Users /\ None \notin {"owner", "admin", "member", "viewer"}
  /\ MaxMembers \in Nat /\ MaxMoves \in Nat

VARIABLES
  role,    \* server: the memberships
  twofa,   \* server: the users whose second factor is on
  seen,    \* each page: the list of members, or None
  stale,   \* the pages that fetch it (again)
  dialog,  \* each page: the sheet, modal or confirmation that is open
  requests,
  moves

server == <<role, twofa>>
vars == <<server, seen, stale, dialog, requests, moves>>

-----------------------------------------------------------------------------
ADMIN_ROLES == {"owner", "admin"}
ASSIGNABLE_ROLES == {"admin", "member", "viewer"}
Roles == {"owner"} \cup ASSIGNABLE_ROLES

Members == [Users -> Roles \cup {None}]

Ops == {"add", "role", "remove", "password", "2fa", "own"}
OnMember == {"role", "remove", "password", "2fa"}

\* What is open, for which member, with the roles of the user and of that member at
\* that time; and the role that is chosen in it.
Dialog == [kind : Ops \cup {"sheet"}, member : Users, was : Roles \cup {None}, my : Roles \cup {None},
           chosen : ASSIGNABLE_ROLES]

\* A request, with the role of the caller once it was read.
Request == [by : Users, op : Ops, member : Users, was : Roles \cup {None}, my : Roles \cup {None},
            chosen : ASSIGNABLE_ROLES, as : Roles \cup {None}, phase : {"sent", "read", "ok", "error"}]

-----------------------------------------------------------------------------
(* What a page offers its user u.                                          *)

userRole(u) == IF seen[u] = None THEN None ELSE seen[u][u]

canManageMembers(u) == userRole(u) \in ADMIN_ROLES

\* Mutant: everyone below the owner.
canEditBelowOwner(u, m, was) ==
  m # u /\ was \notin {"owner", None} /\ userRole(u) \in ADMIN_ROLES

\* Not oneself and not the owner; all others for the owner, and members and viewers
\* for an admin.
canEditMember(u, m, was) ==
  /\ m # u /\ was \notin {"owner", None}
  /\ \/ userRole(u) = "owner"
     \/ userRole(u) = "admin" /\ was \in {"member", "viewer"}

Move == moves < MaxMoves /\ moves' = moves + 1

\* Of a modal, a button that waits for its answer is disabled.
Busy(u, op) == \E r \in requests : r.by = u /\ r.op = op

Opened(u, kind, m, was) ==
  dialog' = [dialog EXCEPT ![u] = [kind |-> kind, member |-> m, was |-> was, my |-> userRole(u), chosen |-> "member"]]

\* Mobile: the sheet of a member's card.
setActionMember(u, m) ==
  /\ Move
  /\ dialog[u] = None /\ seen[u] # None /\ canEditMember(u, m, seen[u][m])
  /\ Opened(u, "sheet", m, seen[u][m])
  /\ UNCHANGED <<server, seen, stale, requests>>

\* An action of a row, or of the sheet.
open(u, op, m) ==
  /\ Move
  /\ seen[u] # None
  /\ LET was == IF dialog[u] = None THEN seen[u][m] ELSE dialog[u].was
     IN /\ dialog[u] # None => dialog[u].kind = "sheet" /\ dialog[u].member = m
        /\ canEditMember(u, m, was)
        /\ Opened(u, op, m, was)
  /\ UNCHANGED <<server, seen, stale, requests>>

setIsAddModalOpen(u) ==
  /\ Move
  /\ dialog[u] = None /\ canManageMembers(u)
  /\ Opened(u, "add", u, None)
  /\ UNCHANGED <<server, seen, stale, requests>>

setIsChangeMyPasswordModalOpen(u) ==
  /\ Move
  /\ dialog[u] = None /\ seen[u] # None
  /\ Opened(u, "own", u, None)
  /\ UNCHANGED <<server, seen, stale, requests>>

setRole(u, r) ==
  /\ Move
  /\ dialog[u] # None /\ dialog[u].kind \in {"add", "role"}
  /\ dialog' = [dialog EXCEPT ![u].chosen = r]
  /\ UNCHANGED <<server, seen, stale, requests>>

close(u) ==
  /\ Move
  /\ dialog[u] # None
  /\ dialog' = [dialog EXCEPT ![u] = None]
  /\ UNCHANGED <<server, seen, stale, requests>>

\* The button of the modal or confirmation; m is the member, of whom an addition states
\* the address.  A role is not changed to itself.
submit(u, m) ==
  /\ Move
  /\ dialog[u] # None /\ dialog[u].kind \in Ops /\ ~Busy(u, dialog[u].kind)
  /\ dialog[u].kind # "add" => m = dialog[u].member
  /\ dialog[u].kind = "role" => dialog[u].chosen # dialog[u].was
  /\ requests' = requests \cup
       {[by |-> u, op |-> dialog[u].kind, member |-> m, was |-> dialog[u].was, my |-> dialog[u].my,
         chosen |-> dialog[u].chosen, as |-> None, phase |-> "sent"]}
  /\ UNCHANGED <<server, seen, stale, dialog>>

-----------------------------------------------------------------------------
(* The server.                                                             *)

Phase(r, p, as) == requests' = (requests \ {r}) \cup {[r EXCEPT !.phase = p, !.as = as]}

\* require_role.  One's own password is one's own matter.
require_role(r) ==
  /\ r.phase = "sent"
  /\ Phase(r, IF r.op = "own" \/ role[r.by] \in ADMIN_ROLES THEN "read" ELSE "error", role[r.by])
  /\ UNCHANGED <<server, seen, stale, dialog, moves>>

\* What the services refuse of a member, to a caller of the role as.
Protected(r, as) ==
  \/ role[r.member] \in {"owner", None} \/ r.member = r.by
  \/ as = "admin" /\ role[r.member] = "admin"

Full == Cardinality({u \in Users : role[u] # None}) >= MaxMembers

Refuses(r, as) ==
  CASE r.op = "add" -> Full \/ role[r.member] # None
    [] r.op = "own" -> FALSE
    [] r.op = "2fa" -> Protected(r, as) \/ r.member \notin twofa
    [] OTHER -> Protected(r, as)

Serve(r) ==
  /\ r.phase = "read"
  /\ IF Refuses(r, r.as)
     THEN Phase(r, "error", r.as) /\ UNCHANGED server
     ELSE /\ Phase(r, "ok", r.as)
          /\ role' = IF r.op \in {"add", "role"} THEN [role EXCEPT ![r.member] = r.chosen]
                     ELSE IF r.op = "remove" THEN [role EXCEPT ![r.member] = None] ELSE role
          /\ twofa' = IF r.op = "2fa" THEN twofa \ {r.member} ELSE twofa
  /\ UNCHANGED <<seen, stale, dialog, moves>>

\* Anyone but the owner may leave, through the API.
leave(u) ==
  /\ Move
  /\ role[u] \notin {"owner", None}
  /\ role' = [role EXCEPT ![u] = None]
  /\ UNCHANGED <<twofa, seen, stale, dialog, requests>>

\* The request or its answer is lost.
Fail(r) ==
  /\ r.phase # "error"
  /\ Phase(r, "error", r.as)
  /\ UNCHANGED <<server, seen, stale, dialog, moves>>

-----------------------------------------------------------------------------
(* The answers, and the list.                                              *)

\* A success closes what is open of its kind and fetches the list again, but for a
\* password; a failure closes the confirmations only.
Settle(r) ==
  /\ r.phase \in {"ok", "error"}
  /\ requests' = requests \ {r}
  /\ dialog' = IF dialog[r.by] # None /\ dialog[r.by].kind = r.op /\ (r.phase = "ok" \/ r.op \in {"remove", "2fa"})
               THEN [dialog EXCEPT ![r.by] = None] ELSE dialog
  /\ stale' = IF r.phase = "ok" /\ r.op \notin {"password", "own"} THEN stale \cup {r.by} ELSE stale
  /\ UNCHANGED <<server, seen, moves>>

\* Who is not a member is told so, and sees what was there before.
FetchMembers(u) ==
  /\ u \in stale
  /\ stale' = stale \ {u}
  /\ seen' = IF role[u] = None THEN seen ELSE [seen EXCEPT ![u] = role]
  /\ UNCHANGED <<server, dialog, requests, moves>>

-----------------------------------------------------------------------------
Init ==
  /\ role \in {f \in Members : \A u \in Users : f[u] = "owner" <=> u = Creator}
  /\ twofa = Users
  /\ seen = [u \in Users |-> IF role[u] = None THEN None ELSE role] /\ stale = {}
  /\ dialog = [u \in Users |-> None]
  /\ requests = {} /\ moves = 0

Next ==
  \/ \E u, m \in Users : setActionMember(u, m) \/ submit(u, m) \/ \E op \in OnMember : open(u, op, m)
  \/ \E u \in Users :
       \/ setIsAddModalOpen(u) \/ setIsChangeMyPasswordModalOpen(u) \/ close(u) \/ leave(u) \/ FetchMembers(u)
       \/ \E r \in ASSIGNABLE_ROLES : setRole(u, r)
  \/ \E r \in requests : require_role(r) \/ Serve(r) \/ Fail(r) \/ Settle(r)

Spec == Init /\ [][Next]_vars

-----------------------------------------------------------------------------
(* Properties.                                                             *)

TypeOK ==
  /\ role \in Members /\ twofa \subseteq Users /\ stale \subseteq Users
  /\ seen \in [Users -> Members \cup {None}]
  /\ dialog \in [Users -> Dialog \cup {None}]
  /\ requests \subseteq Request /\ moves \in 0..MaxMoves

\* The rules written on both sides agree: what a page offered on a member is not refused
\* while the member and the user have the roles the page showed.
OfferedIsGranted ==
  \A r \in requests :
    r.phase = "sent" /\ r.op \in {"role", "remove", "password"} /\ r.was = role[r.member] /\ r.my = role[r.by]
      => role[r.by] \in ADMIN_ROLES /\ ~Refuses(r, role[r.by])
=============================================================================
