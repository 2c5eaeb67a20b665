---------------------------- MODULE Pages_proofs ----------------------------
(***************************************************************************)
(* Theorems of Pages, for every value of the constants. PagesInv says of   *)
(* the page that is followed what its steps rely on; each page keeps its   *)
(* own part of it, for the others do not move. First come the pages that   *)
(* are forms (members, the transaction form, its items, transfers, default *)
(* views, the entry pages), then the select, the planned page, bookmarks,  *)
(* the page of a budget and the lists. Every lemma about a page is about   *)
(* its instance in Pages.                                                  *)
(***************************************************************************)
EXTENDS Pages, Sequences, FiniteSetTheorems, WellFoundedInduction, TLAPS

-----------------------------------------------------------------------------
(* Numbers.                                                                *)

\* A set of numbers that is not empty has a least one.
LEMMA LeastNumber ==
  ASSUME NEW S \in SUBSET Nat, S # {}
  PROVE  \E x \in S : \A y \in S : x <= y
  <1> DEFINE R == {p \in Nat \X Nat : p[1] < p[2]}
  <1>1. IsWellFoundedOn(R, Nat)
    BY NatLessThanWellFounded DEF OpToRel
  <1>2. PICK x \in S : \A y \in S : <<y, x>> \notin R
    <2> HIDE DEF R
    <2> QED
      BY <1>1, WFMin
  <1>3. ASSUME NEW y \in S
        PROVE  x <= y
    <2>1. <<y, x>> \in Nat \X Nat
      OBVIOUS
    <2>2. ~(y < x)
      BY <1>2, <2>1
    <2> QED
      BY <2>2
  <1> QED
    BY <1>3

\* A smallest set without a greatest number would have one.
LEMMA GreatestNumber ==
  ASSUME NEW S \in SUBSET Nat, S # {}, IsFiniteSet(S)
  PROVE  \E x \in S : \A y \in S : y <= x
  <1> DEFINE Greatest(x, T) == x \in T /\ \A y \in T : y <= x
             Bad == {T \in SUBSET S : T # {} /\ ~\E x \in S : Greatest(x, T)}
  <1>1. SUFFICES Bad = {}
    <2>1. S \notin Bad
      BY <1>1
    <2> QED
      BY <2>1
  <1>2. SUFFICES ASSUME Bad # {} PROVE FALSE
    OBVIOUS
  <1>3. PICK T \in Bad : \A U \in Bad : <<U, T>> \notin StrictSubsetOrdering(S)
    <2> HIDE DEF Bad
    <2>1. Bad \subseteq FiniteSubsetsOf(S)
      BY FS_FiniteSubsetsOfFinite DEF Bad
    <2> QED
      BY <1>2, <2>1, FS_StrictSubsetOrderingWellFounded, WFMin
  <1>4. PICK x \in T : TRUE
    OBVIOUS
  <1>5. T \ {x} # {}
    <2> SUFFICES ASSUME T = {x} PROVE FALSE
      BY <1>4
    <2> QED
      BY DEF Greatest
  <1>6. T \ {x} \notin Bad
    <2>1. <<T \ {x}, T>> \in StrictSubsetOrdering(S)
      BY <1>4 DEF StrictSubsetOrdering
    <2> QED
      BY <1>3, <2>1
  <1>7. PICK m \in S : Greatest(m, T \ {x})
    BY <1>5, <1>6
  <1>8. Greatest(m, T) \/ Greatest(x, T)
    BY <1>4, <1>7
  <1> QED
    BY <1>4, <1>8

-----------------------------------------------------------------------------
(***************************************************************************)
(* The members page (MembersPage).                                         *)
(***************************************************************************)

\* What was offered was offered by a rule that looks at three things only, and all
\* three are kept with it.
MembersOffered(by, m, was, my) ==
  /\ m # by /\ was \notin {"owner", None}
  /\ my = "owner" \/ (my = "admin" /\ was \in {"member", "viewer"})

MembersDialogsOffered ==
  \A u \in Users : membersDialog[u] # None
    /\ membersDialog[u].kind \in Members!OnMember \cup {"sheet"} =>
    MembersOffered(u, membersDialog[u].member, membersDialog[u].was, membersDialog[u].my)

MembersRequestsOffered ==
  \A r \in membersRequests : r.op \in Members!OnMember => MembersOffered(r.by, r.member, r.was, r.my)

\* The workspace has one owner, who created it.
MembersCreatorOwns == \A u \in Users : membersRole[u] = "owner" <=> u = Creator

MembersInv == Members!TypeOK /\ MembersDialogsOffered /\ MembersRequestsOffered /\ MembersCreatorOwns

-----------------------------------------------------------------------------
\* The invariant of the members page holds at the start.
LEMMA MembersInitInv ==
  ASSUME Members!MembersPageAssumption, Members!Init
  PROVE  MembersInv
  <1>1. membersRole \in Members!Members /\ MembersCreatorOwns
    BY DEF Members!Init, MembersCreatorOwns
  <1>2. Members!TypeOK
    BY <1>1, SMT DEF Members!Init, Members!TypeOK, Members!MembersPageAssumption
  <1> QED
    BY <1>1, <1>2 DEF Members!Init, MembersInv, MembersDialogsOffered, MembersRequestsOffered

\* A page knows the role of every user, or nothing.
LEMMA MembersPageRoles ==
  ASSUME Members!TypeOK, NEW u \in Users
  PROVE  /\ Members!userRole(u) \in Members!Roles \cup {None}
         /\ membersSeen[u] # None => \A m \in Users : membersSeen[u][m] \in Members!Roles \cup {None}
  BY DEF Members!TypeOK, Members!userRole, Members!Members

\* A step of a page that changes its dialog only.
LEMMA MembersDialogKeepsInv ==
  ASSUME Members!MembersPageAssumption, MembersInv, NEW u \in Users,
         NEW d \in Members!Dialog \cup {None},
         d # None
         /\ d.kind \in Members!OnMember \cup {"sheet"} => MembersOffered(u, d.member, d.was, d.my),
         membersDialog' = [membersDialog EXCEPT ![u] = d],
         Members!Move, UNCHANGED <<Members!server, membersSeen, membersStale, membersRequests>>
  PROVE  MembersInv'
  <1>1. membersDialog' \in [Users -> Members!Dialog \cup {None}]
        /\ \A v \in Users : membersDialog'[v] = IF v = u THEN d ELSE membersDialog[v]
    BY DEF MembersInv, Members!TypeOK
  <1>2. membersMoves' \in 0..MaxMoves
    BY DEF MembersInv, Members!TypeOK, Members!Move, Members!MembersPageAssumption
  <1>3. Members!TypeOK'
    BY <1>1, <1>2 DEF MembersInv, Members!TypeOK, Members!server
  <1>4. MembersDialogsOffered'
    BY <1>1 DEF MembersInv, MembersDialogsOffered
  <1>5. MembersRequestsOffered' /\ MembersCreatorOwns'
    BY DEF MembersInv, MembersRequestsOffered, MembersCreatorOwns, Members!server
  <1> QED
    BY <1>3, <1>4, <1>5 DEF MembersInv

\* What is opened on a member was offered on that member.
LEMMA MembersOpeningKeepsInv ==
  ASSUME Members!MembersPageAssumption, MembersInv, NEW u \in Users,
         NEW kind \in Members!Ops \cup {"sheet"},
         NEW m \in Users, NEW was \in Members!Roles \cup {None},
         kind \in Members!OnMember \cup {"sheet"} => Members!canEditMember(u, m, was),
         Members!Opened(u, kind, m, was), Members!Move, UNCHANGED <<Members!server, membersSeen,
                                                                    membersStale, membersRequests>>
  PROVE  MembersInv'
  <1> DEFINE d == [kind |-> kind, member |-> m, was |-> was, my |-> Members!userRole(u), chosen |-> "member"]
  <1>1. d \in Members!Dialog
    BY MembersPageRoles DEF MembersInv, Members!Dialog, Members!ASSIGNABLE_ROLES
  <1>2. kind \in Members!OnMember \cup {"sheet"} => MembersOffered(u, m, was, Members!userRole(u))
    BY DEF Members!canEditMember, MembersOffered
  <1>3. membersDialog' = [membersDialog EXCEPT ![u] = d]
    BY DEF Members!Opened
  <1>4. d.kind = kind /\ d.member = m /\ d.was = was /\ d.my = Members!userRole(u)
    OBVIOUS
  <1> HIDE DEF d
  <1> QED
    BY <1>1, <1>2, <1>3, <1>4, MembersDialogKeepsInv

\* The steps of a page that ask nothing of the server.
LEMMA MembersPageStepsKeepInv ==
  ASSUME Members!MembersPageAssumption, MembersInv, NEW u \in Users,
         \/ \E m \in Users : Members!setActionMember(u, m)
              \/ \E op \in Members!OnMember : Members!open(u, op, m)
         \/ Members!setIsAddModalOpen(u) \/ Members!setIsChangeMyPasswordModalOpen(u)
              \/ Members!close(u)
         \/ \E r \in Members!ASSIGNABLE_ROLES : Members!setRole(u, r)
  PROVE  MembersInv'
  <1>0. Members!TypeOK /\ membersDialog \in [Users -> Members!Dialog \cup {None}]
    BY DEF MembersInv, Members!TypeOK
  <1>1. ASSUME NEW m \in Users, Members!setActionMember(u, m)
        PROVE  MembersInv'
    BY <1>0, <1>1, MembersOpeningKeepsInv, MembersPageRoles DEF Members!setActionMember
  <1>2. ASSUME NEW m \in Users, NEW op \in Members!OnMember, Members!open(u, op, m)
        PROVE  MembersInv'
    <2> DEFINE was == IF membersDialog[u] = None THEN membersSeen[u][m] ELSE membersDialog[u].was
    <2>1. was \in Members!Roles \cup {None}
      BY <1>0, <1>2, MembersPageRoles DEF Members!open, Members!Dialog
    <2>2. Members!canEditMember(u, m, was) /\ Members!Opened(u, op, m, was)
      BY <1>2 DEF Members!open
    <2>3. op \in Members!Ops
      BY DEF Members!OnMember, Members!Ops
    <2> HIDE DEF was
    <2> QED
      BY <1>2, <2>1, <2>2, <2>3, MembersOpeningKeepsInv DEF Members!open
  <1>3. CASE Members!setIsAddModalOpen(u)
    BY <1>3, MembersOpeningKeepsInv DEF Members!setIsAddModalOpen, Members!Ops, Members!OnMember
  <1>4. CASE Members!setIsChangeMyPasswordModalOpen(u)
    BY <1>4, MembersOpeningKeepsInv DEF Members!setIsChangeMyPasswordModalOpen, Members!Ops,
      Members!OnMember
  <1>5. CASE Members!close(u)
    BY <1>5, MembersDialogKeepsInv DEF Members!close
  <1>6. ASSUME NEW r \in Members!ASSIGNABLE_ROLES, Members!setRole(u, r)
        PROVE  MembersInv'
    <2> DEFINE d == [membersDialog[u] EXCEPT !.chosen = r]
    <2>1. membersDialog[u] \in Members!Dialog
      BY <1>0, <1>6 DEF Members!setRole
    <2>2. d \in Members!Dialog /\ d.kind = membersDialog[u].kind
          /\ d.member = membersDialog[u].member
          /\ d.was = membersDialog[u].was /\ d.my = membersDialog[u].my
      BY <2>1 DEF Members!Dialog
    <2>3. membersDialog' = [membersDialog EXCEPT ![u] = d]
      BY <1>0, <1>6 DEF Members!setRole
    <2>4. d.kind \in Members!OnMember \cup {"sheet"} => MembersOffered(u, d.member, d.was, d.my)
      BY <1>6, <2>2 DEF MembersInv, MembersDialogsOffered, Members!setRole
    <2> HIDE DEF d
    <2> QED
      BY <1>6, <2>2, <2>3, <2>4, MembersDialogKeepsInv DEF Members!setRole
  <1> QED
    BY <1>1, <1>2, <1>3, <1>4, <1>5, <1>6

\* A request keeps what its dialog was offered for.
LEMMA MembersSubmitKeepsInv ==
  ASSUME Members!MembersPageAssumption, MembersInv, NEW u \in Users, NEW m \in Users,
         Members!submit(u, m)
  PROVE  MembersInv'
  <1> DEFINE r == [by |-> u, op |-> membersDialog[u].kind, member |-> m, was |-> membersDialog[u].was, my |-> membersDialog[u].my,
                   chosen |-> membersDialog[u].chosen, as |-> None, phase |-> "sent"]
  <1>1. membersDialog[u] \in Members!Dialog /\ membersDialog[u] # None
    BY DEF MembersInv, Members!TypeOK, Members!submit
  <1>2. r \in Members!Request
    BY <1>1 DEF Members!Request, Members!Dialog, Members!submit
  <1>3. r.op \in Members!OnMember => MembersOffered(r.by, r.member, r.was, r.my)
    BY <1>1 DEF MembersInv, MembersDialogsOffered, Members!submit, Members!OnMember
  <1>4. membersRequests' = membersRequests \cup {r} /\ UNCHANGED <<Members!server, membersSeen,
                                                                   membersStale, membersDialog>>
    BY DEF Members!submit
  <1> HIDE DEF r
  <1>5. membersMoves' \in 0..MaxMoves
    BY DEF MembersInv, Members!TypeOK, Members!submit, Members!Move, Members!MembersPageAssumption
  <1>6. Members!TypeOK'
    BY <1>2, <1>4, <1>5 DEF MembersInv, Members!TypeOK, Members!server
  <1>7. MembersRequestsOffered'
    BY <1>3, <1>4 DEF MembersInv, MembersRequestsOffered
  <1>8. MembersDialogsOffered' /\ MembersCreatorOwns'
    BY <1>4 DEF MembersInv, MembersDialogsOffered, MembersCreatorOwns, Members!server
  <1> QED
    BY <1>6, <1>7, <1>8 DEF MembersInv

\* The progress of a request.
LEMMA MembersPhaseKeepsRequests ==
  ASSUME MembersInv, NEW r \in membersRequests, NEW p \in {"sent", "read", "ok", "error"},
         NEW as \in Members!Roles \cup {None}, Members!Phase(r, p, as)
  PROVE  membersRequests' \subseteq Members!Request /\ MembersRequestsOffered'
  <1> DEFINE q == [r EXCEPT !.phase = p, !.as = as]
  <1>1. r \in Members!Request
    BY DEF MembersInv, Members!TypeOK
  <1>2. q \in Members!Request /\ q.op = r.op /\ q.by = r.by /\ q.member = r.member
        /\ q.was = r.was /\ q.my = r.my
    BY <1>1 DEF Members!Request
  <1>3. membersRequests' = (membersRequests \ {r}) \cup {q}
    BY DEF Members!Phase
  <1> HIDE DEF q
  <1> QED
    BY <1>2, <1>3 DEF MembersInv, Members!TypeOK, MembersRequestsOffered

\* The server gives no one the role of the owner, and takes it from no one.
LEMMA MembersServeKeepsOwner ==
  ASSUME Members!MembersPageAssumption, MembersInv, NEW r \in membersRequests, Members!Serve(r)
  PROVE  membersRole' \in Members!Members /\ membersTwofa' \subseteq Users /\ MembersCreatorOwns'
  <1>1. /\ membersRole \in [Users -> Members!Roles \cup {None}] /\ membersTwofa \subseteq Users
        /\ r.member \in Users /\ r.chosen \in Members!ASSIGNABLE_ROLES
    BY DEF MembersInv, Members!TypeOK, Members!Members, Members!Request
  <1>2. CASE UNCHANGED Members!server
    BY <1>1, <1>2 DEF MembersInv, MembersCreatorOwns, Members!server, Members!Members
  <1>3. CASE ~Members!Refuses(r, r.as)
    <2>1. r.op \in {"add", "role", "remove"} => membersRole[r.member] # "owner"
      BY <1>3 DEF Members!Refuses, Members!Protected, Members!MembersPageAssumption
    <2>2. PICK new \in Members!ASSIGNABLE_ROLES \cup {None} :
            \/ membersRole' = membersRole
            \/ r.op \in {"add", "role", "remove"}
                 /\ membersRole' = [membersRole EXCEPT ![r.member] = new]
      BY <1>1, <1>3 DEF Members!Serve
    <2>3. membersTwofa' \subseteq Users
      BY <1>1, <1>3 DEF Members!Serve
    <2>4. new \in Members!Roles \cup {None} /\ new # "owner"
      BY DEF Members!ASSIGNABLE_ROLES, Members!Roles, Members!MembersPageAssumption
    <2> QED
      BY <1>1, <2>1, <2>2, <2>3, <2>4 DEF MembersInv, MembersCreatorOwns, Members!Members
  <1> QED
    BY <1>2, <1>3 DEF Members!Serve

\* The steps of a request.
LEMMA MembersRequestStepsKeepInv ==
  ASSUME Members!MembersPageAssumption, MembersInv, NEW r \in membersRequests,
         Members!require_role(r) \/ Members!Serve(r) \/ Members!Fail(r) \/ Members!Settle(r)
  PROVE  MembersInv'
  <1>0. /\ membersRole \in [Users -> Members!Roles \cup {None}] /\ r \in Members!Request
        /\ r.by \in Users /\ r.as \in Members!Roles \cup {None}
    BY DEF MembersInv, Members!TypeOK, Members!Members, Members!Request
  <1>1. CASE Members!require_role(r) \/ Members!Serve(r) \/ Members!Fail(r)
    <2>1. PICK p \in {"sent", "read", "ok", "error"}, as \in Members!Roles \cup {None} : Members!Phase(r, p, as)
      BY <1>0, <1>1 DEF Members!require_role, Members!Serve, Members!Fail
    <2>2. membersRequests' \subseteq Members!Request /\ MembersRequestsOffered'
      BY <2>1, MembersPhaseKeepsRequests
    <2>3. membersRole' \in Members!Members /\ membersTwofa' \subseteq Users /\ MembersCreatorOwns'
      <3>1. CASE Members!Serve(r)
        BY <3>1, MembersServeKeepsOwner
      <3>2. CASE UNCHANGED Members!server
        BY <3>2 DEF MembersInv, Members!TypeOK, MembersCreatorOwns, Members!server
      <3> QED
        BY <1>1, <3>1, <3>2 DEF Members!require_role, Members!Fail
    <2>4. UNCHANGED <<membersSeen, membersStale, membersDialog, membersMoves>>
      BY <1>1 DEF Members!require_role, Members!Serve, Members!Fail
    <2> QED
      BY <2>2, <2>3, <2>4 DEF MembersInv, Members!TypeOK, MembersDialogsOffered
  <1>2. CASE Members!Settle(r)
    <2>1. \A u \in Users : membersDialog'[u] = None \/ membersDialog'[u] = membersDialog[u]
      BY <1>0, <1>2 DEF Members!Settle, MembersInv, Members!TypeOK
    <2>2. membersDialog' \in [Users -> Members!Dialog \cup {None}]
      BY <1>0, <1>2 DEF Members!Settle, MembersInv, Members!TypeOK
    <2>3. membersRequests' \subseteq membersRequests /\ membersStale' \subseteq Users
          /\ UNCHANGED <<Members!server, membersSeen, membersMoves>>
      BY <1>0, <1>2 DEF Members!Settle, MembersInv, Members!TypeOK
    <2>4. Members!TypeOK'
      BY <2>2, <2>3 DEF MembersInv, Members!TypeOK, Members!server
    <2> QED
      BY <2>1, <2>3, <2>4 DEF MembersInv, MembersDialogsOffered, MembersRequestsOffered,
        MembersCreatorOwns, Members!server
  <1> QED
    BY <1>1, <1>2

\* Every step keeps the invariant of the members page.
LEMMA MembersNextKeepsInv ==
  ASSUME Members!MembersPageAssumption, MembersInv, Members!Next \/ UNCHANGED Members!vars
  PROVE  MembersInv'
  <1>1. CASE UNCHANGED Members!vars
    BY <1>1 DEF Members!vars, Members!server, MembersInv, Members!TypeOK, MembersDialogsOffered,
      MembersRequestsOffered, MembersCreatorOwns
  <1>2. ASSUME NEW u \in Users, Members!leave(u)
        PROVE  MembersInv'
    <2>1. membersRole \in [Users -> Members!Roles \cup {None}] /\ membersRole[u] # "owner"
          /\ membersRole' = [membersRole EXCEPT ![u] = None]
      BY <1>2 DEF MembersInv, Members!TypeOK, Members!Members, Members!leave
    <2>2. membersRole' \in Members!Members
      BY <2>1 DEF Members!Members
    <2>3. membersMoves' \in 0..MaxMoves
      BY <1>2 DEF MembersInv, Members!TypeOK, Members!leave, Members!Move,
        Members!MembersPageAssumption
    <2>4. Members!TypeOK'
      BY <1>2, <2>2, <2>3 DEF MembersInv, Members!TypeOK, Members!leave
    <2>5. MembersCreatorOwns'
      BY <2>1 DEF MembersInv, MembersCreatorOwns, Members!MembersPageAssumption
    <2> QED
      BY <1>2, <2>4, <2>5 DEF MembersInv, MembersDialogsOffered, MembersRequestsOffered,
        Members!leave
  <1>3. ASSUME NEW u \in Users, Members!FetchMembers(u)
        PROVE  MembersInv'
    <2>1. membersSeen' \in [Users -> Members!Members \cup {None}] /\ membersStale' \subseteq Users
      BY <1>3 DEF MembersInv, Members!TypeOK, Members!FetchMembers
    <2>2. Members!TypeOK'
      BY <1>3, <2>1 DEF MembersInv, Members!TypeOK, Members!FetchMembers, Members!server
    <2> QED
      BY <1>3, <2>2 DEF MembersInv, MembersDialogsOffered, MembersRequestsOffered,
        MembersCreatorOwns, Members!FetchMembers, Members!server
  <1>4. CASE Members!Next
    BY <1>2, <1>3, <1>4, MembersPageStepsKeepInv, MembersSubmitKeepsInv,
      MembersRequestStepsKeepInv DEF Members!Next
  <1> QED
    BY <1>1, <1>4

\* The rules of the page and of the server agree.
LEMMA MembersPermitted ==
  ASSUME MembersInv
  PROVE  Members!OfferedIsGranted
  <1> SUFFICES ASSUME NEW r \in membersRequests, r.op \in {"role", "remove", "password"},
                      r.was = membersRole[r.member], r.my = membersRole[r.by]
               PROVE  membersRole[r.by] \in Members!ADMIN_ROLES
                      /\ ~Members!Refuses(r, membersRole[r.by])
    BY DEF Members!OfferedIsGranted
  <1>1. MembersOffered(r.by, r.member, r.was, r.my)
    BY DEF MembersInv, MembersRequestsOffered, Members!OnMember
  <1>2. membersRole[r.by] \in Members!ADMIN_ROLES
    BY <1>1 DEF MembersOffered, Members!ADMIN_ROLES
  <1>3. ~Members!Protected(r, membersRole[r.by])
    BY <1>1 DEF MembersOffered, Members!Protected
  <1>4. Members!Refuses(r, membersRole[r.by]) <=> Members!Protected(r, membersRole[r.by])
    BY DEF Members!Refuses
  <1> QED
    BY <1>2, <1>3, <1>4

\* A step while this page is followed is a step of the page, or leaves it alone.
LEMMA MembersFrame ==
  ASSUME page = "members", Next \/ UNCHANGED vars
  PROVE  page' = "members" /\ (Members!Next \/ UNCHANGED Members!vars)
  BY DEF Next, vars, EntryNext, ItemsNext, BoardNext, RowsNext, TransfersNext,
    MembersNext, FormNext, ListsNext, PanelNext, MarksNext, DefaultsNext, membersVars,
    Members!vars, Members!server

-----------------------------------------------------------------------------
(***************************************************************************)
(* The transaction form (TransactionForm).                                 *)
(***************************************************************************)

\* The form, the save and every create that was given up hold the key of their session.
FormHolds(s, k) ==
  \/ formOpen /\ formForm.mode # "edit" /\ s = formForm.session /\ k = formForm.key
  \/ formSave.state = "create" /\ s = formSave.session /\ k = formSave.key
  \/ \E w \in formLate : s = w.session /\ k = w.key

\* The number of elements the module TransactionForm counts is the usual one.
LEMMA FormCounting == \A S : Form!Cardinality(S) = Cardinality(S)
  BY DEF Form!Cardinality, Cardinality

\* They hold one, the same: a session that starts mints it.
FormOneKey ==
  \A s \in Form!Sessions, k \in Form!Keys \cup {None} : FormHolds(s, k) =>
    /\ s <= formForm.session /\ k \in Form!Keys
    /\ \A l \in Form!Keys \cup {None} : FormHolds(s, l) => l = k

\* What is booked is kept under that key.
FormBookedKept ==
  \A s \in Form!Sessions : formBooked[s] # 0 =>
    /\ s <= formForm.session /\ formBooked[s] = 1
    /\ \A k \in Form!Keys \cup {None} : FormHolds(s, k) => k \in formKept

\* A form that is closed has no receipt to fill in.
FormNothingLeft == ~formOpen => formPrefill = None

FormInv == Form!TypeOK /\ FormOneKey /\ FormBookedKept /\ FormNothingLeft

-----------------------------------------------------------------------------
(* The fields.                                                             *)

\* The accounts a form picks by itself are known ones.
LEMMA FormPicked ==
  ASSUME Form!TransactionFormAssumption, NEW known \in SUBSET FormAccounts
  PROVE  /\ Form!OnlyAccount(known) \in known \cup {None}
         /\ Form!Cardinality(known) = 1 => Form!OnlyAccount(known) \in known
         /\ \A c : Form!pickAccountForCurrency(known, c) \in known \cup {None}
         /\ Form!Primary \in Currencies
  <1>1. Form!Cardinality(known) = 1 => known # {}
    BY FormCounting, FS_EmptySet
  <1>2. Form!OnlyAccount(known) \in known \cup {None}
        /\ (Form!Cardinality(known) = 1 => Form!OnlyAccount(known) \in known)
    <2>1. known # {} => (CHOOSE a \in known : TRUE) \in known
      OBVIOUS
    <2>2. Form!OnlyAccount(known) = IF Form!Cardinality(known) =
            1 THEN CHOOSE a \in known : TRUE ELSE None
      BY DEF Form!OnlyAccount
    <2> QED
      BY <1>1, <2>1, <2>2
  <1>3. \A c : Form!pickAccountForCurrency(known, c) \in known \cup {None}
    <2> TAKE c
    <2> DEFINE M == {a \in known : CurrencyOf[a] = c}
    <2>1. M # {} => (CHOOSE a \in M : TRUE) \in M
      OBVIOUS
    <2> QED
      BY <2>1 DEF Form!pickAccountForCurrency
  <1>4. Form!Primary \in Currencies
    BY DEF Form!Primary, Form!TransactionFormAssumption
  <1> QED
    BY <1>2, <1>3, <1>4

\* A form that opens for a new transaction.
LEMMA FormFreshTyped ==
  ASSUME Form!TransactionFormAssumption, Form!TypeOK, NEW s \in Form!Sessions, NEW k \in Form!Keys
  PROVE  /\ Form!Fresh(s, k) \in Form!Form /\ Form!Fresh(s, k).session = s
         /\ Form!Fresh(s, k).mode = "create"
         /\ Form!Fresh(s, k).key = k /\ Form!Fresh(s, k).receipt = None
  <1> DEFINE a == Form!OnlyAccount(formAccounts)
             c == IF a # None THEN CurrencyOf[a] ELSE Form!Primary
  <1>1. a \in FormAccounts \cup {None} /\ Form!Primary \in Currencies
    BY FormPicked DEF Form!TypeOK
  <1>2. c \in Currencies
    BY <1>1 DEF Form!TransactionFormAssumption
  <1>3. Form!Fresh(s, k) =
          [session |-> s, mode |-> "create", key |-> k, type |-> "expense", account |-> a,
                       currency |-> c, receipt |-> None, misread |-> FALSE]
    BY DEF Form!Fresh
  <1> HIDE DEF a, c
  <1> QED
    BY <1>1, <1>2, <1>3 DEF Form!Form, Form!Types, Form!Modes

\* A form that shows a transaction.
LEMMA FormShowsTyped ==
  ASSUME NEW s \in Form!Sessions, NEW t \in Form!Transaction, NEW k \in Form!Keys \cup {None},
         NEW mode \in {"edit", "copy"}
  PROVE  /\ Form!Shows(s, mode, t, k) \in Form!Form /\ Form!Shows(s, mode, t, k).session = s
         /\ Form!Shows(s, mode, t, k).mode = mode
         /\ Form!Shows(s, mode, t, k).key = (IF mode = "edit" THEN None ELSE k)
         /\ Form!Shows(s, mode, t, k).receipt = None
  BY DEF Form!Shows, Form!Transaction, Form!Form, Form!Types, Form!Modes

\* A form that a receipt filled keeps its session, mode and key.
LEMMA FormFilledTyped ==
  ASSUME Form!TransactionFormAssumption, Form!TypeOK, NEW f \in Form!Form, NEW r \in Receipts,
         NEW c \in Currencies \cup {None}, NEW a, NEW stray \in BOOLEAN
  PROVE  /\ Form!Filled(f, r, c, a, stray) \in Form!Form
         /\ Form!Filled(f, r, c, a, stray).session = f.session
         /\ Form!Filled(f, r, c, a, stray).mode = f.mode
         /\ Form!Filled(f, r, c, a, stray).key = f.key
         /\ Form!Filled(f, r, c, a, stray).receipt = r
  <1> DEFINE pick == Form!pickAccountForCurrency(formAccounts, c)
             holds == a \in formAccounts /\ CurrencyOf[a] = c
             cur == IF c # None THEN c ELSE f.currency
             acc == IF pick # None /\ ~holds THEN pick ELSE f.account
             mis == f.misread \/ stray \/ (c # None /\ pick = None)
  <1>1. pick \in FormAccounts \cup {None}
    BY FormPicked DEF Form!TypeOK
  <1>2. cur \in Currencies \cup {None} /\ acc \in FormAccounts \cup {None} /\ mis \in BOOLEAN
    BY <1>1 DEF Form!Form
  <1>3. Form!Filled(f, r, c, a, stray) =
          [f EXCEPT !.receipt = r, !.currency = cur, !.account = acc, !.misread = mis]
    BY DEF Form!Filled, Form!Form
  <1> HIDE DEF cur, acc, mis
  <1> QED
    BY <1>2, <1>3 DEF Form!Form

\* A form that a receipt opened is of the next session, with a key of its own.
LEMMA FormPrefilledTyped ==
  ASSUME Form!TransactionFormAssumption, Form!TypeOK, formForm.session + 1 \in Form!Sessions,
         formMinted + 1 \in Form!Keys,
         NEW r \in Receipts \cup {None}, NEW c \in Currencies \cup {None}
  PROVE  /\ Form!Prefilled(r, c) \in Form!Form
         /\ Form!Prefilled(r, c).session = formForm.session + 1
         /\ Form!Prefilled(r, c).mode = "create" /\ Form!Prefilled(r, c).key = formMinted + 1
  <1> DEFINE f == Form!Fresh(formForm.session + 1, formMinted + 1)
             stray == FALSE
             g == Form!Filled(f, r, c, f.account, stray)
  <1>0. stray \in BOOLEAN
    OBVIOUS
  <1>1. f \in Form!Form /\ f.session = formForm.session + 1 /\ f.mode = "create"
        /\ f.key = formMinted + 1
    BY FormFreshTyped
  <1>2. Form!Prefilled(r, c) = IF r # None /\ r # formSeen THEN g ELSE f
    BY DEF Form!Prefilled
  <1> HIDE DEF f, stray
  <1>3. r \in Receipts => g \in Form!Form /\ g.session = f.session /\ g.mode = f.mode /\ g.key = f.key
    BY <1>0, <1>1, FormFilledTyped
  <1> HIDE DEF g
  <1> QED
    BY <1>1, <1>2, <1>3

-----------------------------------------------------------------------------
(* The steps.                                                              *)

\* The invariant of the transaction form holds at the start.
LEMMA FormInitInv ==
  ASSUME Form!TransactionFormAssumption, Form!Init
  PROVE  FormInv
  <1>0. 0 \in Form!Sessions /\ Form!Closed(0) \in Form!Form /\ Form!Closed(0).mode = "closed"
        /\ Form!NewRead \in Form!Read /\ Form!Idle \in Form!Save
    BY DEF Form!Sessions, Form!Closed, Form!NewRead, Form!Idle, Form!Form, Form!Read, Form!Save,
      Form!Types, Form!TransactionFormAssumption
  <1>1. formMinted \in 0..(MaxSessions + MaxChanges) /\ formChanges \in 0..MaxChanges
    BY DEF Form!Init, Form!TransactionFormAssumption
  <1>2. formReads \in [Receipts -> Form!Read] /\ formBooked \in [Form!Sessions -> Nat]
    BY <1>0 DEF Form!Init
  <1>3. formForm \in Form!Form /\ (formOpen <=> formForm.mode # "closed") /\ formOpen \in BOOLEAN
    BY <1>0 DEF Form!Init
  <1>4. Form!TypeOK
    BY <1>0, <1>1, <1>2, <1>3 DEF Form!Init, Form!TypeOK
  <1>5. FormOneKey /\ FormBookedKept /\ FormNothingLeft
    BY DEF Form!Init, FormOneKey, FormBookedKept, FormNothingLeft, FormHolds, Form!Idle
  <1> QED
    BY <1>4, <1>5 DEF FormInv

\* A step within a session: nobody holds another key.
LEMMA FormFieldsStep ==
  ASSUME FormInv, Form!TypeOK', FormNothingLeft', formForm'.session = formForm.session,
         \A s, k : FormHolds(s, k)' => FormHolds(s, k), UNCHANGED <<formKept, formBooked>>
  PROVE  FormInv'
  <1>1. FormOneKey'
    BY DEF FormInv, FormOneKey
  <1>2. FormBookedKept'
    BY DEF FormInv, FormBookedKept
  <1> QED
    BY <1>1, <1>2 DEF FormInv

\* A session starts.
LEMMA FormSessionStep ==
  ASSUME Form!TransactionFormAssumption, FormInv, Form!Opening, NEW f \in Form!Form,
         f.session = formForm.session + 1,
         f.mode # "closed", f.key = (IF f.mode = "edit" THEN None ELSE formMinted + 1),
         formOpen' = TRUE, formForm' = f,
         formMinted' = (IF f.key = None THEN formMinted ELSE formMinted + 1),
         formReads' \in [Receipts -> Form!Read], formPrefill' \in Receipts \cup {None},
         formSeen' \in Receipts \cup {None},
         UNCHANGED <<formHost, formAccounts, formChanges, formSave, Form!serverVars>>
  PROVE  FormInv'
  <1>1. formForm.session \in Nat /\ formForm.session + 1 \in Form!Sessions
        /\ formMinted + 1 \in Form!Keys /\ formMinted + 1 \in Nat
        /\ formMinted + 1 # None
    BY DEF Form!Opening, FormInv, Form!TypeOK, Form!Form, Form!Sessions, Form!Keys,
      Form!TransactionFormAssumption
  <1>2. formMinted' \in 0..(MaxSessions + MaxChanges)
    BY <1>1 DEF FormInv, Form!TypeOK, Form!Keys
  <1>3. Form!TypeOK'
    BY <1>1, <1>2 DEF FormInv, Form!TypeOK, Form!serverVars
  <1>4. \A s, k : FormHolds(s, k)' =>
          FormHolds(s, k) \/ (s = formForm.session + 1 /\ k = formMinted + 1)
    BY DEF FormHolds, Form!serverVars
  <1>5. \A s \in Form!Sessions, k \in Form!Keys \cup {None} : FormHolds(s, k) =>
          s # formForm.session + 1
    <2>1. Form!Sessions \subseteq Nat
      BY DEF Form!Sessions
    <2> QED
      BY <1>1, <2>1 DEF FormInv, FormOneKey
  <1>6. \A s \in Form!Sessions : s <= formForm.session => s <= formForm'.session
    BY <1>1 DEF Form!Sessions
  <1>7. FormOneKey'
    BY <1>1, <1>4, <1>5, <1>6 DEF FormInv, FormOneKey
  <1>8. FormBookedKept'
    <2>1. \A s \in Form!Sessions : formBooked[s] # 0 => s # formForm.session + 1
      <3>1. Form!Sessions \subseteq Nat
        BY DEF Form!Sessions
      <3> QED
        BY <1>1, <3>1 DEF FormInv, FormBookedKept
    <2> QED
      BY <1>4, <1>6, <2>1 DEF FormInv, FormBookedKept, Form!serverVars
  <1>9. FormNothingLeft'
    BY DEF FormNothingLeft
  <1> QED
    BY <1>3, <1>7, <1>8, <1>9 DEF FormInv

\* Reads under way keep their type as their account is forgotten.
LEMMA FormForgottenReads ==
  ASSUME FormInv, NEW a \in FormAccounts \cup {None}
  PROVE  [r \in Receipts |-> IF formReads[r].state = "sent" /\ formReads[r].by # 0
                             THEN [formReads[r] EXCEPT !.account = a] ELSE formReads[r]] \in [Receipts -> Form!Read]
  <1>1. \A r \in Receipts : [formReads[r] EXCEPT !.account = a] \in Form!Read
          /\ formReads[r] \in Form!Read
    BY DEF FormInv, Form!TypeOK, Form!Read
  <1> QED
    BY <1>1

\* The ways to open the form.
LEMMA FormOpeningsKeepInv ==
  ASSUME Form!TransactionFormAssumption, FormInv,
         Form!openNew \/ Form!quickAdd
           \/ (\E t \in Form!Transaction : Form!openEdit(t) \/ Form!openCopy(t))
         \/ (\E r \in Receipts, c \in Currencies \cup {None} : Form!receiptArrives(r, c) /\ ~formOpen)
  PROVE  FormInv'
  <1> DEFINE s == formForm.session + 1
             k == formMinted + 1
             f == Form!Fresh(s, k)
  <1>0. /\ formPrefill \in Receipts \cup {None} /\ formSeen \in Receipts \cup {None} /\ Form!TypeOK
        /\ None \in Receipts \cup {None} /\ k # None
    BY DEF FormInv, Form!TypeOK, Form!TransactionFormAssumption
  <1>1. Form!Opening => s \in Form!Sessions /\ k \in Form!Keys
    BY DEF Form!Opening, FormInv, Form!TypeOK, Form!Form, Form!Sessions, Form!Keys,
      Form!TransactionFormAssumption
  <1>2. Form!Opening => f \in Form!Form /\ f.session = s /\ f.mode = "create" /\ f.key = k
    BY <1>0, <1>1, FormFreshTyped
  <1>3. \A g : Form!Seed(g) /\ g \in Form!Form => formReads' \in [Receipts -> Form!Read]
    BY FormForgottenReads DEF Form!Seed, Form!Form
  <1> HIDE DEF f
  <1>4. CASE Form!openNew
    <2>1. Form!Opening /\ Form!Seed(f) /\ UNCHANGED <<formHost, formPrefill, formSeen, formAccounts,
                                                      formChanges, formSave, Form!serverVars>>
      BY <1>4 DEF Form!openNew, f
    <2>2. formOpen' = TRUE /\ formForm' = f
          /\ formMinted' = (IF f.key = None THEN formMinted ELSE formMinted + 1)
      BY <2>1 DEF Form!Seed
    <2> QED
      BY <1>0, <1>2, <1>3, <2>1, <2>2, FormSessionStep
  <1>5. ASSUME NEW t \in Form!Transaction, Form!openEdit(t)
        PROVE  FormInv'
    <2> DEFINE g == Form!Shows(s, "edit", t, None)
    <2>1. Form!Opening /\ Form!Seed(g) /\ UNCHANGED <<formHost, formPrefill, formSeen, formAccounts,
                                                      formChanges, formSave, Form!serverVars>>
      BY <1>5 DEF Form!openEdit
    <2>2. g \in Form!Form /\ g.session = s /\ g.mode = "edit" /\ g.key = None
      BY <1>1, <2>1, FormShowsTyped
    <2> HIDE DEF g
    <2>3. formOpen' = TRUE /\ formForm' = g
          /\ formMinted' = (IF g.key = None THEN formMinted ELSE formMinted + 1)
      BY <2>1 DEF Form!Seed
    <2> QED
      BY <1>0, <1>3, <2>1, <2>2, <2>3, FormSessionStep
  <1>6. ASSUME NEW t \in Form!Transaction, Form!openCopy(t)
        PROVE  FormInv'
    <2> DEFINE g == Form!Shows(s, "copy", t, k)
    <2>1. Form!Opening /\ Form!Seed(g) /\ UNCHANGED <<formHost, formPrefill, formSeen, formAccounts,
                                                      formChanges, formSave, Form!serverVars>>
      BY <1>6 DEF Form!openCopy
    <2>2. g \in Form!Form /\ g.session = s /\ g.mode = "copy" /\ g.key = k
      BY <1>1, <2>1, FormShowsTyped
    <2> HIDE DEF g
    <2>3. formOpen' = TRUE /\ formForm' = g
          /\ formMinted' = (IF g.key = None THEN formMinted ELSE formMinted + 1)
      BY <2>1 DEF Form!Seed
    <2> QED
      BY <1>0, <1>3, <2>1, <2>2, <2>3, FormSessionStep
  <1>7. ASSUME Form!Opening, NEW r \in Receipts \cup {None}, NEW c \in Currencies \cup {None}
        PROVE  /\ Form!Prefilled(r, c) \in Form!Form /\ Form!Prefilled(r, c).session = s
               /\ Form!Prefilled(r, c).mode = "create" /\ Form!Prefilled(r, c).key = k
    BY <1>0, <1>1, <1>7, FormPrefilledTyped
  <1>8. CASE Form!quickAdd
    <2>1. PICK c \in Currencies \cup {None} : Form!Seed(Form!Prefilled(formPrefill, c))
      BY <1>8 DEF Form!quickAdd
    <2> DEFINE g == Form!Prefilled(formPrefill, c)
    <2>2. Form!Opening /\ Form!Seed(g) /\ UNCHANGED <<formHost, formPrefill, formAccounts,
                                                      formChanges, formSave, Form!serverVars>>
          /\ formSeen' \in Receipts \cup {None}
      BY <1>0, <1>8, <2>1 DEF Form!quickAdd
    <2>3. g \in Form!Form /\ g.session = s /\ g.mode = "create" /\ g.key = k
      BY <1>0, <1>7, <2>2
    <2> HIDE DEF g
    <2>4. formOpen' = TRUE /\ formForm' = g
          /\ formMinted' = (IF g.key = None THEN formMinted ELSE formMinted + 1)
      BY <2>2 DEF Form!Seed
    <2> QED
      BY <1>0, <1>3, <2>2, <2>3, <2>4, FormSessionStep
  <1>9. ASSUME NEW r \in Receipts, NEW c \in Currencies \cup {None}, Form!receiptArrives(r, c),
               ~formOpen
        PROVE  FormInv'
    <2> DEFINE g == Form!Prefilled(r, c)
               was == [q \in Receipts |-> IF formReads[q].state = "sent" /\ formReads[q].by # 0
                                          THEN [formReads[q] EXCEPT !.account = g.account] ELSE formReads[q]]
    <2>1. Form!Opening /\ UNCHANGED <<formHost, formAccounts, formChanges, formSave,
                                      Form!serverVars>>
          /\ formPrefill' = r /\ formSeen' = r /\ formOpen' = TRUE /\ formForm' = g
          /\ formMinted' = formMinted + 1
          /\ formReads' = [q \in Receipts |-> IF q = r THEN Form!ReadOver ELSE was[q]]
      BY <1>9 DEF Form!receiptArrives
    <2>2. g \in Form!Form /\ g.session = s /\ g.mode = "create" /\ g.key = k
      BY <1>7, <2>1
    <2>3. was \in [Receipts -> Form!Read]
      BY <2>2, FormForgottenReads DEF Form!Form
    <2>4. Form!ReadOver \in Form!Read
      BY DEF Form!ReadOver, Form!Read, Form!Sessions, Form!TransactionFormAssumption
    <2> HIDE DEF g, was
    <2>5. formReads' \in [Receipts -> Form!Read]
      BY <2>1, <2>3, <2>4
    <2> QED
      BY <1>0, <2>1, <2>2, <2>5, FormSessionStep
  <1> QED
    BY <1>4, <1>5, <1>6, <1>8, <1>9

\* A form that is closed has neither key nor receipt to use.
LEMMA FormClosedTyped ==
  ASSUME Form!TransactionFormAssumption, NEW s \in Form!Sessions
  PROVE  Form!Closed(s) \in Form!Form /\ Form!Closed(s).session = s
         /\ Form!Closed(s).mode = "closed" /\ Form!Closed(s).receipt = None
  BY DEF Form!Closed, Form!Form, Form!Types

\* A form that is closed keeps nothing, and sends nothing.
LEMMA FormCloseStep ==
  ASSUME Form!TransactionFormAssumption, FormInv, Form!Close, formSave' \in {formSave, Form!Idle},
         UNCHANGED <<formHost, formSeen, formAccounts, formChanges, formMinted, formReads,
                     Form!serverVars>>
  PROVE  FormInv'
  <1>1. formForm.session \in Form!Sessions /\ Form!Idle \in Form!Save /\ Form!Idle.state = "idle"
    BY DEF FormInv, Form!TypeOK, Form!Form, Form!Idle, Form!Save, Form!Sessions,
      Form!TransactionFormAssumption
  <1>2. formForm' \in Form!Form /\ formForm'.session = formForm.session
        /\ formForm'.mode = "closed" /\ formOpen' = FALSE /\ formPrefill' = None
    BY <1>1, FormClosedTyped DEF Form!Close
  <1>3. Form!TypeOK'
    BY <1>1, <1>2 DEF FormInv, Form!TypeOK, Form!serverVars
  <1>4. \A s, k : FormHolds(s, k)' => FormHolds(s, k)
    BY <1>1, <1>2 DEF FormHolds, Form!serverVars
  <1> QED
    BY <1>2, <1>3, <1>4, FormFieldsStep DEF FormNothingLeft, Form!serverVars

\* The fields of the open form.
LEMMA FormFieldsKeepInv ==
  ASSUME Form!TransactionFormAssumption, FormInv,
         \/ \E type \in Form!Types : Form!TypeSelect(type)
         \/ \E a \in FormAccounts \cup {None} : Form!handleAccountChange(a)
         \/ \E c \in Currencies : Form!CurrencySelect(c)
         \/ \E known \in SUBSET FormAccounts : Form!setSeededLens(known)
         \/ \E r \in Receipts, c \in Currencies \cup {None} : Form!parseSucceeds(r, c)
              \/ (Form!receiptArrives(r, c) /\ formOpen)
         \/ \E r \in Receipts : Form!handleFile(r) \/ Form!handleReceiptFile(r) \/ Form!parseFails(r)
  PROVE  FormInv'
  <1>0. /\ Form!TypeOK /\ formForm \in Form!Form /\ FormNothingLeft
        /\ formReads \in [Receipts -> Form!Read] /\ Form!ReadOver \in Form!Read
        /\ formForm.session \in Form!Sessions /\ 0 \in Form!Sessions
    BY DEF FormInv, Form!TypeOK, Form!ReadOver, Form!Read, Form!Form, Form!Sessions,
      Form!TransactionFormAssumption
  <1>1. ASSUME formForm' \in Form!Form, formForm'.session = formForm.session,
               formForm'.mode = formForm.mode, formForm'.key = formForm.key,
               formReads' \in [Receipts -> Form!Read], formAccounts' \in SUBSET FormAccounts,
               formChanges' \in 0..MaxChanges,
               formPrefill' \in Receipts \cup {None}, formOpen \/ formPrefill' = formPrefill,
               UNCHANGED <<formHost, formOpen, formSeen, formMinted, formSave, Form!serverVars>>
        PROVE  FormInv'
    <2>1. Form!TypeOK'
      BY <1>0, <1>1 DEF Form!TypeOK, Form!serverVars
    <2>2. \A s, k : FormHolds(s, k)' => FormHolds(s, k)
      BY <1>1 DEF FormHolds, Form!serverVars
    <2>3. FormNothingLeft'
      BY <1>0, <1>1 DEF FormNothingLeft
    <2> QED
      BY <1>1, <2>1, <2>2, <2>3, FormFieldsStep DEF Form!serverVars
  <1>2. formAccounts \in SUBSET FormAccounts /\ formChanges \in 0..MaxChanges
        /\ formPrefill \in Receipts \cup {None}
    BY <1>0 DEF Form!TypeOK
  <1>3. ASSUME NEW type \in Form!Types, Form!TypeSelect(type)
        PROVE  FormInv'
    <2>1. formForm' \in Form!Form /\ formForm'.session = formForm.session
          /\ formForm'.mode = formForm.mode /\ formForm'.key = formForm.key
      BY <1>0, <1>3 DEF Form!TypeSelect, Form!Form
    <2> QED
      BY <1>0, <1>1, <1>2, <1>3, <2>1 DEF Form!TypeSelect
  <1>4. ASSUME NEW a \in FormAccounts \cup {None}, Form!handleAccountChange(a)
        PROVE  FormInv'
    <2> DEFINE c == IF a = None THEN formForm.currency ELSE CurrencyOf[a]
    <2>1. c \in Currencies \cup {None}
      BY <1>0 DEF Form!Form, Form!TransactionFormAssumption
    <2>2. formForm' = [formForm EXCEPT !.account = a, !.currency = c, !.misread = FALSE]
      BY <1>0, <1>4 DEF Form!handleAccountChange, Form!Form
    <2> HIDE DEF c
    <2>3. formForm' \in Form!Form /\ formForm'.session = formForm.session
          /\ formForm'.mode = formForm.mode /\ formForm'.key = formForm.key
      BY <1>0, <2>1, <2>2 DEF Form!Form
    <2> QED
      BY <1>0, <1>1, <1>2, <1>4, <2>3 DEF Form!handleAccountChange
  <1>5. ASSUME NEW c \in Currencies, Form!CurrencySelect(c)
        PROVE  FormInv'
    <2>1. formForm' \in Form!Form /\ formForm'.session = formForm.session
          /\ formForm'.mode = formForm.mode /\ formForm'.key = formForm.key
      BY <1>0, <1>5 DEF Form!CurrencySelect, Form!Form
    <2> QED
      BY <1>0, <1>1, <1>2, <1>5, <2>1 DEF Form!CurrencySelect
  <1>6. ASSUME NEW known \in SUBSET FormAccounts, Form!setSeededLens(known)
        PROVE  FormInv'
    <2> DEFINE a == Form!OnlyAccount(known)
    <2>1. Form!Cardinality(known) = 1 => a \in FormAccounts /\ CurrencyOf[a] \in Currencies
      BY FormPicked DEF Form!TransactionFormAssumption
    <2>2. formForm' = formForm
            \/ (Form!Cardinality(known) = 1 /\ formForm' = [formForm EXCEPT !.account = a, !.currency = CurrencyOf[a]])
      BY <1>6, Zenon DEF Form!setSeededLens
    <2> HIDE DEF a
    <2>3. formForm' \in Form!Form /\ formForm'.session = formForm.session
          /\ formForm'.mode = formForm.mode /\ formForm'.key = formForm.key
      BY <1>0, <2>1, <2>2 DEF Form!Form
    <2>4. formChanges' \in 0..MaxChanges
      <3>1. formChanges' = formChanges + 1 /\ formChanges < MaxChanges
        BY <1>6 DEF Form!setSeededLens
      <3> QED
        BY <1>2, <3>1 DEF Form!TransactionFormAssumption
    <2>5. formAccounts' \in SUBSET FormAccounts
      BY <1>6 DEF Form!setSeededLens
    <2> QED
      BY <1>0, <1>1, <1>2, <1>6, <2>3, <2>4, <2>5 DEF Form!setSeededLens
  <1>7. ASSUME NEW r \in Receipts, NEW c \in Currencies \cup {None}, Form!parseSucceeds(r, c)
        PROVE  FormInv'
    <2>1. formReads' \in [Receipts -> Form!Read]
      BY <1>0, <1>7 DEF Form!parseSucceeds
    <2> DEFINE stray == formReads[r].by # formForm.session
               g == Form!Filled(formForm, r, c, Form!Callback(r), stray)
    <2>2. stray \in BOOLEAN /\ formForm' \in {g, formForm}
      BY <1>7 DEF Form!parseSucceeds
    <2> HIDE DEF stray
    <2>3. formForm' \in Form!Form /\ formForm'.session = formForm.session
          /\ formForm'.mode = formForm.mode /\ formForm'.key = formForm.key
      BY <1>0, <2>2, FormFilledTyped
    <2> QED
      BY <1>0, <1>1, <1>2, <1>7, <2>1, <2>3 DEF Form!parseSucceeds
  <1>8. ASSUME NEW r \in Receipts, NEW c \in Currencies \cup {None}, Form!receiptArrives(r, c),
               formOpen
        PROVE  FormInv'
    <2>1. formReads' \in [Receipts -> Form!Read] /\ formPrefill' = r /\ UNCHANGED <<formHost,
                                                                                    formAccounts,
                                                                                    formChanges,
                                                                                    formSave,
                                                                                    Form!serverVars>>
          /\ UNCHANGED <<formOpen, formForm, formMinted, formSeen>>
      BY <1>0, <1>8 DEF Form!receiptArrives
    <2> QED
      BY <1>0, <1>1, <1>2, <1>8, <2>1
  <1>9. ASSUME NEW r \in Receipts,
               Form!handleFile(r) \/ Form!handleReceiptFile(r) \/ Form!parseFails(r)
        PROVE  FormInv'
    <2>1. \A by \in Form!Sessions : Form!Sent(r, by) \in [Receipts -> Form!Read]
      BY <1>0 DEF Form!Sent, Form!Read
    <2>2. formReads' \in [Receipts -> Form!Read] /\ UNCHANGED formForm
      BY <1>0, <1>9, <2>1 DEF Form!handleFile, Form!handleReceiptFile, Form!parseFails
    <2> QED
      BY <1>0, <1>1, <1>2, <1>9, <2>2 DEF Form!handleFile, Form!handleReceiptFile, Form!parseFails
  <1> QED
    BY <1>3, <1>4, <1>5, <1>6, <1>7, <1>8, <1>9

\* A create is served, now or late.
LEMMA FormBookStep ==
  ASSUME Form!TransactionFormAssumption, FormInv, Form!TypeOK',
         UNCHANGED <<formOpen, formPrefill, formForm>>, NEW s \in Form!Sessions,
         NEW k \in Form!Keys \cup {None},
         FormHolds(s, k), Form!Book(s, k), \A t, l : FormHolds(t, l)' => FormHolds(t, l)
  PROVE  FormInv'
  <1>1. k \in Form!Keys /\ s <= formForm.session
        /\ \A l \in Form!Keys \cup {None} : FormHolds(s, l) => l = k
    BY DEF FormInv, FormOneKey
  <1>2. formKept \subseteq formKept' /\ (k # None => k \in formKept')
    BY DEF Form!Book
  <1>3. /\ \A t \in Form!Sessions \ {s} : formBooked'[t] = formBooked[t]
        /\ formBooked'[s] = IF k \in formKept THEN formBooked[s] ELSE formBooked[s] + 1
    BY DEF Form!Book, FormInv, Form!TypeOK
  <1>4. k \notin formKept => formBooked[s] = 0
    BY DEF FormInv, FormBookedKept
  <1>5. FormOneKey'
    BY DEF FormInv, FormOneKey
  <1>6. formBooked'[s] # 0 => formBooked'[s] = 1
    BY <1>3, <1>4 DEF FormInv, FormBookedKept
  <1>7. k \in formKept'
    BY <1>1, <1>2 DEF Form!Keys, Form!TransactionFormAssumption
  <1>8. FormBookedKept'
    BY <1>1, <1>2, <1>3, <1>6, <1>7 DEF FormInv, FormBookedKept
  <1>9. FormNothingLeft'
    BY DEF FormInv, FormNothingLeft
  <1> QED
    BY <1>5, <1>8, <1>9 DEF FormInv

\* Saving, and the creates that were given up.
LEMMA FormSavingKeepsInv ==
  ASSUME Form!TransactionFormAssumption, FormInv,
         Form!handleSubmit \/ Form!Saving \/ \E w \in formLate : Form!ServedLate(w)
  PROVE  FormInv'
  <1>0. /\ Form!TypeOK /\ formForm \in Form!Form /\ formSave \in Form!Save
        /\ Form!Idle \in Form!Save /\ Form!Idle.state = "idle"
        /\ (formOpen <=> formForm.mode # "closed") /\ formLate \subseteq Form!Create
    BY DEF FormInv, Form!TypeOK, Form!Idle, Form!Save, Form!Sessions, Form!TransactionFormAssumption
  <1>1. ASSUME UNCHANGED <<formHost, formOpen, formPrefill, formSeen, formAccounts, formChanges, formForm, formMinted, formReads>>,
               formSave' \in Form!Save, formLate' \subseteq Form!Create
        PROVE  /\ formKept' \subseteq Form!Keys /\ formBooked' \in [Form!Sessions -> Nat] =>
                    Form!TypeOK'
               /\ FormNothingLeft'
    BY <1>0, <1>1 DEF Form!TypeOK, FormNothingLeft, FormInv
  <1>2. ASSUME UNCHANGED <<formHost, formOpen, formPrefill, formSeen, formAccounts, formChanges, formForm, formMinted, formReads, formKept, formBooked>>,
               formSave' \in Form!Save, formLate' \subseteq Form!Create, \A s, k : FormHolds(s, k)' => FormHolds(s, k)
        PROVE  FormInv'
    <2>1. Form!TypeOK' /\ FormNothingLeft'
      BY <1>0, <1>1, <1>2 DEF Form!TypeOK
    <2> QED
      BY <1>2, <2>1, FormFieldsStep
  <1>3. CASE Form!handleSubmit
    <2>1. formSave' \in Form!Save /\ formSave'.session = formForm.session
          /\ formSave'.key = formForm.key
          /\ (formSave'.state = "create" => formForm.mode # "edit")
      BY <1>0, <1>3 DEF Form!handleSubmit, Form!Save, Form!Form
    <2>2. \A s, k : FormHolds(s, k)' => FormHolds(s, k)
      BY <1>3, <2>1 DEF FormHolds, Form!handleSubmit, Form!SaveButton, Form!serverVars
    <2> QED
      BY <1>0, <1>2, <1>3, <2>1, <2>2 DEF Form!handleSubmit, Form!serverVars
  <1>4. ASSUME NEW s \in Form!Sessions, NEW k \in Form!Keys \cup {None}, Form!Book(s, k),
               k \in Form!Keys
        PROVE  formKept' \subseteq Form!Keys /\ formBooked' \in [Form!Sessions -> Nat]
    <2>1. formKept \subseteq Form!Keys /\ formBooked \in [Form!Sessions -> Nat]
          /\ formBooked[s] + 1 \in Nat
      BY <1>0 DEF Form!TypeOK
    <2> QED
      BY <1>4, <2>1 DEF Form!Book
  <1>5. CASE Form!Served
    <2>1. formSave' \in Form!Save /\ formSave'.state = "created"
          /\ formSave.session \in Form!Sessions /\ formSave.key \in Form!Keys \cup {None}
      BY <1>0, <1>5 DEF Form!Served, Form!Save
    <2>2. FormHolds(formSave.session, formSave.key) /\ \A s, k : FormHolds(s, k)' => FormHolds(s, k)
      BY <1>5, <2>1 DEF FormHolds, Form!Served
    <2>3. Form!TypeOK'
      BY <1>0, <1>1, <1>4, <1>5, <2>1, <2>2 DEF Form!Served, FormInv, FormOneKey
    <2> QED
      BY <1>5, <2>1, <2>2, <2>3, FormBookStep DEF Form!Served
  <1>6. ASSUME NEW w \in formLate, Form!ServedLate(w)
        PROVE  FormInv'
    <2>1. w.session \in Form!Sessions /\ w.key \in Form!Keys \cup {None}
      BY <1>0 DEF Form!Create
    <2>2. FormHolds(w.session, w.key) /\ \A s, k : FormHolds(s, k)' => FormHolds(s, k)
      BY <1>6 DEF FormHolds, Form!ServedLate
    <2>3. Form!TypeOK'
      BY <1>0, <1>1, <1>4, <1>6, <2>1, <2>2 DEF Form!ServedLate, FormInv, FormOneKey
    <2> QED
      BY <1>6, <2>1, <2>2, <2>3, FormBookStep DEF Form!ServedLate
  <1>7. CASE Form!GivenUp
    <2>1. [session |-> formSave.session, key |-> formSave.key] \in Form!Create
      BY <1>0 DEF Form!Save, Form!Create
    <2>2. \A s, k : FormHolds(s, k)' => FormHolds(s, k)
      BY <1>0, <1>7 DEF FormHolds, Form!GivenUp
    <2> QED
      BY <1>0, <1>2, <1>7, <2>1, <2>2 DEF Form!GivenUp
  <1>8. CASE Form!SaveFails
    <2>1. \A s, k : FormHolds(s, k)' => FormHolds(s, k)
      BY <1>0, <1>8 DEF FormHolds, Form!SaveFails, Form!serverVars
    <2> QED
      BY <1>0, <1>2, <1>8, <2>1 DEF Form!SaveFails, Form!serverVars
  <1>9. CASE Form!uploadAttachment
    <2>1. formSave' \in Form!Save /\ formSave'.state = "upload"
      BY <1>0, <1>9 DEF Form!uploadAttachment, Form!Save
    <2>2. \A s, k : FormHolds(s, k)' => FormHolds(s, k)
      BY <1>9, <2>1 DEF FormHolds, Form!uploadAttachment, Form!serverVars
    <2> QED
      BY <1>0, <1>2, <1>9, <2>1, <2>2 DEF Form!uploadAttachment, Form!serverVars
  <1>10. CASE Form!Saved
    <2>1. CASE formOpen
      BY <1>10, <2>1, FormCloseStep DEF Form!Saved
    <2>2. CASE ~formOpen
      <3>1. \A s, k : FormHolds(s, k)' => FormHolds(s, k)
        BY <1>0, <1>10, <2>2 DEF FormHolds, Form!Saved, Form!serverVars
      <3>2. formPrefill' = formPrefill
        BY <1>10, <2>2 DEF Form!Saved, FormInv, FormNothingLeft
      <3> QED
        BY <1>0, <1>2, <1>10, <2>2, <3>1, <3>2 DEF Form!Saved, Form!serverVars
    <2> QED
      BY <2>1, <2>2
  <1> QED
    BY <1>3, <1>5, <1>6, <1>7, <1>8, <1>9, <1>10 DEF Form!Saving

\* Every step of the transaction form keeps its invariant.
LEMMA FormStepInv ==
  ASSUME Form!TransactionFormAssumption, FormInv, Form!Next \/ UNCHANGED Form!vars
  PROVE  FormInv'
  <1>1. CASE UNCHANGED Form!vars
    BY <1>1 DEF Form!vars, Form!serverVars, FormInv, Form!TypeOK, FormOneKey, FormBookedKept,
      FormNothingLeft, FormHolds
  <1>2. CASE Form!Footer
    BY <1>2, FormCloseStep DEF Form!Footer
  <1>3. CASE Form!Next /\ ~Form!Footer
    BY <1>3, FormOpeningsKeepInv, FormFieldsKeepInv, FormSavingKeepsInv DEF Form!Next, Form!User,
      Form!Reading
  <1> QED
    BY <1>1, <1>2, <1>3

\* The invariant says that a session books once.
LEMMA FormBookedOnce ==
  ASSUME FormInv
  PROVE  Form!OneBooking
  <1>1. \A s \in Form!Sessions : formBooked[s] \in Nat /\ formBooked[s] \in {0, 1}
    BY DEF FormInv, Form!TypeOK, FormBookedKept
  <1> QED
    BY <1>1 DEF Form!OneBooking


\* A closed form has no receipt left that a new session could take up.
LEMMA FormStaysOut ==
  ASSUME Form!TransactionFormAssumption, FormInv, Form!Next \/ UNCHANGED Form!vars
  PROVE  Form!DroppedStaysOut
  <1> SUFFICES ASSUME NEW r \in Receipts, formForm'.receipt = r, formForm.receipt # r,
                      formReads[r].state # "sent"
               PROVE  FALSE
    BY DEF Form!DroppedStaysOut
  <1>0. Form!TypeOK /\ formForm \in Form!Form /\ None # r
    BY DEF FormInv, Form!TypeOK, Form!TransactionFormAssumption
  <1>1. \A s, k : Form!Fresh(s, k).receipt = None
    BY DEF Form!Fresh
  <1>2. \A s, mode, t, k : Form!Shows(s, mode, t, k).receipt = None
    BY DEF Form!Shows
  <1>3. \A s : Form!Closed(s).receipt = None
    BY DEF Form!Closed
  <1>4. CASE Form!openNew \/ Form!quickAdd
    <2>1. Form!quickAdd => formPrefill = None
      BY DEF Form!quickAdd, Form!QuickAddActions, FormInv, FormNothingLeft
    <2>2. \A c : Form!Prefilled(None, c) = Form!Fresh(formForm.session + 1, formMinted + 1)
      BY DEF Form!Prefilled
    <2>3. formForm' = Form!Fresh(formForm.session + 1, formMinted + 1)
      BY <1>4, <2>1, <2>2 DEF Form!openNew, Form!quickAdd, Form!Seed
    <2> QED
      BY <1>0, <1>1, <2>3
  <1>5. ASSUME NEW t \in Form!Transaction, Form!openEdit(t) \/ Form!openCopy(t)
        PROVE  FALSE
    <2>1. formForm' = Form!Shows(formForm.session + 1, "edit", t, None)
            \/ formForm' = Form!Shows(formForm.session + 1, "copy", t, formMinted + 1)
      BY <1>5 DEF Form!openEdit, Form!openCopy, Form!Seed
    <2> QED
      BY <1>0, <1>2, <2>1
  <1>6. CASE Form!Footer \/ Form!Saved
    <2>1. formForm' = Form!Closed(formForm.session) \/ formForm' = formForm
      BY <1>6 DEF Form!Footer, Form!Saved, Form!Close
    <2> QED
      BY <1>0, <1>3, <2>1
  <1>7. ASSUME \/ \E type \in Form!Types : Form!TypeSelect(type)
               \/ \E a \in FormAccounts \cup {None} : Form!handleAccountChange(a)
               \/ \E c \in Currencies : Form!CurrencySelect(c)
               \/ \E known \in SUBSET FormAccounts : Form!setSeededLens(known)
        PROVE  FALSE
    <2>1. formForm'.receipt = formForm.receipt
      BY <1>0, <1>7 DEF Form!TypeSelect, Form!handleAccountChange, Form!CurrencySelect,
        Form!setSeededLens, Form!Form
    <2> QED
      BY <2>1
  <1>8. ASSUME NEW q \in Receipts, NEW c \in Currencies \cup {None}, NEW f \in Form!Form, NEW a,
               NEW stray \in BOOLEAN,
               formForm' = Form!Filled(f, q, c, a, stray), formReads[q].state = "sent"
        PROVE  FALSE
    <2>1. formForm'.receipt = q
      BY <1>0, <1>8, FormFilledTyped
    <2> QED
      BY <1>8, <2>1
  <1>9. ASSUME NEW q \in Receipts, NEW c \in Currencies \cup {None}, Form!parseSucceeds(q, c)
        PROVE  FALSE
    <2> DEFINE stray == formReads[q].by # formForm.session
    <2>1. stray \in BOOLEAN /\ formReads[q].state = "sent"
          /\ formForm' \in {formForm, Form!Filled(formForm, q, c, Form!Callback(q), stray)}
      BY <1>9 DEF Form!parseSucceeds
    <2> HIDE DEF stray
    <2> QED
      BY <1>0, <1>8, <2>1
  <1>10. ASSUME NEW q \in Receipts, NEW c \in Currencies \cup {None}, Form!receiptArrives(q, c)
         PROVE  FALSE
    <2> DEFINE f == Form!Fresh(formForm.session + 1, formMinted + 1)
    <2>1. formReads[q].state = "sent"
          /\ (formForm' = formForm \/ (Form!Opening /\ formForm' = Form!Prefilled(q, c)))
      BY <1>10 DEF Form!receiptArrives
    <2>2. Form!Prefilled(q, c) \in {f, Form!Filled(f, q, c, f.account, FALSE)}
      BY DEF Form!Prefilled
    <2>3. Form!Opening => formForm.session + 1 \in Form!Sessions /\ formMinted + 1 \in Form!Keys
      BY <1>0 DEF Form!Opening, Form!TypeOK, Form!Form, Form!Sessions, Form!Keys,
        Form!TransactionFormAssumption
    <2>4. Form!Opening => f \in Form!Form
      BY <1>0, <2>3, FormFreshTyped
    <2>5. f.receipt = None
      BY <1>1
    <2> HIDE DEF f
    <2> QED
      BY <1>0, <1>8, <2>1, <2>2, <2>4, <2>5
  <1>11. ASSUME UNCHANGED formForm
         PROVE  FALSE
    BY <1>11
  <1> QED
    BY <1>4, <1>5, <1>6, <1>7, <1>9, <1>10, <1>11
       DEF Form!Next, Form!User, Form!Reading, Form!Saving, Form!vars, Form!handleSubmit,
           Form!handleFile, Form!handleReceiptFile, Form!parseFails,
           Form!Served, Form!GivenUp, Form!SaveFails, Form!uploadAttachment, Form!ServedLate

\* A step while this page is followed is a step of the page, or leaves it alone.
LEMMA FormFrame ==
  ASSUME page = "form", Next \/ UNCHANGED vars
  PROVE  page' = "form" /\ (Form!Next \/ UNCHANGED Form!vars)
  BY DEF Next, vars, EntryNext, ItemsNext, BoardNext, RowsNext, TransfersNext,
    MembersNext, FormNext, ListsNext, PanelNext, MarksNext, DefaultsNext, formVars,
    Form!vars

-----------------------------------------------------------------------------
(***************************************************************************)
(* The items table of a transaction (ItemsTab).                            *)
(***************************************************************************)

\* Items are finitely many, wherever they are kept.
ItemsFinite ==
  /\ IsFiniteSet(itemsStored) /\ IsFiniteSet(itemsSave.items)
  /\ itemsItems.data # None => IsFiniteSet(itemsItems.data)
  /\ itemsItemsFetch.state = "served" =>
       itemsItemsFetch.data \in Items!Items /\ IsFiniteSet(itemsItemsFetch.data)

\* The number of elements the module ItemsTab counts is the usual one.
LEMMA ItemsCounting == \A S : Items!Cardinality(S) = Cardinality(S)
  BY DEF Items!Cardinality, Cardinality

\* The table knows what the cache holds, edited or not.
ItemsKnows == itemsTab = "items" => itemsSeeded = itemsItems.data

\* A table that was not edited shows what it was seeded with, unless those are the
\* items of an adjustment that has none.
ItemsShowsSeed ==
  itemsTab = "items" /\ ~itemsDirty /\ itemsSeeded # None /\ (itemsManaged \/ itemsSeeded # {})
    => {itemsRows[i] : i \in DOMAIN itemsRows} = [line : itemsSeeded, named : {TRUE}]

\* A save that is the table's own: the table is mounted.
ItemsOwnSave == itemsSave.own => itemsTab = "items"

ItemsInv == Items!TypeOK /\ ItemsFinite /\ ItemsKnows /\ ItemsShowsSeed /\ ItemsOwnSave

-----------------------------------------------------------------------------
(* The rows.                                                               *)

\* A finite set as a sequence of its elements.
LEMMA ItemsSeqOfSet ==
  ASSUME NEW S, IsFiniteSet(S)
  PROVE  /\ Items!Cardinality(S) \in Nat
         /\ Items!positions(S) \in [1..Items!Cardinality(S) -> S]
         /\ \A x \in S : \E i \in 1..Items!Cardinality(S) : Items!positions(S)[i] = x
  <1> DEFINE n == Items!Cardinality(S)
             f == Items!positions(S)
             Places(g) == \A x \in S : \E i \in 1..n : g[i] = x
  <1>1. n \in Nat /\ ExistsBijection(1..n, S)
    BY ItemsCounting, FS_CardinalityType
  <1>2. PICK g \in Bijection(1..n, S) : TRUE
    BY <1>1 DEF ExistsBijection
  <1>3. g \in [1..n -> S] /\ Places(g)
    BY <1>2 DEF Bijection, Injection, Surjection
  <1>4. f = CHOOSE h \in [1..n -> S] : Places(h)
    BY DEF Items!positions
  <1> HIDE DEF f, Places
  <1>5. f \in [1..n -> S] /\ Places(f)
    BY <1>3, <1>4
  <1> QED
    BY <1>1, <1>5 DEF f, Places

\* The rows made of the stored items are one for each, named.
LEMMA ItemsUserRows ==
  ASSUME NEW data \in Items!Items, IsFiniteSet(data)
  PROVE  /\ Items!toUserRows(data) \in Seq(Items!Row)
         /\ {Items!toUserRows(data)[i] : i \in DOMAIN Items!toUserRows(data)} =
              [line : data, named : {TRUE}]
  <1> DEFINE n == Items!Cardinality(data)
             f == Items!positions(data)
             row(i) == [line |-> f[i], named |-> TRUE]
             r == Items!toUserRows(data)
             wanted == [line : data, named : {TRUE}]
  <1>1. n \in Nat /\ f \in [1..n -> data] /\ \A x \in data : \E i \in 1..n : f[i] = x
    BY ItemsSeqOfSet
  <1>2. r = [i \in 1..n |-> row(i)]
    BY DEF Items!toUserRows
  <1>3. \A i \in 1..n : f[i] \in data /\ f[i] \in Lines \cup ReadLines
    BY <1>1 DEF Items!Items
  <1> HIDE DEF n, f, r
  <1>4. \A i \in 1..n : row(i) \in Items!Row /\ row(i) \in wanted
    BY <1>3 DEF Items!Row
  <1>5. \A q \in wanted : \E i \in 1..n : q = row(i)
    <2> TAKE q \in wanted
    <2>1. PICK i \in 1..n : f[i] = q.line
      BY <1>1
    <2>2. q = row(i)
      BY <2>1
    <2> QED
      BY <2>2
  <1> HIDE DEF row, wanted
  <1>6. r \in [1..n -> Items!Row]
    BY <1>2, <1>4
  <1>7. r \in Seq(Items!Row)
    BY <1>1, <1>6
  <1>8. {r[i] : i \in DOMAIN r} = wanted
    BY <1>2, <1>4, <1>5
  <1> QED
    BY <1>7, <1>8 DEF r, wanted

\* The items that are saved are finitely many.
LEMMA ItemsSavedItems ==
  ASSUME Items!TypeOK
  PROVE  Items!rowsToItems \in Items!Items /\ IsFiniteSet(Items!rowsToItems)
  <1> DEFINE J == {j \in DOMAIN itemsRows : itemsRows[j].named}
             f == [j \in J |-> itemsRows[j].line]
  <1>1. itemsRows \in Seq(Items!Row) /\ Len(itemsRows) \in Nat
        /\ DOMAIN itemsRows = 1..Len(itemsRows)
    BY DEF Items!TypeOK
  <1>2. J \in SUBSET (1..Len(itemsRows)) /\ IsFiniteSet(1..Len(itemsRows))
    BY <1>1, FS_Interval
  <1>3. IsFiniteSet(J)
    BY <1>2, FS_Subset
  <1>4. Items!rowsToItems = {f[j] : j \in J}
    BY DEF Items!rowsToItems
  <1>5. f \in Surjection(J, Items!rowsToItems)
    BY <1>4 DEF Surjection
  <1>6. IsFiniteSet(Items!rowsToItems)
    BY <1>3, <1>5, FS_Surjection
  <1>7. \A j \in J : itemsRows[j] \in Items!Row
    BY <1>1
  <1>8. \A j \in J : f[j] \in Lines \cup ReadLines
    BY <1>7 DEF Items!Row
  <1> QED
    BY <1>4, <1>6, <1>8 DEF Items!Items

\* Removing a row keeps the others.
LEMMA ItemsRemoved ==
  ASSUME NEW s \in Seq(Items!Row), NEW e \in 1..Len(s)
  PROVE  /\ Items!Without(s, e) \in Seq(Items!Row)
         /\ \A i \in 1..Len(s) : i # e =>
              \E j \in DOMAIN Items!Without(s, e) : Items!Without(s, e)[j] = s[i]
  <1> DEFINE a == SubSeq(s, 1, e - 1)
             b == SubSeq(s, e + 1, Len(s))
             t == a \o b
  <1>1. t = Items!Without(s, e)
    BY DEF Items!Without
  <1>2. /\ a \in Seq(Items!Row) /\ Len(a) = e - 1
        /\ \A i \in 1..(e - 1) : a[i] = s[i]
    OBVIOUS
  <1>3. /\ b \in Seq(Items!Row) /\ Len(b) = Len(s) - e
        /\ \A i \in (e + 1)..Len(s) : b[i - e] = s[i]
    OBVIOUS
  <1> HIDE DEF a, b
  <1>4. t \in Seq(Items!Row) /\ Len(t) = Len(a) + Len(b)
    BY <1>2, <1>3
  <1>5. /\ \A i \in 1..Len(a) : t[i] = a[i]
        /\ \A i \in 1..Len(b) : t[Len(a) + i] = b[i]
    BY <1>2, <1>3
  <1> HIDE DEF t
  <1>6. DOMAIN t = 1..(Len(s) - 1)
    BY <1>2, <1>3, <1>4
  <1>7. ASSUME NEW i \in 1..Len(s), i # e
        PROVE  \E j \in DOMAIN t : t[j] = s[i]
    <2>1. CASE i < e
      <3>1. i \in 1..(e - 1) /\ i \in 1..Len(a) /\ i \in DOMAIN t
        BY <1>2, <1>6, <2>1
      <3> QED
        BY <1>2, <1>5, <3>1
    <2>2. CASE i > e
      <3>1. i - 1 \in DOMAIN t /\ i - e \in 1..Len(b) /\ i - 1 = Len(a) + (i - e)
        BY <1>2, <1>3, <1>6, <2>2
      <3>2. t[i - 1] = s[i]
        BY <1>3, <1>5, <1>7, <2>2, <3>1, i \in (e + 1)..Len(s)
      <3> QED
        BY <3>1, <3>2
    <2> QED
      BY <1>7, <2>1, <2>2
  <1> QED
    BY <1>1, <1>4, <1>7

-----------------------------------------------------------------------------
(* The inductive invariant.                                                *)

\* A handler of the table marks it edited: what it shows is its own.
LEMMA ItemsEditKeeps ==
  ASSUME ItemsInv, Items!TableKeeps, itemsDirty' = TRUE,
         itemsRows' \in Seq(Items!Row), itemsExpanded' \in Nat, itemsTyped' \subseteq Lines
  PROVE  ItemsInv'
  <1>1. Items!TypeOK'
    BY DEF ItemsInv, Items!TypeOK, Items!TableKeeps
  <1>2. ItemsFinite' /\ ItemsKnows' /\ ItemsOwnSave'
    BY DEF ItemsInv, ItemsFinite, ItemsKnows, ItemsOwnSave, Items!TableKeeps
  <1>3. ItemsShowsSeed'
    BY DEF ItemsShowsSeed
  <1> QED
    BY <1>1, <1>2, <1>3 DEF ItemsInv

\* Data that arrives is what the table knows, and shows unless it was edited.
LEMMA ItemsSeedKeeps ==
  ASSUME ItemsInv, NEW d \in Items!Items, IsFiniteSet(d), itemsItems'.data = d,
         UNCHANGED <<itemsTab, itemsManaged>>,
         \/ Items!SeedPristine(d) /\ UNCHANGED itemsDirty
         \/ Items!Seed(d) /\ itemsDirty' = FALSE /\ itemsTab = "items"
         \/ /\ UNCHANGED <<itemsRows, itemsSeeded>> /\ itemsDirty' = FALSE
            /\ ~itemsManaged /\ itemsSeeded = {} /\ d = {}
  PROVE  itemsRows' \in Seq(Items!Row) /\ itemsSeeded' \in Items!Items \cup {None}
         /\ itemsDirty' \in BOOLEAN
         /\ ItemsKnows' /\ ItemsShowsSeed'
  <1> DEFINE shown == [line : d, named : {TRUE}]
  <1>1. /\ itemsRows \in Seq(Items!Row) /\ itemsSeeded \in Items!Items \cup {None}
        /\ itemsDirty \in BOOLEAN
        /\ itemsTab = "items" /\ ~itemsDirty /\ itemsSeeded # None
           /\ (itemsManaged \/ itemsSeeded # {})
             => {itemsRows[i] : i \in DOMAIN itemsRows} = [line : itemsSeeded, named : {TRUE}]
    BY DEF ItemsInv, Items!TypeOK, ItemsShowsSeed
  <1>2. ASSUME Items!Seed(d)
        PROVE  /\ itemsRows' \in Seq(Items!Row) /\ itemsSeeded' = d
               /\ {itemsRows'[i] : i \in DOMAIN itemsRows'} = shown
    <2>1. /\ Items!toUserRows(d) \in Seq(Items!Row)
          /\ {Items!toUserRows(d)[i] : i \in DOMAIN Items!toUserRows(d)} = shown
      BY ItemsUserRows
    <2> HIDE DEF shown
    <2> QED
      BY <1>2, <2>1 DEF Items!Seed
  <1> HIDE DEF shown
  <1>3. CASE Items!Seed(d) /\ itemsDirty' = FALSE /\ itemsTab = "items"
    BY <1>2, <1>3 DEF ItemsKnows, ItemsShowsSeed, shown
  <1>4. CASE Items!SeedPristine(d) /\ UNCHANGED itemsDirty
    <2>1. CASE itemsTab = "items" /\ d # itemsSeeded /\ ~itemsDirty
      BY <1>1, <1>2, <1>4, <2>1 DEF Items!SeedPristine, ItemsKnows, ItemsShowsSeed, shown
    <2>2. CASE itemsTab = "items" /\ d # itemsSeeded /\ itemsDirty
      BY <1>1, <1>4, <2>2 DEF Items!SeedPristine, ItemsKnows, ItemsShowsSeed
    <2>3. CASE itemsTab = "items" /\ d = itemsSeeded
      BY <1>1, <1>4, <2>3 DEF Items!SeedPristine, ItemsKnows, ItemsShowsSeed
    <2>4. CASE itemsTab # "items"
      BY <1>1, <1>4, <2>4 DEF Items!SeedPristine, ItemsKnows, ItemsShowsSeed
    <2> QED
      BY <1>1, <2>1, <2>2, <2>3, <2>4
  <1>5. CASE /\ UNCHANGED <<itemsRows, itemsSeeded>> /\ itemsDirty' = FALSE
             /\ ~itemsManaged /\ itemsSeeded = {} /\ d = {}
    BY <1>1, <1>5 DEF ItemsKnows, ItemsShowsSeed
  <1> QED
    BY <1>3, <1>4, <1>5

\* The invariant of the items table holds as the tab is shown.
LEMMA ItemsInitInv ==
  ASSUME Items!Init
  PROVE  ItemsInv
  <1>1. itemsStored \in Items!Items /\ itemsStored \subseteq Lines /\ IsFiniteSet(itemsStored)
    <2>1. CASE itemsStored = {}
      BY <2>1, FS_EmptySet DEF Items!Items
    <2>2. ASSUME NEW n \in Lines, itemsStored = {n}
          PROVE  itemsStored \in Items!Items /\ itemsStored \subseteq Lines
                 /\ IsFiniteSet(itemsStored)
      BY <2>2, FS_Singleton DEF Items!Items
    <2> QED
      BY <2>1, <2>2 DEF Items!Init
  <1>2. itemsItems \in Items!Cached /\ itemsItemsFetch \in Items!Fetching
    BY DEF Items!Init, Items!Cached, Items!Fetching, Items!NoFetch
  <1>3. itemsSave \in Items!Save /\ IsFiniteSet(itemsSave.items)
    BY FS_EmptySet DEF Items!Init, Items!NoSave, Items!Save, Items!Items
  <1>4. itemsRows \in Seq(Items!Row)
    BY DEF Items!Init
  <1>5. Items!TypeOK
    BY <1>1, <1>2, <1>3, <1>4 DEF Items!Init, Items!TypeOK
  <1>6. ItemsFinite
    BY <1>1, <1>3 DEF Items!Init, ItemsFinite, Items!NoFetch
  <1>7. ItemsKnows /\ ItemsShowsSeed /\ ItemsOwnSave
    BY DEF Items!Init, ItemsKnows, ItemsShowsSeed, ItemsOwnSave, Items!NoSave
  <1> QED
    BY <1>5, <1>6, <1>7 DEF ItemsInv

\* Every step keeps it.
LEMMA ItemsStepInv ==
  ASSUME ItemsInv, Items!Next \/ UNCHANGED Items!vars
  PROVE  ItemsInv'
  <1>1. ASSUME NEW t \in {"items", "receipts"}, Items!setDetailTab(t)
        PROVE  ItemsInv'
    <2>1. itemsItemsFetch' \in Items!Fetching /\ itemsSave' \in Items!Save
      BY <1>1 DEF ItemsInv, Items!TypeOK, Items!setDetailTab, Items!Fetching, Items!Save, Items!Sent
    <2>2. /\ itemsRows' \in Seq(Items!Row) /\ itemsSeeded' \in Items!Items \cup {None}
          /\ ItemsKnows' /\ ItemsShowsSeed'
      <3>1. CASE t = "items" /\ itemsItems.data # None
        <4>1. itemsItems.data \in Items!Items /\ IsFiniteSet(itemsItems.data)
          BY <3>1 DEF ItemsInv, Items!TypeOK, ItemsFinite, Items!Cached
        <4>2. /\ itemsRows' = Items!toUserRows(itemsItems.data) /\ itemsSeeded' = itemsItems.data
              /\ UNCHANGED itemsItems
          BY <1>1, <3>1 DEF Items!setDetailTab
        <4>3. /\ itemsRows' \in Seq(Items!Row)
              /\ {itemsRows'[i] : i \in DOMAIN itemsRows'} = [line : itemsSeeded', named : {TRUE}]
          BY <4>1, <4>2, ItemsUserRows
        <4> QED
          BY <4>1, <4>2, <4>3 DEF ItemsKnows, ItemsShowsSeed
      <3>2. CASE ~(t = "items" /\ itemsItems.data # None)
        <4>1. itemsRows' = <<>> /\ itemsSeeded' = None /\ UNCHANGED itemsItems /\ itemsTab' = t
          BY <1>1, <3>2 DEF Items!setDetailTab
        <4> QED
          BY <3>2, <4>1 DEF ItemsKnows, ItemsShowsSeed
      <3> QED
        BY <3>1, <3>2
    <2>3. Items!TypeOK'
      BY <1>1, <2>1, <2>2 DEF ItemsInv, Items!TypeOK, Items!setDetailTab
    <2>4. ItemsFinite' /\ ItemsOwnSave'
      BY <1>1 DEF ItemsInv, ItemsFinite, ItemsOwnSave, Items!setDetailTab, Items!Sent
    <2> QED
      BY <2>2, <2>3, <2>4 DEF ItemsInv
  <1>2. CASE Items!ItemsServed
    <2>1. itemsItemsFetch' \in Items!Fetching
      BY <1>2 DEF ItemsInv, Items!TypeOK, Items!ItemsServed, Items!Fetching, Items!Served
    <2>2. Items!TypeOK'
      BY <1>2, <2>1 DEF ItemsInv, Items!TypeOK, Items!ItemsServed
    <2>3. ItemsFinite'
      BY <1>2 DEF ItemsInv, Items!TypeOK, ItemsFinite, Items!ItemsServed, Items!Served
    <2>4. ItemsKnows' /\ ItemsShowsSeed' /\ ItemsOwnSave'
      BY <1>2 DEF ItemsInv, ItemsKnows, ItemsShowsSeed, ItemsOwnSave, Items!ItemsServed
    <2> QED
      BY <2>2, <2>3, <2>4 DEF ItemsInv
  <1>3. CASE Items!ItemsArrive
    <2> DEFINE d == itemsItemsFetch.data
    <2>1. d \in Items!Items /\ IsFiniteSet(d)
      BY <1>3 DEF ItemsInv, ItemsFinite, Items!ItemsArrive
    <2>2. /\ itemsItems' = [data |-> d, stale |-> FALSE] /\ itemsItemsFetch' = Items!NoFetch
          /\ Items!SeedPristine(d) /\ UNCHANGED <<itemsManaged, itemsTab, itemsStored, itemsDirty,
                                                  itemsExpanded, itemsTyped, itemsSave>>
      BY <1>3 DEF Items!ItemsArrive
    <2> HIDE DEF d
    <2>3. itemsItems' \in Items!Cached /\ itemsItems'.data = d
          /\ itemsItemsFetch' \in Items!Fetching
      BY <2>1, <2>2 DEF Items!Cached, Items!NoFetch, Items!Fetching
    <2>4. itemsRows' \in Seq(Items!Row) /\ itemsSeeded' \in Items!Items \cup {None}
          /\ itemsDirty' \in BOOLEAN
          /\ ItemsKnows' /\ ItemsShowsSeed'
      BY <2>1, <2>2, <2>3, ItemsSeedKeeps
    <2>5. Items!TypeOK'
      BY <2>2, <2>3, <2>4 DEF ItemsInv, Items!TypeOK
    <2>6. ItemsFinite' /\ ItemsOwnSave'
      BY <2>1, <2>2 DEF ItemsInv, ItemsFinite, ItemsOwnSave, Items!NoFetch
    <2> QED
      BY <2>4, <2>5, <2>6 DEF ItemsInv
  <1>4. CASE Items!Saved
    <2> DEFINE d == itemsSave.items
    <2>1. d \in Items!Items /\ IsFiniteSet(d)
      BY DEF ItemsInv, Items!TypeOK, ItemsFinite, Items!Save
    <2>2. /\ itemsItems' = [data |-> d, stale |-> FALSE] /\ itemsSave' = Items!NoSave
          /\ UNCHANGED <<itemsManaged, itemsTab, itemsStored, itemsItemsFetch, itemsExpanded,
                         itemsTyped>>
          /\ \/ Items!SeedPristine(d) /\ UNCHANGED itemsDirty
             \/ Items!Seed(d) /\ itemsDirty' = FALSE /\ itemsSave.own
             \/ /\ UNCHANGED <<itemsRows, itemsSeeded>> /\ itemsDirty' = FALSE
                /\ itemsSave.own /\ ~Items!NewIdentity
      BY <1>4 DEF Items!Saved
    <2>7. itemsSave.own /\ ~Items!NewIdentity => ~itemsManaged /\ itemsSeeded = {} /\ d = {}
      BY DEF ItemsInv, ItemsOwnSave, ItemsKnows, Items!NewIdentity
    <2> HIDE DEF d
    <2>3. itemsItems' \in Items!Cached /\ itemsItems'.data = d /\ itemsSave' \in Items!Save
          /\ IsFiniteSet(itemsSave'.items)
      BY <2>1, <2>2, FS_EmptySet DEF Items!Cached, Items!NoSave, Items!Save, Items!Items
    <2>4. itemsRows' \in Seq(Items!Row) /\ itemsSeeded' \in Items!Items \cup {None}
          /\ itemsDirty' \in BOOLEAN
          /\ ItemsKnows' /\ ItemsShowsSeed'
      BY <2>1, <2>2, <2>3, <2>7, ItemsSeedKeeps DEF ItemsInv, ItemsOwnSave
    <2>5. Items!TypeOK'
      BY <2>2, <2>3, <2>4 DEF ItemsInv, Items!TypeOK
    <2>6. ItemsFinite' /\ ItemsOwnSave'
      BY <2>1, <2>2, <2>3 DEF ItemsInv, ItemsFinite, ItemsOwnSave, Items!NoSave
    <2> QED
      BY <2>4, <2>5, <2>6 DEF ItemsInv
  <1>17. CASE Items!ItemsFail
    <2>1. itemsItemsFetch' \in Items!Fetching
      BY <1>17 DEF Items!ItemsFail, Items!Fetching, Items!NoFetch
    <2>2. Items!TypeOK'
      BY <1>17, <2>1 DEF ItemsInv, Items!TypeOK, Items!ItemsFail
    <2>3. ItemsFinite' /\ ItemsKnows' /\ ItemsShowsSeed' /\ ItemsOwnSave'
      BY <1>17 DEF ItemsInv, ItemsFinite, ItemsKnows, ItemsShowsSeed, ItemsOwnSave,
        Items!ItemsFail, Items!NoFetch
    <2> QED
      BY <2>2, <2>3 DEF ItemsInv
  <1>5. CASE Items!handleSave
    <2>1. itemsSave' \in Items!Save /\ IsFiniteSet(itemsSave'.items)
      BY <1>5, ItemsSavedItems DEF ItemsInv, Items!handleSave, Items!Save
    <2>2. Items!TypeOK'
      BY <1>5, <2>1 DEF ItemsInv, Items!TypeOK, Items!handleSave
    <2>3. ItemsFinite' /\ ItemsKnows' /\ ItemsShowsSeed' /\ ItemsOwnSave'
      BY <1>5, <2>1 DEF ItemsInv, ItemsFinite, ItemsKnows, ItemsShowsSeed, ItemsOwnSave,
        Items!Shown, Items!handleSave
    <2> QED
      BY <2>2, <2>3 DEF ItemsInv
  <1>6. CASE Items!SaveServed
    <2>1. itemsSave' \in Items!Save /\ itemsStored' \in Items!Items
          /\ itemsSave'.items = itemsSave.items /\ itemsSave'.own = itemsSave.own
      BY <1>6 DEF ItemsInv, Items!TypeOK, Items!SaveServed, Items!Save
    <2>2. Items!TypeOK'
      BY <1>6, <2>1 DEF ItemsInv, Items!TypeOK, Items!SaveServed
    <2>3. ItemsFinite' /\ ItemsKnows' /\ ItemsShowsSeed' /\ ItemsOwnSave'
      BY <1>6, <2>1 DEF ItemsInv, ItemsFinite, ItemsKnows, ItemsShowsSeed, ItemsOwnSave,
        Items!SaveServed
    <2> QED
      BY <2>2, <2>3 DEF ItemsInv
  <1>7. CASE Items!SaveFails
    <2>1. itemsSave' \in Items!Save /\ IsFiniteSet(itemsSave'.items)
      BY <1>7, FS_EmptySet DEF Items!SaveFails, Items!NoSave, Items!Save, Items!Items
    <2>2. Items!TypeOK'
      BY <1>7, <2>1 DEF ItemsInv, Items!TypeOK, Items!SaveFails
    <2>3. ItemsFinite' /\ ItemsKnows' /\ ItemsShowsSeed' /\ ItemsOwnSave'
      BY <1>7, <2>1 DEF ItemsInv, ItemsFinite, ItemsKnows, ItemsShowsSeed, ItemsOwnSave,
        Items!SaveFails, Items!NoSave
    <2> QED
      BY <2>2, <2>3 DEF ItemsInv
  <1>8. CASE Items!updateRow
    <2>1. itemsRows \in Seq(Items!Row) /\ itemsExpanded \in DOMAIN itemsRows
      BY <1>8 DEF ItemsInv, Items!TypeOK, Items!updateRow, Items!FieldsShown
    <2>2. itemsRows[itemsExpanded] \in Items!Row
      BY <2>1
    <2>3. [itemsRows[itemsExpanded] EXCEPT !.named = TRUE] \in Items!Row
      BY <2>2 DEF Items!Row
    <2>4. itemsRows' =
            [itemsRows EXCEPT ![itemsExpanded] = [itemsRows[itemsExpanded] EXCEPT !.named = TRUE]]
      BY <1>8 DEF Items!updateRow, Items!Edited
    <2>5. itemsRows' \in Seq(Items!Row)
      BY <2>1, <2>3, <2>4
    <2> QED
      BY <1>8, <2>5, ItemsEditKeeps DEF ItemsInv, Items!TypeOK, Items!updateRow, Items!Edited
  <1>9. CASE Items!removeRow
    <2>1. itemsRows' \in Seq(Items!Row)
      BY <1>9, ItemsRemoved DEF ItemsInv, Items!TypeOK, Items!removeRow, Items!Edited,
        Items!FieldsShown
    <2> QED
      BY <1>9, <2>1, ItemsEditKeeps DEF ItemsInv, Items!TypeOK, Items!removeRow, Items!Edited
  <1>10. CASE Items!editRemainder
    BY <1>10, ItemsEditKeeps DEF ItemsInv, Items!TypeOK, Items!editRemainder
  <1>11. ASSUME NEW n \in Lines, Items!handleAdd(n)
         PROVE  ItemsInv'
    <2>1. itemsRows' \in Seq(Items!Row) /\ itemsExpanded' \in Nat /\ itemsTyped' \subseteq Lines
      BY <1>11 DEF ItemsInv, Items!TypeOK, Items!Row, Items!handleAdd, Items!Edited
    <2> QED
      BY <1>11, <2>1, ItemsEditKeeps DEF Items!handleAdd, Items!Edited
  <1>12. ASSUME NEW i \in DOMAIN itemsRows, Items!toggle(i)
         PROVE  ItemsInv'
    <2>1. itemsExpanded' \in Nat
      BY <1>12 DEF ItemsInv, Items!TypeOK, Items!toggle
    <2>2. Items!TypeOK'
      BY <1>12, <2>1 DEF ItemsInv, Items!TypeOK, Items!toggle, Items!TableKeeps
    <2>3. ItemsFinite' /\ ItemsKnows' /\ ItemsShowsSeed' /\ ItemsOwnSave'
      BY <1>12 DEF ItemsInv, ItemsFinite, ItemsKnows, ItemsShowsSeed, ItemsOwnSave, Items!toggle,
        Items!TableKeeps
    <2> QED
      BY <2>2, <2>3 DEF ItemsInv
  <1>13. ASSUME NEW i \in DOMAIN itemsRows, Items!move(i)
         PROVE  ItemsInv'
    <2>1. itemsRows' \in Seq(Items!Row) /\ itemsExpanded' \in Nat
      BY <1>13 DEF ItemsInv, Items!TypeOK, Items!move, Items!Edited, Items!FieldsShown
    <2> QED
      BY <1>13, <2>1, ItemsEditKeeps DEF ItemsInv, Items!TypeOK, Items!move, Items!Edited
  <1>14. ASSUME NEW r \in ReadLines, Items!AutoFill(r)
         PROVE  ItemsInv'
    <2>1. itemsStored' \in Items!Items /\ IsFiniteSet(itemsStored')
      BY <1>14, FS_Singleton DEF Items!AutoFill, Items!Items
    <2>2. Items!TypeOK'
      BY <1>14, <2>1 DEF ItemsInv, Items!TypeOK, Items!AutoFill, Items!tableVars
    <2>3. ItemsFinite' /\ ItemsKnows' /\ ItemsShowsSeed' /\ ItemsOwnSave'
      BY <1>14, <2>1 DEF ItemsInv, ItemsFinite, ItemsKnows, ItemsShowsSeed, ItemsOwnSave,
        Items!AutoFill, Items!tableVars
    <2> QED
      BY <2>2, <2>3 DEF ItemsInv
  <1>15. ASSUME NEW r \in ReadLines, Items!Reviewed(r, TRUE) \/ Items!Reviewed(r, FALSE)
         PROVE  ItemsInv'
    <2>1. itemsStored' \in Items!Items /\ IsFiniteSet(itemsStored')
      <3>1. IsFiniteSet({r}) /\ IsFiniteSet({r} \cup itemsStored) /\ itemsStored \in Items!Items
        BY FS_Singleton, FS_Union DEF ItemsInv, Items!TypeOK, ItemsFinite
      <3>2. itemsStored' = {r} \cup itemsStored \/ itemsStored' = {r}
        BY <1>15 DEF Items!Reviewed
      <3> QED
        BY <3>1, <3>2 DEF Items!Items
    <2>2. /\ itemsItems' = [itemsItems EXCEPT !.stale = TRUE] /\ itemsTab = "receipts"
          /\ UNCHANGED <<itemsManaged, itemsTab, itemsItemsFetch, itemsSave, Items!tableVars>>
      BY <1>15 DEF Items!Reviewed
    <2>3. itemsItems' \in Items!Cached /\ itemsItems'.data = itemsItems.data
      BY <2>2 DEF ItemsInv, Items!TypeOK, Items!Cached
    <2>5. Items!TypeOK'
      BY <2>1, <2>2, <2>3 DEF ItemsInv, Items!TypeOK, Items!tableVars
    <2>6. ItemsFinite' /\ ItemsKnows' /\ ItemsShowsSeed' /\ ItemsOwnSave'
      BY <2>1, <2>2, <2>3 DEF ItemsInv, ItemsFinite, ItemsKnows, ItemsShowsSeed, ItemsOwnSave,
        Items!tableVars
    <2> QED
      BY <2>5, <2>6 DEF ItemsInv
  <1>16. CASE UNCHANGED Items!vars
    BY <1>16 DEF ItemsInv, Items!TypeOK, ItemsFinite, ItemsKnows, ItemsShowsSeed, ItemsOwnSave,
      Items!vars, Items!tableVars
  <1> QED
    BY <1>1, <1>2, <1>3, <1>4, <1>5, <1>6, <1>7, <1>8, <1>9, <1>10, <1>11, <1>12,
       <1>13, <1>14, <1>15, <1>16, <1>17 DEF Items!Next, Items!Table

-----------------------------------------------------------------------------
(* What follows.                                                           *)

\* It says what an unedited table shows.
LEMMA ItemsPristine ==
  ASSUME ItemsInv
  PROVE  Items!PristineShows
  BY DEF ItemsInv, ItemsKnows, ItemsShowsSeed, Items!PristineShows, Items!Unedited,
    Items!ShowsCache

\* A row is there after a step if it is there at some place.
ItemsStay == \A i \in DOMAIN itemsRows : \E j \in DOMAIN itemsRows' : itemsRows'[j].line =
  itemsRows[i].line

\* A row leaves an edited table by its button, or with the answer to its save.
LEMMA ItemsRowsStay ==
  ASSUME ItemsInv, Items!Next \/ UNCHANGED Items!vars
  PROVE  Items!EditedRowsStay
  <1> SUFFICES ASSUME itemsTab = "items", itemsTab' = "items", itemsDirty,
                      ~(itemsSave.own /\ Items!Answered)
               PROVE  \A i \in DOMAIN itemsRows :
                        \/ \E j \in DOMAIN itemsRows' : itemsRows'[j].line = itemsRows[i].line
                        \/ itemsDirty' /\ itemsRows' = Items!Without(itemsRows, i)
    BY DEF Items!EditedRowsStay
  <1> DEFINE Goal == \A i \in DOMAIN itemsRows :
                       \/ \E j \in DOMAIN itemsRows' : itemsRows'[j].line = itemsRows[i].line
                       \/ itemsDirty' /\ itemsRows' = Items!Without(itemsRows, i)
  <1>1. itemsRows \in Seq(Items!Row) /\ DOMAIN itemsRows = 1..Len(itemsRows)
    BY DEF ItemsInv, Items!TypeOK
  <1>2. ASSUME ItemsStay
        PROVE  Goal
    BY <1>2 DEF ItemsStay
  <1>3. ASSUME UNCHANGED itemsRows
        PROVE  Goal
    BY <1>3
  <1>4. CASE Items!updateRow
    <2>1. itemsExpanded \in DOMAIN itemsRows
          /\ itemsRows' = [itemsRows EXCEPT ![itemsExpanded].named = TRUE]
      BY <1>4 DEF Items!updateRow, Items!Edited, Items!FieldsShown
    <2>2. itemsRows[itemsExpanded] \in Items!Row
      BY <1>1, <2>1
    <2>3. \A i \in DOMAIN itemsRows : i \in DOMAIN itemsRows' /\ itemsRows'[i].line = itemsRows[i].line
      BY <1>1, <2>1, <2>2 DEF Items!Row
    <2> QED
      BY <1>2, <2>3 DEF ItemsStay
  <1>5. CASE Items!removeRow
    <2>1. itemsExpanded \in 1..Len(itemsRows)
          /\ itemsRows' = Items!Without(itemsRows, itemsExpanded) /\ itemsDirty'
      BY <1>1, <1>5 DEF Items!removeRow, Items!Edited, Items!FieldsShown
    <2>2. \A i \in 1..Len(itemsRows) : i # itemsExpanded =>
            \E j \in DOMAIN itemsRows' : itemsRows'[j] = itemsRows[i]
      BY <1>1, <2>1, ItemsRemoved
    <2> QED
      BY <1>1, <2>1, <2>2
  <1>6. ASSUME NEW n \in Lines, Items!handleAdd(n)
        PROVE  Goal
    <2>1. itemsRows' = Append(itemsRows, [line |-> n, named |-> FALSE])
      BY <1>6 DEF Items!handleAdd, Items!Edited
    <2>2. \A i \in DOMAIN itemsRows : i \in DOMAIN itemsRows' /\ itemsRows'[i] = itemsRows[i]
      BY <1>1, <2>1
    <2> QED
      BY <1>2, <2>2 DEF ItemsStay
  <1>7. ASSUME NEW j \in DOMAIN itemsRows, Items!move(j)
        PROVE  Goal
    <2>1. /\ itemsExpanded \in DOMAIN itemsRows
          /\ itemsRows' =
               [itemsRows EXCEPT ![itemsExpanded] = itemsRows[j], ![j] = itemsRows[itemsExpanded]]
      BY <1>7 DEF Items!move, Items!Edited, Items!FieldsShown
    <2>2. DOMAIN itemsRows' = DOMAIN itemsRows
      BY <2>1
    <2>3. itemsRows'[j] = itemsRows[itemsExpanded]
      BY <1>1, <2>1
    <2>4. itemsRows'[itemsExpanded] = IF itemsExpanded =
            j THEN itemsRows[itemsExpanded] ELSE itemsRows[j]
      BY <1>1, <2>1
    <2>5. \A i \in DOMAIN itemsRows : i \notin {itemsExpanded, j} => itemsRows'[i] = itemsRows[i]
      BY <1>1, <2>1
    <2>6. ItemsStay
      BY <2>1, <2>2, <2>3, <2>4, <2>5 DEF ItemsStay
    <2> QED
      BY <1>2, <2>6
  <1>8. CASE Items!ItemsArrive
    BY <1>3, <1>8 DEF Items!ItemsArrive, Items!SeedPristine
  <1>9. CASE Items!Saved
    <2>1. ~itemsSave.own
      BY <1>9 DEF Items!Answered, Items!Saved, Items!NoSave
    <2> QED
      BY <1>3, <1>9, <2>1 DEF Items!Saved, Items!SeedPristine
  <1>10. CASE \E t \in {"items", "receipts"} : Items!setDetailTab(t)
    BY <1>10 DEF Items!setDetailTab
  <1>11. CASE Items!editRemainder \/ (\E i \in DOMAIN itemsRows : Items!toggle(i))
    BY <1>3, <1>11 DEF Items!editRemainder, Items!toggle
  <1>12. CASE Items!ItemsServed \/ Items!ItemsFail \/ Items!handleSave \/ Items!SaveServed \/ Items!SaveFails
           \/ UNCHANGED Items!vars
    BY <1>3, <1>12 DEF Items!ItemsServed, Items!ItemsFail, Items!handleSave, Items!SaveServed,
      Items!SaveFails, Items!vars, Items!tableVars
  <1>13. CASE \E r \in ReadLines : Items!AutoFill(r) \/ Items!Reviewed(r, TRUE)
           \/ Items!Reviewed(r, FALSE)
    BY <1>3, <1>13 DEF Items!AutoFill, Items!Reviewed, Items!tableVars
  <1> QED
    BY <1>4, <1>5, <1>6, <1>7, <1>8, <1>9, <1>10, <1>11, <1>12, <1>13 DEF Items!Next, Items!Table

\* A step while this page is followed is a step of the page, or leaves it alone.
LEMMA ItemsFrame ==
  ASSUME page = "items", Next \/ UNCHANGED vars
  PROVE  page' = "items" /\ (Items!Next \/ UNCHANGED Items!vars)
  BY DEF Next, vars, EntryNext, ItemsNext, BoardNext, RowsNext, TransfersNext,
    MembersNext, FormNext, ListsNext, PanelNext, MarksNext, DefaultsNext, itemsVars,
    Items!vars, Items!tableVars

-----------------------------------------------------------------------------
(***************************************************************************)
(* The transfers page (TransferForm).                                      *)
(***************************************************************************)

\* The first and the last of some numbers are among them.
LEMMA TransfersFirstOf ==
  ASSUME Transfers!TransferFormAssumption, NEW S \in SUBSET Accounts, S # {}
  PROVE  Transfers!First(S) \in S /\ Transfers!Last(S) \in S
  <1> IsFiniteSet(Accounts)
    BY DEF Transfers!TransferFormAssumption, Transfers!IsFiniteSet, IsFiniteSet
  <1>1. S \in SUBSET Nat /\ IsFiniteSet(S)
    BY FS_Subset DEF Transfers!TransferFormAssumption
  <1>2. Transfers!First(S) \in S
    BY <1>1, LeastNumber DEF Transfers!First
  <1>3. Transfers!Last(S) \in S
    BY <1>1, GreatestNumber DEF Transfers!Last
  <1> QED
    BY <1>2, <1>3

\* The number of elements the module TransferForm counts is the usual one.
LEMMA TransfersCounting == \A S : Transfers!Cardinality(S) = Cardinality(S)
  BY DEF Transfers!Cardinality, Cardinality

\* A text that is there makes the empty one be there.
LEMMA TransfersEmptyText ==
  ASSUME Transfers!TransferFormAssumption, Texts # {}
  PROVE  Transfers!Empty \in Texts
  <1>1. Texts \in SUBSET Nat
    BY DEF Transfers!TransferFormAssumption
  <1> QED
    BY <1>1, LeastNumber DEF Transfers!Empty

\* A derived pair is of the accounts that are there.
LEMMA TransfersDerivedPair ==
  ASSUME Transfers!TransferFormAssumption, NEW S \in SUBSET Accounts
  PROVE  /\ Transfers!deriveDefaultPair(S)[1] \in Accounts \cup {None}
         /\ Transfers!deriveDefaultPair(S)[2] \in Accounts \cup {None}
  <1>1. Transfers!Cardinality(S) = 2 => S # {}
    BY TransfersCounting, FS_EmptySet
  <1>2. Transfers!Cardinality(S) = 2 =>
          Transfers!First(S) \in Accounts /\ Transfers!Last(S) \in Accounts
    BY <1>1, TransfersFirstOf
  <1> DEFINE from == IF transfersLastPair # None
        /\ transfersLastPair[1] \in S THEN transfersLastPair[1] ELSE None
             to == IF transfersLastPair # None
               /\ transfersLastPair[2] \in S THEN transfersLastPair[2] ELSE None
  <1>3. from \in Accounts \cup {None} /\ to \in Accounts \cup {None}
    OBVIOUS
  <1>4. Transfers!deriveDefaultPair(S) =
          IF from = None /\ to = None
            /\ Transfers!Cardinality(S) =
                 2 THEN <<Transfers!First(S), Transfers!Last(S)>> ELSE <<from, to>>
    BY DEF Transfers!deriveDefaultPair
  <1> HIDE DEF from, to
  <1> QED
    BY <1>2, <1>3, <1>4

\* There are texts, whatever was done to the transfer.
TransfersInv == Transfers!TypeOK /\ Texts # {}

\* A form that was seeded has its type.
LEMMA TransfersSeeded ==
  ASSUME Transfers!TransferFormAssumption, Texts # {}, NEW S \in SUBSET Accounts,
         NEW source \in Transfers!Transfer \cup {None}
  PROVE  Transfers!Seed(source, S) \in Transfers!Form
  <1>1. Transfers!Empty \in Texts
    BY TransfersEmptyText
  <1>2. CASE source # None
    BY <1>1, <1>2 DEF Transfers!Seed, Transfers!Transfer, Transfers!Form
  <1>3. CASE source = None
    BY <1>1, <1>3, TransfersDerivedPair DEF Transfers!Seed, Transfers!Form
  <1> QED
    BY <1>2, <1>3

\* What rendering the form that makes transfers leaves of its variables.
LEMMA TransfersRendered ==
  ASSUME Transfers!TransferFormAssumption, TransfersInv, NEW isOpen \in BOOLEAN,
         NEW source \in Transfers!Transfer \cup {None}, Transfers!Render(isOpen, source)
  PROVE  /\ transfersOpen' \in BOOLEAN /\ transfersRepeatFrom' \in Transfers!Transfer \cup {None}
         /\ transfersForm' \in Transfers!Form /\ transfersSession' \in Transfers!Session
         /\ transfersSession' = [open |-> transfersOpen', source |-> transfersRepeatFrom']
  <1>1. transfersAccounts \in SUBSET Accounts /\ transfersForm \in Transfers!Form
    BY DEF TransfersInv, Transfers!TypeOK
  <1>2. Transfers!Seed(source, transfersAccounts) \in Transfers!Form
    BY <1>1, TransfersSeeded DEF TransfersInv
  <1>3. transfersForm' \in Transfers!Form
    BY <1>1, <1>2 DEF Transfers!Render
  <1>4. transfersSession' \in Transfers!Session
    BY DEF Transfers!Render, Transfers!Session
  <1> QED
    BY <1>3, <1>4 DEF Transfers!Render

\* So has the form that a detail mounts.
LEMMA TransfersMounting ==
  ASSUME TransfersInv, NEW isEditing, NEW d \in Transfers!Transfer \cup {None}
  PROVE  Transfers!Mounted(isEditing, d) \in [fields : Transfers!Form, source : Transfers!Transfer] \cup {None}
  <1>1. d \in Transfers!Transfer =>
          [fields |-> d, source |-> d] \in [fields : Transfers!Form, source : Transfers!Transfer]
    BY DEF Transfers!Transfer, Transfers!Form
  <1> QED
    BY <1>1 DEF TransfersInv, Transfers!TypeOK, Transfers!Mounted

\* The invariant of the transfers page holds as it is entered.
LEMMA TransfersInitInv ==
  ASSUME Transfers!TransferFormAssumption, Transfers!Init
  PROVE  TransfersInv
  <1>1. PICK t \in Transfers!Transfer : transfersTransfer = t
    BY DEF Transfers!Init
  <1>2. t.from \in Accounts /\ t.text \in Texts
    BY <1>1 DEF Transfers!Transfer
  <1>3. Transfers!Empty \in Texts /\ Texts # {}
    BY <1>2, TransfersEmptyText
  <1>4. Transfers!First(Accounts) \in Accounts /\ Transfers!Last(Accounts) \in Accounts
    BY <1>2, TransfersFirstOf
  <1>5. transfersLastPair \in Transfers!Pair \cup {None}
    BY <1>4 DEF Transfers!Init, Transfers!Pair
  <1>6. transfersForm \in Transfers!Form /\ transfersSession \in Transfers!Session
    BY <1>3 DEF Transfers!Init, Transfers!Form, Transfers!Session
  <1>7. transfersSeededLen = Transfers!Cardinality(transfersAccounts)
    BY TransfersCounting, FS_EmptySet DEF Transfers!Init
  <1>8. transfersMoves \in 0..(MaxMoves + 1)
    BY DEF Transfers!Init, Transfers!TransferFormAssumption
  <1>9. Transfers!TypeOK
    BY <1>1, <1>5, <1>6, <1>7, <1>8 DEF Transfers!Init, Transfers!TypeOK
  <1> QED
    BY <1>3, <1>9 DEF TransfersInv

\* The user's moves are counted.
LEMMA TransfersMoved ==
  ASSUME Transfers!TransferFormAssumption, TransfersInv, Transfers!Move
  PROVE  transfersMoves' \in 0..(MaxMoves + 1)
  BY DEF Transfers!TransferFormAssumption, TransfersInv, Transfers!TypeOK, Transfers!Move

\* Every step keeps it.
LEMMA TransfersStepInv ==
  ASSUME Transfers!TransferFormAssumption, TransfersInv, Transfers!Next \/ UNCHANGED Transfers!vars
  PROVE  TransfersInv'
  <1> SUFFICES Transfers!TypeOK'
    BY DEF TransfersInv
  <1> USE DEF Transfers!queries, Transfers!createForm
  <1>1. ASSUME NEW S \in SUBSET Accounts, Transfers!AccountsArrive(S)
        PROVE  Transfers!TypeOK'
    <2> DEFINE from == Transfers!deriveDefaultPair(S)[1]
               to == Transfers!deriveDefaultPair(S)[2]
    <2>1. from \in Accounts \cup {None} /\ to \in Accounts \cup {None}
      BY TransfersDerivedPair
    <2>2. transfersForm' = transfersForm
            \/ transfersForm' = [transfersForm EXCEPT !.from = from, !.to = to]
      BY <1>1 DEF Transfers!AccountsArrive
    <2> HIDE DEF from, to
    <2>3. transfersForm' \in Transfers!Form
      BY <2>1, <2>2 DEF TransfersInv, Transfers!TypeOK, Transfers!Form
    <2> QED
      BY <1>1, <2>3 DEF TransfersInv, Transfers!TypeOK, Transfers!AccountsArrive
  <1>2. CASE Transfers!FetchList
    BY <1>2 DEF TransfersInv, Transfers!TypeOK, Transfers!FetchList
  <1>3. CASE Transfers!FetchDetail
    <2>1. transfersTransfer \in Transfers!Transfer \cup {None}
      BY DEF TransfersInv, Transfers!TypeOK
    <2>2. transfersEdit' \in [fields : Transfers!Form, source : Transfers!Transfer] \cup {None}
      BY <1>3, <2>1, TransfersMounting DEF Transfers!FetchDetail
    <2> QED
      BY <1>3, <2>2 DEF TransfersInv, Transfers!TypeOK, Transfers!FetchDetail
  <1>4. ASSUME NEW isOpen \in BOOLEAN, NEW source \in Transfers!Transfer \cup {None},
               Transfers!Render(isOpen, source), Transfers!Move,
               UNCHANGED <<transfersAccounts, transfersTransfer, Transfers!queries,
                           transfersSeededLen, transfersSaving, transfersLastPair,
                           transfersRecorded>>,
               transfersEditing' \in BOOLEAN,
               transfersEdit' \in [fields : Transfers!Form, source : Transfers!Transfer] \cup {None},
               transfersDeleting' \in Transfers!Transfer \cup {None}
        PROVE  Transfers!TypeOK'
    <2>1. /\ transfersOpen' \in BOOLEAN /\ transfersRepeatFrom' \in Transfers!Transfer \cup {None}
          /\ transfersForm' \in Transfers!Form /\ transfersSession' \in Transfers!Session
          /\ transfersSession' = [open |-> transfersOpen', source |-> transfersRepeatFrom']
      BY <1>4, TransfersRendered
    <2>2. transfersMoves' \in 0..(MaxMoves + 1)
      BY <1>4, TransfersMoved
    <2> QED
      BY <1>4, <2>1, <2>2 DEF TransfersInv, Transfers!TypeOK
  <1>5. /\ transfersRow \in Transfers!Transfer \cup {None}
        /\ transfersRepeatFrom \in Transfers!Transfer \cup {None}
        /\ transfersEditing \in BOOLEAN /\ transfersDeleting \in Transfers!Transfer \cup {None}
        /\ transfersEdit \in [fields : Transfers!Form, source : Transfers!Transfer] \cup {None}
    BY DEF TransfersInv, Transfers!TypeOK
  <1>6. CASE Transfers!openCreate \/ Transfers!openRepeat \/ Transfers!close
    <2>1. CASE Transfers!openCreate
      BY <1>4, <1>5, <2>1 DEF Transfers!openCreate
    <2>2. CASE Transfers!openRepeat
      BY <1>4, <1>5, <2>2 DEF Transfers!openRepeat
    <2>3. CASE Transfers!close
      BY <1>4, <1>5, <2>3 DEF Transfers!close
    <2> QED
      BY <1>6, <2>1, <2>2, <2>3
  <1>7. CASE Transfers!setEditingId
    <2>1. transfersDetail \in Transfers!Transfer \cup {None}
      BY DEF TransfersInv, Transfers!TypeOK
    <2>2. transfersEdit' \in [fields : Transfers!Form, source : Transfers!Transfer] \cup {None}
      BY <1>7, <2>1, TransfersMounting DEF Transfers!setEditingId
    <2>3. transfersMoves' \in 0..(MaxMoves + 1)
      BY <1>7, TransfersMoved DEF Transfers!setEditingId
    <2> QED
      BY <1>7, <2>2, <2>3 DEF TransfersInv, Transfers!TypeOK, Transfers!setEditingId
  <1>8. CASE Transfers!setDeleting
    <2>1. transfersMoves' \in 0..(MaxMoves + 1)
      BY <1>8, TransfersMoved DEF Transfers!setDeleting
    <2> QED
      BY <1>8, <2>1 DEF TransfersInv, Transfers!TypeOK, Transfers!setDeleting
  <1>9. ASSUME NEW f \in Transfers!Touched(IF transfersEdit # None THEN transfersEdit.fields ELSE transfersForm), Transfers!setField(f)
        PROVE  Transfers!TypeOK'
    <2>1. PICK g \in Transfers!Form : f \in Transfers!Touched(g)
      BY <1>9 DEF TransfersInv, Transfers!TypeOK
    <2>2. transfersAccounts \subseteq Accounts
      BY DEF TransfersInv, Transfers!TypeOK
    <2>3. f \in Transfers!Form
      BY <2>1, <2>2 DEF Transfers!Touched, Transfers!Form
    <2>4. transfersMoves' \in 0..(MaxMoves + 1)
      BY <1>9, TransfersMoved DEF Transfers!setField
    <2>5. transfersForm' \in Transfers!Form
          /\ transfersEdit' \in [fields : Transfers!Form, source : Transfers!Transfer] \cup {None}
      <3>1. CASE transfersOpen /\ transfersForm' = f /\ UNCHANGED transfersEdit
        BY <1>5, <2>3, <3>1
      <3>2. CASE transfersEdit # None /\ transfersEdit' = [transfersEdit EXCEPT !.fields = f]
            /\ UNCHANGED transfersForm
        BY <1>5, <2>3, <3>2 DEF TransfersInv, Transfers!TypeOK
      <3> QED
        BY <1>9, <3>1, <3>2 DEF Transfers!setField
    <2> QED
      BY <1>9, <2>4, <2>5 DEF TransfersInv, Transfers!TypeOK, Transfers!setField
  <1>10. CASE Transfers!handleSubmit
    <2>1. PICK which \in {"create", "edit"}, f \in Transfers!Form :
             Transfers!Complete(f)
             /\ transfersSaving' = transfersSaving \cup {[form |-> which, put |-> f, phase |-> "sent"]}
      BY <1>5, <1>10 DEF TransfersInv, Transfers!TypeOK, Transfers!handleSubmit
    <2>2. f \in Transfers!Transfer
      BY <2>1 DEF Transfers!Complete, Transfers!Form, Transfers!Transfer
    <2>3. [form |-> which, put |-> f, phase |-> "sent"] \in Transfers!Saving
      BY <2>2 DEF Transfers!Saving
    <2>4. transfersSaving' \subseteq Transfers!Saving
      BY <2>1, <2>3 DEF TransfersInv, Transfers!TypeOK
    <2>5. transfersMoves' \in 0..(MaxMoves + 1)
      BY <1>10, TransfersMoved DEF Transfers!handleSubmit
    <2> QED
      BY <1>10, <2>4, <2>5 DEF TransfersInv, Transfers!TypeOK, Transfers!handleSubmit
  <1>11. ASSUME NEW served \in BOOLEAN, Transfers!deleteTransfer(served)
         PROVE  Transfers!TypeOK'
    <2>1. transfersMoves' \in 0..(MaxMoves + 1)
      BY <1>11, TransfersMoved DEF Transfers!deleteTransfer
    <2> QED
      BY <1>11, <2>1 DEF TransfersInv, Transfers!TypeOK, Transfers!deleteTransfer
  <1>12. ASSUME NEW s \in transfersSaving
         PROVE  /\ s \in Transfers!Saving /\ s.put \in Transfers!Transfer
                /\ <<s.put.from, s.put.to>> \in Transfers!Pair
                /\ \A p \in {"ok", "error"} : [s EXCEPT !.phase = p] \in Transfers!Saving
    BY DEF TransfersInv, Transfers!TypeOK, Transfers!Saving, Transfers!Transfer, Transfers!Pair
  <1>13. ASSUME NEW s \in transfersSaving, Transfers!Serve(s)
         PROVE  Transfers!TypeOK'
    <2>1. transfersSaving' \subseteq Transfers!Saving
      BY <1>12, <1>13 DEF TransfersInv, Transfers!TypeOK, Transfers!Serve, Transfers!Phase
    <2>2. transfersTransfer' \in Transfers!Transfer \cup {None}
          /\ transfersRecorded' \in Transfers!Pair \cup {None}
      BY <1>12, <1>13 DEF TransfersInv, Transfers!TypeOK, Transfers!Serve
    <2> QED
      BY <1>13, <2>1, <2>2 DEF TransfersInv, Transfers!TypeOK, Transfers!Serve
  <1>14. ASSUME NEW s \in transfersSaving, Transfers!Fail(s)
         PROVE  Transfers!TypeOK'
    <2>1. transfersSaving' \subseteq Transfers!Saving
      BY <1>12, <1>14 DEF TransfersInv, Transfers!TypeOK, Transfers!Fail, Transfers!Phase
    <2> QED
      BY <1>14, <2>1 DEF TransfersInv, Transfers!TypeOK, Transfers!Fail
  <1>15. ASSUME NEW s \in transfersSaving, Transfers!Settle(s)
         PROVE  Transfers!TypeOK'
    <2>1. CASE s.phase = "error"
      BY <1>15, <2>1 DEF TransfersInv, Transfers!TypeOK, Transfers!Settle
    <2>2. CASE s.phase # "error"
      <3>1. transfersLastPair' \in Transfers!Pair \cup {None}
        <4>1. <<transfersForm.from, transfersForm.to>> \in Transfers!Pair
          BY DEF TransfersInv, Transfers!TypeOK, Transfers!Form, Transfers!Pair
        <4>2. transfersLastPair' = <<transfersForm.from, transfersForm.to>>
                \/ transfersLastPair' = transfersLastPair
          BY <1>15, <2>2 DEF Transfers!Settle, Transfers!Recorded
        <4> QED
          BY <4>1, <4>2 DEF TransfersInv, Transfers!TypeOK
      <3>2. CASE s.form = "create"
        <4>1. Transfers!Render(FALSE, transfersRepeatFrom) /\ UNCHANGED <<transfersEditing,
                                                                          transfersEdit>>
          BY <1>15, <2>2, <3>2 DEF Transfers!Settle
        <4>2. /\ transfersOpen' \in BOOLEAN
              /\ transfersRepeatFrom' \in Transfers!Transfer \cup {None}
              /\ transfersForm' \in Transfers!Form /\ transfersSession' \in Transfers!Session
              /\ transfersSession' = [open |-> transfersOpen', source |-> transfersRepeatFrom']
          BY <1>5, <4>1, TransfersRendered
        <4> QED
          BY <1>15, <2>2, <3>1, <4>1, <4>2 DEF TransfersInv, Transfers!TypeOK, Transfers!Settle
      <3>3. CASE s.form # "create"
        BY <1>15, <2>2, <3>1, <3>3 DEF TransfersInv, Transfers!TypeOK, Transfers!Settle
      <3> QED
        BY <3>2, <3>3
    <2> QED
      BY <2>1, <2>2
  <1>16. CASE UNCHANGED Transfers!vars
    BY <1>16 DEF TransfersInv, Transfers!TypeOK, Transfers!vars
  <1> QED
    BY <1>1, <1>2, <1>3, <1>6, <1>7, <1>8, <1>9, <1>10, <1>11, <1>13, <1>14, <1>15,
       <1>16 DEF Transfers!Next

\* Only accounts that arrive change the accounts; they fill in an empty pair.
LEMMA TransfersTyping ==
  ASSUME TransfersInv, Transfers!Next \/ UNCHANGED Transfers!vars
  PROVE  Transfers!TypedSurvives
  <1> SUFFICES ASSUME transfersAccounts' # transfersAccounts
               PROVE  /\ transfersForm.from # None => transfersForm'.from = transfersForm.from
                      /\ transfersForm.to # None => transfersForm'.to = transfersForm.to
                      /\ transfersForm'.text = transfersForm.text /\ transfersEdit' = transfersEdit
    BY DEF Transfers!TypedSurvives
  <1>1. ASSUME NEW S \in SUBSET Accounts, Transfers!AccountsArrive(S)
        PROVE  /\ transfersForm.from # None => transfersForm'.from = transfersForm.from
               /\ transfersForm.to # None => transfersForm'.to = transfersForm.to
               /\ transfersForm'.text = transfersForm.text /\ transfersEdit' = transfersEdit
    BY <1>1 DEF TransfersInv, Transfers!TypeOK, Transfers!Form, Transfers!AccountsArrive,
      Transfers!Untouched
  <1>2. CASE Transfers!FetchList \/ Transfers!FetchDetail \/ Transfers!openCreate
          \/ Transfers!openRepeat \/ Transfers!setEditingId
    BY <1>2 DEF Transfers!FetchList, Transfers!FetchDetail, Transfers!openCreate,
      Transfers!openRepeat, Transfers!setEditingId
  <1>3. CASE Transfers!setDeleting \/ Transfers!close \/ Transfers!handleSubmit
          \/ (\E served \in BOOLEAN : Transfers!deleteTransfer(served))
    BY <1>3 DEF Transfers!setDeleting, Transfers!close, Transfers!handleSubmit,
      Transfers!deleteTransfer
  <1>4. CASE \E f \in Transfers!Touched(IF transfersEdit # None THEN transfersEdit.fields ELSE transfersForm) : Transfers!setField(f)
    BY <1>4 DEF Transfers!setField
  <1>5. CASE \E s \in transfersSaving : Transfers!Serve(s) \/ Transfers!Fail(s) \/ Transfers!Settle(s)
    BY <1>5 DEF Transfers!Serve, Transfers!Fail, Transfers!Settle
  <1>6. CASE UNCHANGED Transfers!vars
    BY <1>6 DEF Transfers!vars
  <1> QED
    BY <1>1, <1>2, <1>3, <1>4, <1>5, <1>6 DEF Transfers!Next

\* A step while this page is followed is a step of the page, or leaves it alone.
LEMMA TransfersFrame ==
  ASSUME page = "transfers", Next \/ UNCHANGED vars
  PROVE  page' = "transfers" /\ (Transfers!Next \/ UNCHANGED Transfers!vars)
  BY DEF Next, vars, EntryNext, ItemsNext, BoardNext, RowsNext, TransfersNext,
    MembersNext, FormNext, ListsNext, PanelNext, MarksNext, DefaultsNext,
    transfersVars, Transfers!vars, Transfers!queries, Transfers!createForm

-----------------------------------------------------------------------------
(***************************************************************************)
(* The default views (DefaultsPanel).                                      *)
(***************************************************************************)

\* What waits for a save waits for one that is on its way.
DefaultsWaitsForSent == defaultsPanel # None /\ defaultsPanel.waits # 0 =>
  defaultsPanel.waits \in Defaults!Sent

\* A save was written and is not answered: its answer fetches the settings again.
DefaultsWritten == \E n \in Defaults!Saves : defaultsRequests[n] # None
  /\ defaultsRequests[n].phase = "ok"

\* The query knows what the server has, or will.
DefaultsCatches ==
  defaultsData # None /\ defaultsData # defaultsStored =>
    defaultsStale
      \/ (defaultsFetch # None /\ (defaultsFetch.answer = None \/ defaultsFetch.answer = defaultsStored)) \/ DefaultsWritten

DefaultsFetchCatches == defaultsFetch # None /\ defaultsFetch.answer # None
  /\ defaultsFetch.answer # defaultsStored => DefaultsWritten

\* The saves of moves to come are not sent.
DefaultsUnsent == \A n \in Defaults!Saves : n > defaultsSaves => defaultsRequests[n] = None

\* A save that was read holds what the server had.
DefaultsReadKnown ==
  \A n \in Defaults!Saves : defaultsRequests[n] # None /\ defaultsRequests[n].phase = "read" =>
    defaultsRequests[n].read \in Defaults!Settings

DefaultsInv == Defaults!TypeOK /\ DefaultsWaitsForSent /\ DefaultsUnsent /\ DefaultsReadKnown
  /\ (~defaultsBlind => DefaultsCatches /\ DefaultsFetchCatches)

-----------------------------------------------------------------------------
\* The invariant of the default views holds at the start.
LEMMA DefaultsInitInv ==
  ASSUME Defaults!DefaultsPanelAssumption, Defaults!Init
  PROVE  DefaultsInv
  <1>1. defaultsRequests \in [Defaults!Saves -> Defaults!Request \cup {None}]
    BY DEF Defaults!Init
  <1>2. Defaults!TypeOK
    <2>1. defaultsBlind \in BOOLEAN /\ defaultsStale \in BOOLEAN
      BY DEF Defaults!Init
    <2>2. defaultsWaits \in 0..MaxSaves /\ defaultsSaves \in 0..MaxSaves
      BY DEF Defaults!Init, Defaults!DefaultsPanelAssumption
    <2> QED
      BY <1>1, <2>1, <2>2 DEF Defaults!Init, Defaults!TypeOK
  <1> QED
    BY <1>2 DEF Defaults!Init, DefaultsInv, DefaultsWaitsForSent, DefaultsCatches,
      DefaultsFetchCatches, DefaultsUnsent, DefaultsReadKnown

\* The types of the variables, to be cited at once.
LEMMA DefaultsFacts ==
  ASSUME Defaults!DefaultsPanelAssumption, DefaultsInv
  PROVE  /\ defaultsStored \in Defaults!Settings /\ defaultsData \in Defaults!Settings \cup {None}
         /\ defaultsFetch \in Defaults!Fetch \cup {None} /\ defaultsStale \in BOOLEAN
         /\ defaultsPanel \in Defaults!Panel \cup {None} /\ defaultsWaits \in 0..MaxSaves
         /\ defaultsRequests \in [Defaults!Saves -> Defaults!Request \cup {None}]
         /\ defaultsBlind \in BOOLEAN /\ defaultsSaves \in 0..MaxSaves
         /\ MaxSaves \in Nat
         /\ Defaults!settingsToPatch(defaultsData) \in Defaults!Settings
  <1>1. Defaults!freshSettings \in Defaults!Settings
    BY DEF Defaults!freshSettings, Defaults!Settings
  <1> QED
    BY <1>1 DEF DefaultsInv, Defaults!TypeOK, Defaults!settingsToPatch,
      Defaults!DefaultsPanelAssumption

\* A save that is sent is counted.
LEMMA DefaultsSaveCounts ==
  ASSUME Defaults!DefaultsPanelAssumption, DefaultsInv, NEW pages, NEW set,
         Defaults!Save(pages, set)
  PROVE  defaultsSaves' \in 0..MaxSaves /\ defaultsSaves + 1 \in Defaults!Saves
         /\ defaultsSaves + 1 # 0
  BY DefaultsFacts DEF Defaults!Save, Defaults!Saves

\* The section alone changes.
LEMMA DefaultsPanelKeepsInv ==
  ASSUME Defaults!DefaultsPanelAssumption, DefaultsInv,
         NEW p \in Defaults!Panel \cup {None}, defaultsPanel' = p,
         p # None => p.waits = 0 \/ (defaultsPanel # None /\ p.waits = defaultsPanel.waits),
         UNCHANGED <<defaultsStored, Defaults!query, defaultsWaits, defaultsRequests,
                     defaultsBlind, defaultsSaves>>
  PROVE  DefaultsInv'
  <1>1. defaultsSaves' \in 0..MaxSaves
    BY DefaultsFacts
  <1>2. Defaults!TypeOK'
    BY <1>1, DefaultsFacts DEF Defaults!TypeOK, Defaults!query
  <1>3. DefaultsWaitsForSent'
    BY DEF DefaultsInv, DefaultsWaitsForSent, Defaults!Sent
  <1>4. DefaultsUnsent' /\ DefaultsReadKnown'
    BY DefaultsFacts DEF DefaultsInv, DefaultsUnsent, DefaultsReadKnown, Defaults!Saves
  <1>5. (~defaultsBlind => DefaultsCatches /\ DefaultsFetchCatches)'
    BY DEF DefaultsInv, DefaultsCatches, DefaultsFetchCatches, DefaultsWritten, Defaults!query
  <1> QED
    BY <1>2, <1>3, <1>5, <1>4 DEF DefaultsInv

\* The drafts of the panel.
LEMMA DefaultsDraftsKeepInv ==
  ASSUME Defaults!DefaultsPanelAssumption, DefaultsInv,
         Defaults!openPanel \/ Defaults!closePanel
           \/ \E p \in PageKeys, v \in Values \cup {None} : Defaults!setDraft(p, v)
  PROVE  DefaultsInv'
  <1>1. CASE Defaults!openPanel
    <2> DEFINE p == [draft |-> Defaults!seedDraft(defaultsData), seeded |-> (defaultsData # None), waits |-> 0]
    <2>1. (defaultsData # None) \in BOOLEAN
      OBVIOUS
    <2>2. p \in Defaults!Panel /\ p.waits = 0
      BY <2>1, DefaultsFacts DEF Defaults!Panel, Defaults!seedDraft
    <2>3. /\ defaultsPanel' = p
          /\ UNCHANGED <<defaultsStored, Defaults!query, defaultsWaits, defaultsRequests,
                         defaultsBlind, defaultsSaves>>
      BY <1>1 DEF Defaults!openPanel
    <2> HIDE DEF p
    <2> QED
      BY <2>2, <2>3, DefaultsPanelKeepsInv
  <1>2. CASE Defaults!closePanel
    BY <1>2, DefaultsPanelKeepsInv DEF Defaults!closePanel
  <1>3. ASSUME NEW q \in PageKeys, NEW v \in Values \cup {None}, Defaults!setDraft(q, v)
        PROVE  DefaultsInv'
    <2> DEFINE p == [defaultsPanel EXCEPT !.draft[q] = v]
    <2>1. defaultsPanel \in Defaults!Panel
      BY <1>3, DefaultsFacts DEF Defaults!setDraft
    <2>2. p \in Defaults!Panel /\ p.waits = defaultsPanel.waits
      BY <2>1 DEF Defaults!Panel, Defaults!Settings
    <2>3. /\ defaultsPanel' = p /\ defaultsPanel # None
          /\ UNCHANGED <<defaultsStored, Defaults!query, defaultsWaits, defaultsRequests,
                         defaultsBlind, defaultsSaves>>
      BY <1>3 DEF Defaults!setDraft
    <2> HIDE DEF p
    <2> QED
      BY <2>2, <2>3, DefaultsPanelKeepsInv
  <1> QED
    BY <1>1, <1>2, <1>3

\* A save is sent.
LEMMA DefaultsSaveKeepsInv ==
  ASSUME Defaults!DefaultsPanelAssumption, DefaultsInv,
         NEW pages \in SUBSET PageKeys, NEW set \in Defaults!Settings, Defaults!Save(pages, set),
         NEW p \in Defaults!Panel \cup {None}, defaultsPanel' = p, NEW w \in 0..MaxSaves,
         defaultsWaits' = w,
         p # None =>
           p.waits = defaultsSaves + 1 \/ (defaultsPanel # None /\ p.waits = defaultsPanel.waits),
         UNCHANGED <<defaultsStored, Defaults!query, defaultsBlind>>
  PROVE  DefaultsInv'
  <1> DEFINE r == [pages |-> pages, set |-> set, read |-> None, phase |-> "sent"]
             n == defaultsSaves + 1
  <1>1. defaultsSaves' \in 0..MaxSaves /\ n \in Defaults!Saves
    BY DefaultsSaveCounts
  <1>2. r \in Defaults!Request /\ r # None
    BY DEF Defaults!Request, Defaults!DefaultsPanelAssumption
  <1>3. /\ defaultsRequests' \in [Defaults!Saves -> Defaults!Request \cup {None}]
        /\ \A m \in Defaults!Saves : defaultsRequests'[m] = IF m = n THEN r ELSE defaultsRequests[m]
    BY <1>1, <1>2, DefaultsFacts DEF Defaults!Save
  <1>4. r.phase = "sent"
    OBVIOUS
  <1> HIDE DEF r, n
  <1>5. Defaults!TypeOK'
    BY <1>1, <1>3, DefaultsFacts DEF Defaults!TypeOK, Defaults!query
  <1>6. Defaults!Sent \cup {n} \subseteq Defaults!Sent'
    BY <1>1, <1>2, <1>3 DEF Defaults!Sent
  <1>7. DefaultsWaitsForSent'
    BY <1>6 DEF DefaultsInv, DefaultsWaitsForSent, n
  <1>8. DefaultsUnsent' /\ defaultsRequests[n] = None
    BY <1>1, <1>3, DefaultsFacts DEF DefaultsInv, DefaultsUnsent, Defaults!Saves, Defaults!Save, n
  <1>9. DefaultsReadKnown'
    BY <1>3, <1>4 DEF DefaultsInv, DefaultsReadKnown
  <1>10. DefaultsWritten => DefaultsWritten'
    BY <1>3, <1>8 DEF DefaultsWritten, Defaults!DefaultsPanelAssumption
  <1>11. (~defaultsBlind => DefaultsCatches /\ DefaultsFetchCatches)'
    BY <1>10 DEF DefaultsInv, DefaultsCatches, DefaultsFetchCatches, Defaults!query
  <1> QED
    BY <1>5, <1>7, <1>8, <1>11, <1>9 DEF DefaultsInv

\* The saves that are sent.
LEMMA DefaultsSavesKeepInv ==
  ASSUME Defaults!DefaultsPanelAssumption, DefaultsInv,
         Defaults!handleSave \/ \E v \in Values \cup {None} : Defaults!handleSaveDefaults(v)
  PROVE  DefaultsInv'
  <1>0. defaultsSaves + 1 \in 0..MaxSaves
    <2>1. PICK pages, set : Defaults!Save(pages, set)
      BY DEF Defaults!handleSave, Defaults!handleSaveDefaults
    <2> QED
      BY <2>1, DefaultsSaveCounts, DefaultsFacts DEF Defaults!Saves
  <1>1. CASE Defaults!handleSave
    <2> DEFINE p == [defaultsPanel EXCEPT !.waits = defaultsSaves + 1]
    <2>1. defaultsPanel \in Defaults!Panel /\ defaultsPanel.draft \in Defaults!Settings
      BY <1>1, DefaultsFacts DEF Defaults!handleSave, Defaults!canSave, Defaults!dirty,
        Defaults!Panel
    <2>2. p \in Defaults!Panel /\ p.waits = defaultsSaves + 1
      BY <1>0, <2>1 DEF Defaults!Panel
    <2>3. defaultsPanel' = p /\ Defaults!Save(PageKeys, defaultsPanel.draft)
          /\ UNCHANGED <<defaultsStored, Defaults!query, defaultsWaits, defaultsBlind>>
      BY <1>1 DEF Defaults!handleSave
    <2> HIDE DEF p
    <2>4. defaultsWaits \in 0..MaxSaves
      BY DefaultsFacts
    <2> QED
      BY <2>1, <2>2, <2>3, <2>4, DefaultsSaveKeepsInv
  <1>2. ASSUME NEW v \in Values \cup {None}, Defaults!handleSaveDefaults(v)
        PROVE  DefaultsInv'
    <2> DEFINE set == [Defaults!freshSettings EXCEPT ![ListPage] = v]
               w   == defaultsSaves + 1
    <2>1. set \in Defaults!Settings
      BY DEF Defaults!freshSettings, Defaults!Settings
    <2>2. {ListPage} \in SUBSET PageKeys
      BY DEF Defaults!DefaultsPanelAssumption
    <2>3. Defaults!Save({ListPage}, set) /\ defaultsWaits' = w
          /\ UNCHANGED <<defaultsStored, Defaults!query, defaultsPanel, defaultsBlind>>
          /\ defaultsPanel' = defaultsPanel
      BY <1>2 DEF Defaults!handleSaveDefaults
    <2>4. w \in 0..MaxSaves /\ defaultsPanel \in Defaults!Panel \cup {None}
      BY <1>0, DefaultsFacts
    <2> HIDE DEF set, w
    <2> QED
      BY <2>1, <2>2, <2>3, <2>4, DefaultsSaveKeepsInv
  <1> QED
    BY <1>1, <1>2

-----------------------------------------------------------------------------
(* The query.                                                              *)

\* The steps of the query.
LEMMA DefaultsFetchKeepsInv ==
  ASSUME Defaults!DefaultsPanelAssumption, DefaultsInv,
         Defaults!Refetched \/ Defaults!FetchSent \/ Defaults!FetchServed \/ Defaults!FetchArrives
           \/ Defaults!FetchFails
  PROVE  DefaultsInv'
  <1>1. CASE Defaults!Refetched
    <2>1. Defaults!TypeOK' /\ DefaultsWaitsForSent' /\ DefaultsUnsent' /\ DefaultsReadKnown'
      BY <1>1 DEF Defaults!Refetched, DefaultsInv, Defaults!TypeOK, DefaultsWaitsForSent,
        DefaultsUnsent, DefaultsReadKnown, Defaults!Sent
    <2>2. (~defaultsBlind => DefaultsCatches /\ DefaultsFetchCatches)'
      BY <1>1 DEF Defaults!Refetched, DefaultsInv, DefaultsCatches, DefaultsFetchCatches
    <2> QED
      BY <2>1, <2>2 DEF DefaultsInv
  <1>2. CASE Defaults!FetchSent
    <2>1. [answer |-> None] \in Defaults!Fetch /\ [answer |-> None] # None
          /\ [answer |-> None].answer = None
      BY DEF Defaults!Fetch, Defaults!DefaultsPanelAssumption
    <2>2. defaultsWaits' \in 0..MaxSaves
      BY <1>2, DefaultsFacts DEF Defaults!FetchSent
    <2>3. Defaults!TypeOK'
      BY <1>2, <2>1, <2>2, DefaultsFacts DEF Defaults!FetchSent, Defaults!TypeOK
    <2>4. Defaults!TypeOK' /\ DefaultsWaitsForSent' /\ DefaultsUnsent' /\ DefaultsReadKnown'
      BY <1>2, <2>3 DEF Defaults!FetchSent, DefaultsInv, DefaultsWaitsForSent, DefaultsUnsent,
        DefaultsReadKnown, Defaults!Sent
    <2>5. (~defaultsBlind => DefaultsCatches /\ DefaultsFetchCatches)'
      BY <1>2, <2>1 DEF Defaults!FetchSent, DefaultsInv, DefaultsCatches, DefaultsFetchCatches
    <2> QED
      BY <2>4, <2>5 DEF DefaultsInv
  <1>3. CASE Defaults!FetchServed
    <2>1. [answer |-> defaultsStored] \in Defaults!Fetch
          /\ [answer |-> defaultsStored].answer = defaultsStored
          /\ [answer |-> defaultsStored] # None
      BY DefaultsFacts DEF Defaults!Fetch, Defaults!DefaultsPanelAssumption
    <2>2. Defaults!TypeOK' /\ DefaultsWaitsForSent' /\ DefaultsUnsent' /\ DefaultsReadKnown'
      BY <1>3, <2>1 DEF Defaults!FetchServed, DefaultsInv, Defaults!TypeOK, DefaultsWaitsForSent,
        DefaultsUnsent, DefaultsReadKnown, Defaults!Sent
    <2>3. (~defaultsBlind => DefaultsCatches /\ DefaultsFetchCatches)'
      BY <1>3, <2>1 DEF Defaults!FetchServed, DefaultsInv, DefaultsCatches, DefaultsFetchCatches
    <2> QED
      BY <2>2, <2>3 DEF DefaultsInv
  <1>4. CASE Defaults!FetchArrives
    <2>1. defaultsFetch.answer \in Defaults!Settings
      BY <1>4, DefaultsFacts DEF Defaults!FetchArrives, Defaults!Fetch
    <2>2. /\ Defaults!Arrival(defaultsFetch.answer) \in Defaults!Panel \cup {None}
          /\ defaultsPanel = None => Defaults!Arrival(defaultsFetch.answer) = None
          /\ defaultsPanel # None => Defaults!Arrival(defaultsFetch.answer).waits = defaultsPanel.waits
      <3> DEFINE d == [p \in PageKeys |-> IF defaultsPanel.draft[p] = None THEN defaultsFetch.answer[p] ELSE defaultsPanel.draft[p]]
      <3>1. CASE defaultsPanel = None \/ defaultsPanel.seeded
        BY <3>1, DefaultsFacts DEF Defaults!Arrival
      <3>2. CASE ~(defaultsPanel = None \/ defaultsPanel.seeded)
        <4>1. defaultsPanel \in Defaults!Panel
          BY <3>2, DefaultsFacts
        <4>2. d \in Defaults!Settings
          BY <2>1, <4>1 DEF Defaults!Panel, Defaults!Settings
        <4>3. Defaults!Arrival(defaultsFetch.answer) =
                [defaultsPanel EXCEPT !.seeded = TRUE, !.draft = d]
          BY <3>2 DEF Defaults!Arrival
        <4> HIDE DEF d
        <4> QED
          BY <3>2, <4>1, <4>2, <4>3 DEF Defaults!Panel
      <3> QED
        BY <3>1, <3>2
    <2>3. Defaults!TypeOK'
      BY <1>4, <2>1, <2>2, DefaultsFacts DEF Defaults!FetchArrives, Defaults!TypeOK
    <2>4. DefaultsWaitsForSent' /\ DefaultsUnsent' /\ DefaultsReadKnown'
      BY <1>4, <2>2 DEF Defaults!FetchArrives, DefaultsInv, DefaultsWaitsForSent, DefaultsUnsent,
        DefaultsReadKnown, Defaults!Sent
    <2>5. (~defaultsBlind => DefaultsCatches /\ DefaultsFetchCatches)'
      BY <1>4, <2>1 DEF Defaults!FetchArrives, DefaultsInv, DefaultsCatches, DefaultsFetchCatches,
        DefaultsWritten
    <2> QED
      BY <2>3, <2>4, <2>5 DEF DefaultsInv
  <1>5. CASE Defaults!FetchFails
    BY <1>5 DEF Defaults!FetchFails, DefaultsInv, Defaults!TypeOK, DefaultsWaitsForSent,
      DefaultsUnsent, DefaultsReadKnown, Defaults!Sent
  <1> QED
    BY <1>1, <1>2, <1>3, <1>4, <1>5

-----------------------------------------------------------------------------
(* The saves.                                                              *)

\* A request that was sent goes on.
LEMMA DefaultsSaveGoesOn ==
  ASSUME Defaults!DefaultsPanelAssumption, DefaultsInv, NEW n \in Defaults!Sent,
         NEW r \in Defaults!Request,
         defaultsRequests' = [defaultsRequests EXCEPT ![n] = r]
  PROVE  /\ defaultsRequests' \in [Defaults!Saves -> Defaults!Request \cup {None}]
         /\ Defaults!Sent' = Defaults!Sent
         /\ \A m \in Defaults!Saves : defaultsRequests'[m] = IF m = n THEN r ELSE defaultsRequests[m]
  BY DefaultsFacts DEF Defaults!Sent, DefaultsInv, Defaults!DefaultsPanelAssumption

\* What the server leaves of a save.
LEMMA DefaultsOutcome ==
  ASSUME NEW phase \in {"ok", "error"}
  PROVE  Defaults!Outcome(phase) \in Defaults!Request /\ Defaults!Outcome(phase).phase = phase
  BY DEF Defaults!Outcome, Defaults!Request, Defaults!freshSettings, Defaults!Settings

\* The server's part of a save.
LEMMA DefaultsServerKeepsInv ==
  ASSUME Defaults!DefaultsPanelAssumption, DefaultsInv, NEW n \in Defaults!Saves,
         Defaults!SaveRead(n) \/ Defaults!SaveWrites(n)
  PROVE  DefaultsInv'
  <1>1. n \in Defaults!Sent /\ defaultsRequests[n] \in Defaults!Request
    BY DefaultsFacts DEF Defaults!SaveRead, Defaults!SaveWrites, Defaults!Sent
  <1>2. CASE Defaults!SaveRead(n)
    <2>1. PICK r : /\ defaultsRequests' = [defaultsRequests EXCEPT ![n] = r] /\ r.phase # "ok"
                   /\ r \in Defaults!Request /\ r # None
                        /\ (r.phase = "read" => r.read \in Defaults!Settings)
      <3>1. CASE defaultsRequests' = [defaultsRequests EXCEPT ![n] = Defaults!Outcome("error")]
        <4> DEFINE r == Defaults!Outcome("error")
        <4>1. r \in Defaults!Request /\ r.phase = "error"
          BY DefaultsOutcome
        <4>2. defaultsRequests' = [defaultsRequests EXCEPT ![n] = r]
          BY <3>1
        <4> HIDE DEF r
        <4> QED
          BY <4>1, <4>2 DEF Defaults!DefaultsPanelAssumption
      <3>2. CASE defaultsRequests' =
              [defaultsRequests EXCEPT ![n].phase = "read", ![n].read = defaultsStored]
        <4> DEFINE r == [defaultsRequests[n] EXCEPT !.phase = "read", !.read = defaultsStored]
        <4>1. r \in Defaults!Request /\ r.phase = "read" /\ r.read \in Defaults!Settings
          BY <1>1, DefaultsFacts DEF Defaults!Request
        <4>2. defaultsRequests' = [defaultsRequests EXCEPT ![n] = r]
          BY <3>2, DefaultsFacts
        <4> HIDE DEF r
        <4> QED
          BY <4>1, <4>2 DEF Defaults!DefaultsPanelAssumption
      <3> QED
        BY <1>2, <3>1, <3>2 DEF Defaults!SaveRead
    <2>2. defaultsRequests[n].phase # "ok"
      BY <1>2 DEF Defaults!SaveRead
    <2>3. /\ defaultsRequests' \in [Defaults!Saves -> Defaults!Request \cup {None}]
          /\ Defaults!Sent' = Defaults!Sent
          /\ \A m \in Defaults!Saves : defaultsRequests'[m] = IF m = n THEN r ELSE defaultsRequests[m]
      BY <1>1, <2>1, DefaultsSaveGoesOn
    <2>4. UNCHANGED <<defaultsStored, Defaults!query, defaultsPanel, defaultsWaits, defaultsBlind,
                      defaultsSaves>>
      BY <1>2 DEF Defaults!SaveRead
    <2>5. DefaultsWritten' <=> DefaultsWritten
      BY <2>1, <2>2, <2>3 DEF DefaultsWritten
    <2>6. Defaults!TypeOK' /\ DefaultsWaitsForSent'
      BY <2>3, <2>4, DefaultsFacts DEF DefaultsInv, Defaults!TypeOK, DefaultsWaitsForSent,
        Defaults!query
    <2>7. DefaultsUnsent' /\ DefaultsReadKnown'
      BY <1>1, <2>1, <2>3, <2>4 DEF DefaultsInv, DefaultsUnsent, DefaultsReadKnown, Defaults!Sent
    <2>8. (~defaultsBlind => DefaultsCatches /\ DefaultsFetchCatches)'
      BY <2>4, <2>5 DEF DefaultsInv, DefaultsCatches, DefaultsFetchCatches, Defaults!query
    <2> QED
      BY <2>6, <2>7, <2>8 DEF DefaultsInv
  <1>3. CASE Defaults!SaveWrites(n)
    <2> DEFINE r == Defaults!Outcome("ok")
    <2>1. r \in Defaults!Request /\ r.phase = "ok" /\ r # None
      BY DefaultsOutcome DEF Defaults!DefaultsPanelAssumption
    <2>2. defaultsRequests' = [defaultsRequests EXCEPT ![n] = r]
      BY <1>3, DefaultsFacts DEF Defaults!SaveWrites
    <2> HIDE DEF r
    <2>3. /\ defaultsRequests' \in [Defaults!Saves -> Defaults!Request \cup {None}]
          /\ Defaults!Sent' = Defaults!Sent
          /\ \A m \in Defaults!Saves : defaultsRequests'[m] = IF m = n THEN r ELSE defaultsRequests[m]
      BY <1>1, <2>1, <2>2, DefaultsSaveGoesOn
    <2>4. UNCHANGED <<Defaults!query, defaultsPanel, defaultsWaits, defaultsBlind, defaultsSaves>>
      BY <1>3 DEF Defaults!SaveWrites
    <2>5. DefaultsWritten'
      BY <2>1, <2>3 DEF DefaultsWritten
    <2>6. defaultsStored' \in Defaults!Settings
      <3>1. defaultsRequests[n].read \in Defaults!Settings
            /\ defaultsRequests[n].set \in Defaults!Settings
        BY <1>1, <1>3 DEF Defaults!SaveWrites, DefaultsInv, DefaultsReadKnown, Defaults!Request,
          Defaults!Sent
      <3> QED
        BY <1>3, <3>1 DEF Defaults!SaveWrites, Defaults!Replaced, Defaults!Settings
    <2>7. Defaults!TypeOK' /\ DefaultsWaitsForSent'
      BY <2>3, <2>4, <2>6, DefaultsFacts DEF DefaultsInv, Defaults!TypeOK, DefaultsWaitsForSent,
        Defaults!query
    <2>8. DefaultsUnsent' /\ DefaultsReadKnown'
      BY <1>1, <2>1, <2>3, <2>4 DEF DefaultsInv, DefaultsUnsent, DefaultsReadKnown, Defaults!Sent
    <2>9. (DefaultsCatches /\ DefaultsFetchCatches)'
      BY <2>5 DEF DefaultsCatches, DefaultsFetchCatches
    <2> QED
      BY <2>7, <2>8, <2>9 DEF DefaultsInv
  <1> QED
    BY <1>2, <1>3

\* The answer to a save.
LEMMA DefaultsAnswerKeepsInv ==
  ASSUME Defaults!DefaultsPanelAssumption, DefaultsInv, NEW n \in Defaults!Saves,
         Defaults!SaveAnswered(n)
  PROVE  DefaultsInv'
  <1>1. /\ defaultsRequests' \in [Defaults!Saves -> Defaults!Request \cup {None}]
        /\ \A m \in Defaults!Saves : defaultsRequests'[m] = IF m = n THEN None ELSE defaultsRequests[m]
    BY DefaultsFacts DEF Defaults!SaveAnswered
  <1>2. Defaults!Sent \ {n} \subseteq Defaults!Sent'
    BY <1>1 DEF Defaults!Sent
  <1>3. defaultsWaits' \in 0..MaxSaves
    BY DefaultsFacts DEF Defaults!SaveAnswered
  <1>4. /\ defaultsPanel' \in Defaults!Panel \cup {None}
        /\ defaultsPanel' # None =>
             defaultsPanel # None
             /\ (defaultsPanel'.waits = 0 \/ (defaultsPanel.waits # n /\ defaultsPanel'.waits = defaultsPanel.waits))
    <2>1. CASE defaultsPanel # None /\ defaultsPanel.waits = n
      <3>1. defaultsPanel \in Defaults!Panel /\ defaultsPanel' = [defaultsPanel EXCEPT !.waits = 0]
        BY <2>1, DefaultsFacts DEF Defaults!SaveAnswered
      <3> QED
        BY <2>1, <3>1, DefaultsFacts DEF Defaults!Panel
    <2>2. CASE ~(defaultsPanel # None /\ defaultsPanel.waits = n)
      BY <2>2, DefaultsFacts DEF Defaults!SaveAnswered
    <2> QED
      BY <2>1, <2>2
  <1>5. defaultsFetch' \in Defaults!Fetch \cup {None} /\ defaultsStale' \in BOOLEAN
    BY DefaultsFacts DEF Defaults!SaveAnswered, Defaults!Invalidate
  <1>6. defaultsBlind' \in BOOLEAN /\ (defaultsBlind => defaultsBlind')
    BY DefaultsFacts DEF Defaults!SaveAnswered
  <1>7. Defaults!TypeOK'
    BY <1>1, <1>3, <1>4, <1>5, <1>6, DefaultsFacts DEF Defaults!SaveAnswered, Defaults!TypeOK
  <1>8. DefaultsWaitsForSent' /\ DefaultsUnsent' /\ DefaultsReadKnown'
    BY <1>1, <1>2, <1>4 DEF DefaultsInv, DefaultsWaitsForSent, DefaultsUnsent, DefaultsReadKnown,
      Defaults!SaveAnswered
  <1>9. ASSUME ~defaultsBlind'
        PROVE  (DefaultsCatches /\ DefaultsFetchCatches)'
    <2>1. DefaultsCatches /\ DefaultsFetchCatches
      BY <1>6, <1>9 DEF DefaultsInv
    <2>2. CASE defaultsRequests[n].phase = "ok"
      <3>1. defaultsData # None /\ defaultsFetch' = None /\ defaultsStale' = TRUE
        BY <1>9, <2>2 DEF Defaults!SaveAnswered, Defaults!Invalidate
      <3> QED
        BY <3>1 DEF DefaultsCatches, DefaultsFetchCatches
    <2>3. CASE defaultsRequests[n].phase # "ok"
      <3>1. UNCHANGED <<defaultsStored, defaultsData, defaultsFetch, defaultsStale>>
        BY <2>3 DEF Defaults!SaveAnswered
      <3>2. DefaultsWritten => DefaultsWritten'
        BY <1>1, <2>3 DEF DefaultsWritten
      <3> QED
        BY <2>1, <3>1, <3>2 DEF DefaultsCatches, DefaultsFetchCatches
    <2> QED
      BY <2>2, <2>3
  <1> QED
    BY <1>7, <1>8, <1>9 DEF DefaultsInv

-----------------------------------------------------------------------------
\* Every step keeps the invariant of the default views.
LEMMA DefaultsStepInv ==
  ASSUME Defaults!DefaultsPanelAssumption, DefaultsInv, Defaults!Next \/ UNCHANGED Defaults!vars
  PROVE  DefaultsInv'
  <1>1. CASE UNCHANGED Defaults!vars
    BY <1>1 DEF Defaults!vars, Defaults!query, DefaultsInv, Defaults!TypeOK, DefaultsWaitsForSent,
      DefaultsUnsent, DefaultsReadKnown, Defaults!Sent, DefaultsCatches, DefaultsFetchCatches,
      DefaultsWritten
  <1>2. CASE Defaults!Next
    BY <1>2, DefaultsDraftsKeepInv, DefaultsSavesKeepInv, DefaultsFetchKeepsInv,
      DefaultsServerKeepsInv, DefaultsAnswerKeepsInv DEF Defaults!Next
  <1> QED
    BY <1>1, <1>2

\* With nothing under way the query has what the server has, and nobody waits.
LEMMA DefaultsTells ==
  ASSUME Defaults!DefaultsPanelAssumption, DefaultsInv
  PROVE  Defaults!ButtonTells
  <1> SUFFICES ASSUME Defaults!Quiet, ~defaultsBlind, defaultsPanel # None
               PROVE  Defaults!canSave <=> defaultsPanel.draft # defaultsStored
    BY DEF Defaults!ButtonTells
  <1>1. defaultsData = defaultsStored
    BY DEF Defaults!Quiet, DefaultsInv, DefaultsCatches, DefaultsWritten, Defaults!Sent
  <1>2. defaultsPanel.waits = 0
    BY DEF Defaults!Quiet, DefaultsInv, DefaultsWaitsForSent
  <1> QED
    BY <1>1, <1>2 DEF Defaults!canSave, Defaults!dirty, Defaults!settingsToPatch, Defaults!Quiet

\* A step while this page is followed is a step of the page, or leaves it alone.
LEMMA DefaultsFrame ==
  ASSUME page = "settings", Next \/ UNCHANGED vars
  PROVE  page' = "settings" /\ (Defaults!Next \/ UNCHANGED Defaults!vars)
  BY DEF Next, vars, EntryNext, ItemsNext, BoardNext, RowsNext, TransfersNext,
    MembersNext, FormNext, ListsNext, PanelNext, MarksNext, DefaultsNext, defaultsVars,
    Defaults!vars, Defaults!query

-----------------------------------------------------------------------------
(***************************************************************************)
(* The entry pages (SignIn).                                               *)
(***************************************************************************)

\* What is not consented to before the function that grants has had its answer.
EntryUngranted(request) == CASE request = "both"    -> Entry!Documents
                        [] request = "terms"   -> {"terms"}
                        [] request = "privacy" -> {"privacy"}
                        [] OTHER               -> {}

EntryRests(request, out, l) ==
  \/ request = "none"
  \/ /\ request \in Entry!Consents \cup {"status"}
     /\ out \subseteq EntryUngranted(request) \cup l.run

\* The form asks for every document that was out of date when it was told what to ask for.
EntryAsks(p, f, out, l) == p = "reconsent" /\ f.ready = "yes" => out \subseteq f.needed \cup l.form

EntryGrantsRest == EntryRests(entryRun["grantConsents"].request, entryOutdated, entryLate)
EntryAsksForAll == EntryAsks(entryPage, entryForm, entryOutdated, entryLate)

EntryServerOK ==
  /\ entryTemp \in {"none", "fresh", "used"} /\ entryOutdated \subseteq Entry!Documents
  /\ entryPublished \in 0..MaxPublished /\ entryLink \in {"good", "used"}
  /\ entryLate \in [form : SUBSET Entry!Documents, run : SUBSET Entry!Documents]

EntryInv == Entry!TypeOK /\ EntryGrantsRest /\ EntryAsksForAll

-----------------------------------------------------------------------------
(* The requests of the pages that appear.                                  *)

\* What a function waits for, and an empty form, have their types.
LEMMA EntryAwaits ==
  /\ Entry!Done \in Entry!Await /\ Entry!Done.request = "none" /\ Entry!Blank \in Entry!Form
  /\ Entry!Blank.ready = "no"
  /\ \A q \in Entry!Requests, a \in BOOLEAN : [request |-> q, auth |-> a] \in Entry!Await
  /\ \A a \in Entry!Await : a.request \in Entry!Requests \cup {"none"}
  BY DEF Entry!Done, Entry!Await, Entry!Blank, Entry!Form, Entry!Functions, Entry!Documents,
    Entry!Requests

\* The effects of a page ask for what they ask for and touch nothing else.
LEMMA EntryCalledRequests ==
  ASSUME NEW p, NEW st \in BOOLEAN, NEW r \in [Entry!Functions -> Entry!Await]
  PROVE  /\ Entry!Called(Entry!Effects(p), r, st) \in [Entry!Functions -> Entry!Await]
         /\ \A g \in Entry!Functions : \/ Entry!Called(Entry!Effects(p), r, st)[g] = r[g]
                                       \/ /\ g \in {"loadLegalVersions", "loadConsentStatus", "followLink"}
                                          /\ Entry!Called(Entry!Effects(p), r, st)[g].request \in {"versions", "status", "link"}
         /\ Entry!Called({}, r, st) = r
  <1>1. Entry!Called({}, r, st) = r
    BY DEF Entry!Called
  <1>2. CASE p \notin {"register", "reconsent", "verify", "confirm"}
    BY <1>1, <1>2 DEF Entry!Effects
  <1>3. ASSUME NEW f \in Entry!Functions, NEW q \in Entry!Requests,
               f \in {"loadLegalVersions", "loadConsentStatus", "followLink"},
               q \in {"versions", "status", "link"}, Entry!Effects(p) = {<<f, q>>}
        PROVE  /\ Entry!Called(Entry!Effects(p), r, st) \in [Entry!Functions -> Entry!Await]
               /\ \A g \in Entry!Functions : \/ Entry!Called(Entry!Effects(p), r, st)[g] = r[g]
                                             \/ /\ g \in {"loadLegalVersions", "loadConsentStatus", "followLink"}
                                                /\ Entry!Called(Entry!Effects(p), r, st)[g].request \in {"versions", "status", "link"}
    <2>1. \A g : (\E e \in {<<f, q>>} : e[1] = g) <=> g = f
      OBVIOUS
    <2>2. (CHOOSE e \in {<<f, q>>} : e[1] = f) = <<f, q>>
      OBVIOUS
    <2>3. Entry!Called(Entry!Effects(p), r, st) =
            [g \in Entry!Functions |-> IF g = f THEN [request |-> q, auth |-> (st /\ g = "loadConsentStatus")] ELSE r[g]]
      BY <1>3, <2>1, <2>2 DEF Entry!Called
    <2>4. (st /\ f = "loadConsentStatus") \in BOOLEAN
      OBVIOUS
    <2>5. [request |-> q, auth |-> (st /\ f = "loadConsentStatus")] \in Entry!Await
      BY <2>4, EntryAwaits
    <2> QED
      BY <1>3, <2>3, <2>5
  <1>4. CASE p = "register"
    <2>1. Entry!Effects(p) = {<<"loadLegalVersions", "versions">>}
      BY <1>4 DEF Entry!Effects
    <2> QED
      BY <2>1, <1>1, <1>3 DEF Entry!Functions, Entry!Requests
  <1>5. CASE p = "reconsent"
    <2>1. Entry!Effects(p) = {<<"loadConsentStatus", "status">>}
      BY <1>5 DEF Entry!Effects
    <2> QED
      BY <2>1, <1>1, <1>3 DEF Entry!Functions, Entry!Requests
  <1>6. CASE p \in {"verify", "confirm"}
    <2>1. Entry!Effects(p) = {<<"followLink", "link">>}
      BY <1>6 DEF Entry!Effects
    <2> QED
      BY <2>1, <1>1, <1>3 DEF Entry!Functions, Entry!Requests
  <1> QED
    BY <1>1, <1>2, <1>4, <1>5, <1>6

\* What a tab shows after a step, whatever the step put there.
LEMMA EntryShown ==
  ASSUME NEW p \in Entry!Public \cup Entry!Protected, NEW u \in BOOLEAN, NEW l \in BOOLEAN,
         NEW st \in BOOLEAN,
         NEW r \in [Entry!Functions -> Entry!Await], NEW f \in Entry!Form,
         Entry!Show(p, u, l, st, r, f)
  PROVE  /\ entryPage' \in Entry!Public \cup Entry!Protected
         /\ entryUser' = u /\ entryLoading' = l /\ entryStored' = st
         /\ entryForm' \in {f, Entry!Blank}
         /\ entryPage' # entryPage => entryForm' = Entry!Blank
         /\ entryRun' \in [Entry!Functions -> Entry!Await]
         /\ \A g \in Entry!Functions : \/ entryRun'[g] = r[g]
                                       \/ /\ g \in {"loadLegalVersions", "loadConsentStatus", "followLink"}
                                          /\ entryRun'[g].request \in {"versions", "status", "link"}
  <1>1. entryPage' \in Entry!Public \cup Entry!Protected
    BY DEF Entry!Show, Entry!ProtectedRoute, Entry!Public, Entry!Protected
  <1>2. entryUser' = u /\ entryLoading' = l /\ entryStored' = st
        /\ entryForm' \in {f, Entry!Blank} /\ (entryPage' # entryPage => entryForm' = Entry!Blank)
    BY DEF Entry!Show
  <1>3. entryRun' = Entry!Called({}, r, st) \/ \E q : entryRun' = Entry!Called(Entry!Effects(q), r, st)
    BY DEF Entry!Show
  <1> QED
    BY <1>1, <1>2, <1>3, EntryCalledRequests

\* A step keeps the invariant if what it puts there does.
LEMMA EntryShowKeepsInv ==
  ASSUME EntryInv, NEW p \in Entry!Public \cup Entry!Protected, NEW u \in BOOLEAN,
         NEW l \in BOOLEAN, NEW st \in BOOLEAN,
         NEW r \in [Entry!Functions -> Entry!Await], NEW f \in Entry!Form,
         Entry!Show(p, u, l, st, r, f),
         EntryServerOK',
         EntryRests(r["grantConsents"].request, entryOutdated', entryLate'),
         EntryAsks(entryPage, f, entryOutdated', entryLate')
  PROVE  EntryInv'
  <1>1. /\ entryPage' \in Entry!Public \cup Entry!Protected
        /\ entryUser' = u /\ entryLoading' = l /\ entryStored' = st
        /\ entryForm' \in {f, Entry!Blank}
        /\ entryPage' # entryPage => entryForm' = Entry!Blank
        /\ entryRun' \in [Entry!Functions -> Entry!Await]
        /\ \A g \in Entry!Functions : \/ entryRun'[g] = r[g]
                                      \/ /\ g \in {"loadLegalVersions", "loadConsentStatus", "followLink"}
                                         /\ entryRun'[g].request \in {"versions", "status", "link"}
    BY EntryShown
  <1>2. Entry!TypeOK'
    BY <1>1, EntryAwaits DEF Entry!TypeOK, EntryServerOK
  <1>4. entryRun'["grantConsents"] = r["grantConsents"]
    BY <1>1 DEF Entry!Functions
  <1>5. EntryGrantsRest'
    BY <1>4 DEF EntryGrantsRest
  <1>6. EntryAsksForAll'
    BY <1>1, EntryAwaits DEF EntryAsksForAll, EntryAsks
  <1> QED
    BY <1>2, <1>5, <1>6 DEF EntryInv

\* What may be assumed of a state.
LEMMA EntryFacts ==
  ASSUME EntryInv
  PROVE  /\ entryPage \in Entry!Public \cup Entry!Protected /\ entryUser \in BOOLEAN
         /\ entryLoading \in BOOLEAN
         /\ entryStored \in BOOLEAN /\ entryRun \in [Entry!Functions -> Entry!Await]
         /\ entryForm \in Entry!Form
         /\ EntryRests(entryRun["grantConsents"].request, entryOutdated, entryLate)
         /\ EntryAsks(entryPage, entryForm, entryOutdated, entryLate)
         /\ EntryServerOK
  BY DEF EntryInv, Entry!TypeOK, EntryGrantsRest, EntryAsksForAll, EntryServerOK

\* A step that lets one function await something else.
LEMMA EntryAwaitKeepsInv ==
  ASSUME EntryInv, NEW p \in Entry!Public \cup Entry!Protected, NEW u \in BOOLEAN,
         NEW l \in BOOLEAN, NEW st \in BOOLEAN,
         NEW g \in Entry!Functions, NEW a \in Entry!Await, NEW f \in Entry!Form,
         Entry!Show(p, u, l, st, [entryRun EXCEPT ![g] = a], f),
         EntryServerOK',
         entryOutdated' = entryOutdated, entryLate'.run = entryLate.run,
         g = "grantConsents" => EntryRests(a.request, entryOutdated, entryLate),
         EntryAsks(entryPage, f, entryOutdated, entryLate')
  PROVE  EntryInv'
  <1> DEFINE r == [entryRun EXCEPT ![g] = a]
  <1>1. r \in [Entry!Functions -> Entry!Await]
        /\ \A h \in Entry!Functions : r[h] = IF h = g THEN a ELSE entryRun[h]
    BY EntryFacts
  <1>2. Entry!Show(p, u, l, st, r, f)
    OBVIOUS
  <1> HIDE DEF r
  <1>3. EntryRests(r["grantConsents"].request, entryOutdated', entryLate')
    BY <1>1, EntryFacts DEF Entry!Functions, EntryRests
  <1>4. EntryAsks(entryPage, f, entryOutdated', entryLate')
    OBVIOUS
  <1> QED
    BY <1>1, <1>2, <1>3, <1>4, EntryShowKeepsInv

\* One that changes neither the server nor what the form asks for.
LEMMA EntryQuietKeepsInv ==
  ASSUME EntryInv, NEW p \in Entry!Public \cup Entry!Protected, NEW u \in BOOLEAN,
         NEW l \in BOOLEAN, NEW st \in BOOLEAN,
         NEW g \in Entry!Functions, NEW a \in Entry!Await, NEW f \in Entry!Form,
         Entry!Show(p, u, l, st, [entryRun EXCEPT ![g] = a], f),
         UNCHANGED <<Entry!server, entryLate>>,
         g = "grantConsents" => EntryRests(a.request, entryOutdated, entryLate),
         f.ready = "yes" => entryForm.ready = "yes" /\ f.needed = entryForm.needed
  PROVE  EntryInv'
  <1>1. EntryServerOK' /\ entryOutdated' = entryOutdated /\ entryLate' = entryLate
    BY EntryFacts DEF Entry!server, EntryServerOK
  <1>2. EntryAsks(entryPage, f, entryOutdated, entryLate')
    BY <1>1, EntryFacts DEF EntryAsks
  <1> QED
    BY <1>1, <1>2, EntryAwaitKeepsInv

\* The same with the functions as they are.
LEMMA EntryStayKeepsInv ==
  ASSUME EntryInv, NEW p \in Entry!Public \cup Entry!Protected, NEW u \in BOOLEAN,
         NEW st \in BOOLEAN, NEW f \in Entry!Form,
         Entry!Show(p, u, entryLoading, st, entryRun, f), UNCHANGED <<Entry!server, entryLate>>,
         f.ready = "yes" => entryForm.ready = "yes" /\ f.needed = entryForm.needed
  PROVE  EntryInv'
  <1>1. EntryServerOK' /\ entryOutdated' = entryOutdated /\ entryLate' = entryLate
    BY EntryFacts DEF Entry!server, EntryServerOK
  <1>2. EntryAsks(entryPage, f, entryOutdated', entryLate')
    BY <1>1, EntryFacts DEF EntryAsks
  <1>3. /\ entryLoading \in BOOLEAN /\ entryRun \in [Entry!Functions -> Entry!Await]
        /\ EntryRests(entryRun["grantConsents"].request, entryOutdated', entryLate')
    BY <1>1, EntryFacts
  <1> QED
    BY <1>1, <1>2, <1>3, EntryShowKeepsInv

-----------------------------------------------------------------------------
(* The user.                                                               *)

\* A form is submitted; the function named for it awaits its first request.
LEMMA EntrySubmitKeepsInv ==
  ASSUME EntryInv, NEW f \in Entry!Functions, NEW q \in Entry!Requests, Entry!Submit(f, q),
         f # "grantConsents", UNCHANGED entryLate
  PROVE  EntryInv'
  <1> DEFINE a == [request |-> q, auth |-> (entryStored /\ q # f)]
             g == [entryForm EXCEPT !.waits = f]
  <1>1. entryPage \in Entry!Public \cup Entry!Protected /\ entryUser \in BOOLEAN
        /\ entryLoading \in BOOLEAN /\ entryStored \in BOOLEAN
    BY EntryFacts
  <1>2. (entryStored /\ q # f) \in BOOLEAN
    BY EntryFacts
  <1>3. a \in Entry!Await /\ a.request = q
    BY <1>2, EntryAwaits
  <1>4. g \in Entry!Form /\ g.ready = entryForm.ready /\ g.needed = entryForm.needed
    BY EntryFacts DEF Entry!Form
  <1>5. Entry!Show(entryPage, entryUser, entryLoading, entryStored, [entryRun EXCEPT ![f] = a], g)
        /\ UNCHANGED <<Entry!server, entryLate>>
    BY DEF Entry!Submit
  <1> HIDE DEF a, g
  <1> QED
    BY <1>1, <1>3, <1>4, <1>5, EntryQuietKeepsInv

\* A tab that is loaded asks for its user if it has tokens.
LEMMA EntryLoadedRuns ==
  ASSUME NEW p \in Entry!Public \cup Entry!Protected, NEW st \in BOOLEAN
  PROVE  /\ Entry!Loaded(p, st) \in [Entry!Functions -> Entry!Await]
         /\ \A g \in Entry!Functions : Entry!Loaded(p, st)[g].request = "me" => st
         /\ Entry!Loaded(p, st)["grantConsents"].request = "none"
  <1> DEFINE r == [g \in Entry!Functions |-> IF g = "loadUser" /\ st THEN [request |-> "me", auth |-> TRUE] ELSE Entry!Done]
  <1>1. [request |-> "me", auth |-> TRUE] \in Entry!Await
    BY EntryAwaits DEF Entry!Requests
  <1>2. r \in [Entry!Functions -> Entry!Await]
        /\ \A g \in Entry!Functions : r[g].request = IF g = "loadUser" /\ st THEN "me" ELSE "none"
    BY <1>1, EntryAwaits
  <1>3. Entry!Loaded(p, st) = Entry!Called(Entry!Effects(p), r, st)
          \/ Entry!Loaded(p, st) = Entry!Called({}, r, st)
    BY DEF Entry!Loaded
  <1> HIDE DEF r
  <1>4. /\ Entry!Loaded(p, st) \in [Entry!Functions -> Entry!Await]
        /\ \A g \in Entry!Functions : \/ Entry!Loaded(p, st)[g] = r[g]
                                      \/ /\ g \in {"loadLegalVersions", "loadConsentStatus", "followLink"}
                                         /\ Entry!Loaded(p, st)[g].request \in {"versions", "status", "link"}
    BY <1>2, <1>3, EntryCalledRequests
  <1>5. \A g \in Entry!Functions : Entry!Loaded(p, st)[g].request = "me" => st
    BY <1>2, <1>4
  <1>6. Entry!Loaded(p, st)["grantConsents"].request = "none"
    BY <1>2, <1>4 DEF Entry!Functions
  <1> QED
    BY <1>4, <1>5, <1>6

\* A document that was just loaded.
LEMMA EntryLoadedInv ==
  ASSUME entryPage' \in Entry!Public \cup Entry!Protected, entryUser' = FALSE,
         entryStored' \in BOOLEAN, entryLoading' = entryStored',
         entryForm' = Entry!Blank, entryRun' = Entry!Loaded(entryPage', entryStored'), EntryServerOK'
  PROVE  EntryInv'
  <1>1. /\ entryRun' \in [Entry!Functions -> Entry!Await]
        /\ \A g \in Entry!Functions : entryRun'[g].request = "me" => entryStored'
        /\ entryRun'["grantConsents"].request = "none"
    BY EntryLoadedRuns
  <1>2. Entry!TypeOK'
    BY <1>1, EntryAwaits DEF Entry!TypeOK, EntryServerOK
  <1>3. Entry!Blank.ready = "no"
    BY EntryAwaits
  <1> QED
    BY <1>1, <1>2, <1>3 DEF EntryInv, EntryGrantsRest,
      EntryAsksForAll, EntryRests, EntryAsks

\* The invariant of the entry pages holds as the tab opens.
LEMMA EntryInitInv ==
  ASSUME Entry!SignInAssumption, Entry!Init
  PROVE  EntryInv
  <1>1. EntryServerOK
    <2>1. entryPublished \in 0..MaxPublished
      BY DEF Entry!Init, Entry!SignInAssumption
    <2>2. /\ entryLate \in [form : SUBSET Entry!Documents, run : SUBSET Entry!Documents]
          /\ entryLink \in {"good", "used"}
          /\ entryTemp \in {"none", "fresh", "used"} /\ entryOutdated \subseteq Entry!Documents
      BY DEF Entry!Init
    <2> QED
      BY <2>1, <2>2 DEF EntryServerOK
  <1>2. entryPage \in Entry!Public \cup Entry!Protected /\ entryStored \in BOOLEAN
    BY DEF Entry!Init
  <1>3. /\ entryRun \in [Entry!Functions -> Entry!Await]
        /\ \A g \in Entry!Functions : entryRun[g].request = "me" => entryStored
        /\ entryRun["grantConsents"].request = "none"
    BY <1>2, EntryLoadedRuns DEF Entry!Init
  <1>4. entryUser = FALSE /\ entryLoading = entryStored /\ entryForm = Entry!Blank
    BY DEF Entry!Init
  <1>5. Entry!TypeOK
    BY <1>1, <1>2, <1>3, <1>4, EntryAwaits DEF Entry!TypeOK, EntryServerOK
  <1> QED
    BY <1>3, <1>4, <1>5, EntryAwaits DEF EntryInv, EntryGrantsRest, EntryAsksForAll, EntryRests, EntryAsks

\* What the user does keeps it.
LEMMA EntryActKeepsInv ==
  ASSUME Entry!SignInAssumption, EntryInv, Entry!Act
  PROVE  EntryInv'
  <1>1. CASE Entry!handleSubmit
    BY <1>1, EntrySubmitKeepsInv DEF Entry!handleSubmit, Entry!Functions, Entry!Requests
  <1>2. CASE Entry!handle2FAVerify
    BY <1>2, EntrySubmitKeepsInv DEF Entry!handle2FAVerify, Entry!Functions, Entry!Requests
  <1>3. CASE Entry!handleBack
    BY <1>3, EntryFacts, EntryAwaits, EntryStayKeepsInv DEF Entry!handleBack
  <1>4. CASE Entry!submitRegistration
    BY <1>4, EntrySubmitKeepsInv DEF Entry!submitRegistration, Entry!Functions, Entry!Requests
  <1>5. CASE Entry!submitConsents
    <2> DEFINE q == Entry!NextConsent(entryForm.needed)
    <2>1. entryForm.needed \subseteq Entry!Documents
      BY EntryFacts DEF Entry!Form
    <2>2. q \in Entry!Consents \cup {"status"} /\ entryForm.needed \subseteq EntryUngranted(q)
      BY <2>1 DEF Entry!NextConsent, EntryUngranted, Entry!Documents, Entry!Consents
    <2>3. entryOutdated \subseteq entryForm.needed \cup entryLate.form
      BY <1>5, EntryFacts DEF Entry!submitConsents, Entry!ConsentForm, EntryAsks
    <2> DEFINE a == [request |-> q, auth |-> (entryStored /\ q # "grantConsents")]
               r == [entryRun EXCEPT !["grantConsents"] = a]
               g == [entryForm EXCEPT !.waits = "grantConsents"]
    <2>4. /\ Entry!Show(entryPage, entryUser, entryLoading, entryStored, r, g)
          /\ UNCHANGED Entry!server /\ entryLate' = [entryLate EXCEPT !.run = entryLate.form]
      BY <1>5 DEF Entry!submitConsents, Entry!Submit
    <2>5. g \in Entry!Form /\ g.ready = entryForm.ready /\ g.needed = entryForm.needed
      BY EntryFacts DEF Entry!Form, Entry!Functions
    <2>6. (entryStored /\ q # "grantConsents") \in BOOLEAN
      BY EntryFacts
    <2>7. q \in Entry!Requests
      BY <2>2 DEF Entry!Requests, Entry!Consents
    <2> HIDE DEF q
    <2>8. a \in Entry!Await /\ a.request = q
      BY <2>6, <2>7, EntryAwaits
    <2> HIDE DEF a
    <2>9. r \in [Entry!Functions -> Entry!Await] /\ r["grantConsents"] = a
      BY <2>8, EntryFacts DEF Entry!Functions
    <2> HIDE DEF r, g
    <2>10. /\ entryLate' \in [form : SUBSET Entry!Documents, run : SUBSET Entry!Documents]
           /\ entryLate'.run = entryLate.form /\ entryLate'.form = entryLate.form
      BY <2>4, EntryFacts DEF EntryServerOK
    <2>11. EntryServerOK' /\ entryOutdated' = entryOutdated
      BY <2>4, <2>10, EntryFacts DEF EntryServerOK, Entry!server
    <2>12. EntryRests(r["grantConsents"].request, entryOutdated', entryLate')
      BY <2>2, <2>3, <2>8, <2>9, <2>10, <2>11 DEF EntryRests
    <2>13. EntryAsks(entryPage, g, entryOutdated', entryLate')
      BY <2>5, <2>10, <2>11, EntryFacts DEF EntryAsks
    <2>14. entryPage \in Entry!Public \cup Entry!Protected /\ entryUser \in BOOLEAN
           /\ entryLoading \in BOOLEAN /\ entryStored \in BOOLEAN
      BY EntryFacts
    <2> QED
      BY <2>4, <2>5, <2>9, <2>11, <2>12, <2>13, <2>14, EntryShowKeepsInv
  <1>6. CASE Entry!retryLoad
    <2> DEFINE a == [request |-> "status", auth |-> entryStored]
               g == "loadConsentStatus"
    <2>1. a \in Entry!Await /\ a.request = "status"
      BY EntryFacts, EntryAwaits DEF Entry!Requests
    <2>2. Entry!Show(entryPage, entryUser, entryLoading, entryStored, [entryRun EXCEPT ![g] = a], entryForm) /\ UNCHANGED <<Entry!server, entryLate>>
      BY <1>6 DEF Entry!retryLoad
    <2>3. g \in Entry!Functions /\ g # "grantConsents"
      BY DEF Entry!Functions
    <2> HIDE DEF a, g
    <2> QED
      BY <2>1, <2>2, <2>3, EntryFacts, EntryQuietKeepsInv
  <1>7. CASE Entry!Follow
    <2>1. PICK p \in {"register", "login", "app"} : Entry!Show(p, entryUser, entryLoading, entryStored, entryRun, Entry!Blank)
      BY <1>7 DEF Entry!Follow
    <2>2. UNCHANGED <<Entry!server, entryLate>>
      BY <1>7 DEF Entry!Follow
    <2>3. p \in Entry!Public \cup Entry!Protected
      BY DEF Entry!Public, Entry!Protected
    <2> QED
      BY <2>1, <2>2, <2>3, EntryFacts, EntryAwaits, EntryStayKeepsInv
  <1>8. CASE Entry!openResend
    <2> DEFINE g == [entryForm EXCEPT !.shows = "resend"]
    <2>1. g \in Entry!Form /\ g.ready = entryForm.ready /\ g.needed = entryForm.needed
      BY EntryFacts DEF Entry!Form
    <2>2. Entry!Show(entryPage, entryUser, entryLoading, entryStored, entryRun, g)
          /\ UNCHANGED <<Entry!server, entryLate>>
      BY <1>8 DEF Entry!openResend
    <2> HIDE DEF g
    <2> QED
      BY <2>1, <2>2, EntryFacts, EntryStayKeepsInv
  <1>9. CASE Entry!handleResend
    BY <1>9, EntrySubmitKeepsInv DEF Entry!handleResend, Entry!Functions, Entry!Requests
  <1>10. CASE Entry!logout
    <2> DEFINE no == FALSE
    <2>1. Entry!Show("login", no, entryLoading, no, entryRun, entryForm) /\ UNCHANGED Entry!server
      BY <1>10 DEF Entry!logout
    <2>2. UNCHANGED entryLate /\ no \in BOOLEAN /\ "login" \in Entry!Public
      BY <1>10 DEF Entry!logout, Entry!Public
    <2> HIDE DEF no
    <2> QED
      BY <2>1, <2>2, EntryFacts, EntryStayKeepsInv
  <1>11. CASE Entry!Reload
    <2>1. entryPage' \in Entry!Public \cup Entry!Protected
      BY <1>11, EntryFacts DEF Entry!Reload, Entry!ProtectedRoute, Entry!Public, Entry!Protected
    <2>2. EntryServerOK' /\ entryStored' = entryStored
      BY <1>11, EntryFacts DEF Entry!Reload, Entry!server, EntryServerOK
    <2> QED
      BY <1>11, <2>1, <2>2, EntryFacts, EntryLoadedInv DEF Entry!Reload
  <1> QED
    BY <1>1, <1>2, <1>3, <1>4, <1>5, <1>6, <1>7, <1>8, <1>9, <1>10, <1>11 DEF Entry!Act

-----------------------------------------------------------------------------
(* The answers.                                                            *)

\* A function that ends releases its form and leaves the rest of it.
LEMMA EntryReleasedForm ==
  ASSUME EntryInv, NEW f \in Entry!Functions
  PROVE  /\ Entry!Released(f) \in Entry!Form /\ Entry!Released(f).ready = entryForm.ready
         /\ Entry!Released(f).needed = entryForm.needed
         /\ Entry!Ends(f) = [entryRun EXCEPT ![f] = Entry!Done]
         /\ Entry!Done \in Entry!Await /\ Entry!Done.request = "none" /\ Entry!Done.request # "me"
         /\ EntryRests(Entry!Done.request, entryOutdated, entryLate)
  BY EntryFacts, EntryAwaits DEF Entry!Released, Entry!Form, Entry!Ends, EntryRests

\* The function ends, whatever it waited for, and stays on its page.
LEMMA EntryEndKeepsInv ==
  ASSUME EntryInv, NEW p \in Entry!Public \cup Entry!Protected, NEW u \in BOOLEAN,
         NEW l \in BOOLEAN, NEW st \in BOOLEAN, NEW g \in Entry!Functions,
         NEW f \in Entry!Form, Entry!Show(p, u, l, st, Entry!Ends(g), f),
         UNCHANGED <<Entry!server, entryLate>>,
         f.ready = "yes" => entryForm.ready = "yes" /\ f.needed = entryForm.needed
  PROVE  EntryInv'
  BY EntryReleasedForm, EntryQuietKeepsInv

\* A request that failed may have dropped the tokens.
LEMMA EntryKept ==
  ASSUME EntryInv
  PROVE  Entry!Kept \subseteq BOOLEAN
  BY EntryFacts DEF Entry!Kept

\* The answers to those who sign in.
LEMMA EntrySignInAnswersKeepInv ==
  ASSUME EntryInv, NEW f \in Entry!Functions,
         Entry!SignedIn(f) \/ Entry!SignInFails(f) \/ Entry!GotUser(f) \/ Entry!NoUser(f)
           \/ (f = "login" /\ Entry!AskCode)
  PROVE  EntryInv'
  <1>0. /\ entryPage \in Entry!Public \cup Entry!Protected /\ entryUser \in BOOLEAN
        /\ entryLoading \in BOOLEAN /\ entryStored \in BOOLEAN
        /\ entryForm \in Entry!Form
    BY EntryFacts
  <1>1. CASE Entry!SignedIn(f)
    <2> DEFINE a == [request |-> "me", auth |-> TRUE]
               r == [entryRun EXCEPT ![f] = a]
               yes == TRUE
    <2>1. a \in Entry!Await /\ a.request = "me" /\ yes \in BOOLEAN /\ yes
      BY EntryAwaits DEF Entry!Requests
    <2>2. r \in [Entry!Functions -> Entry!Await]
          /\ \A g \in Entry!Functions : r[g] = IF g = f THEN a ELSE entryRun[g]
      BY <2>1, EntryFacts
    <2>3. Entry!Show(entryPage, entryUser, entryLoading, yes, r, entryForm)
      BY <1>1 DEF Entry!SignedIn
    <2>4. entryOutdated' \subseteq entryOutdated /\ entryPublished' = entryPublished
          /\ entryLink' = entryLink /\ entryLate' = entryLate
      BY <1>1 DEF Entry!SignedIn
    <2>5. EntryServerOK'
      BY <1>1, <2>4, EntryFacts DEF Entry!SignedIn, EntryServerOK
    <2> HIDE DEF a, yes, r
    <2>6. r["grantConsents"] = entryRun["grantConsents"]
      BY <1>1, <2>2 DEF Entry!Functions, Entry!SignedIn
    <2>7. EntryRests(r["grantConsents"].request, entryOutdated', entryLate')
      BY <2>4, <2>6, EntryFacts DEF EntryRests
    <2>8. EntryAsks(entryPage, entryForm, entryOutdated', entryLate')
      BY <2>4, EntryFacts DEF EntryAsks
    <2> QED
      BY <1>0, <2>1, <2>2, <2>3, <2>5, <2>7, <2>8, EntryShowKeepsInv
  <1>2. ASSUME NEW g \in Entry!Form,
               Entry!Show(entryPage, entryUser, entryLoading, entryStored, Entry!Ends(f), g),
               entryTemp' \in {"none", "fresh", "used"},
               entryOutdated' = entryOutdated, entryPublished' = entryPublished,
               entryLink' = entryLink, entryLate' = entryLate,
               g.ready = entryForm.ready, g.needed = entryForm.needed
        PROVE  EntryInv'
    <2>1. EntryServerOK'
      BY <1>2, EntryFacts DEF EntryServerOK
    <2>2. EntryAsks(entryPage, g, entryOutdated, entryLate)
      BY <1>2, EntryFacts DEF EntryAsks
    <2>3. f = "grantConsents" => EntryRests(Entry!Done.request, entryOutdated, entryLate)
      BY EntryReleasedForm
    <2> QED
      BY <1>0, <1>2, <2>1, <2>2, <2>3, EntryReleasedForm, EntryAwaitKeepsInv
  <1>3. CASE Entry!SignInFails(f)
    <2>1. entryTemp' \in {"none", "fresh", "used"}
      BY <1>3, EntryFacts DEF Entry!SignInFails, EntryServerOK
    <2> QED
      BY <1>2, <1>3, <2>1, EntryReleasedForm DEF Entry!SignInFails
  <1>4. CASE f = "login" /\ Entry!AskCode
    <2> DEFINE g == IF entryForm.waits =
          "login" THEN [entryForm EXCEPT !.waits = "none", !.code = TRUE] ELSE entryForm
    <2>1. g \in Entry!Form /\ g.ready = entryForm.ready /\ g.needed = entryForm.needed
      BY EntryFacts DEF Entry!Form
    <2>2. Entry!Show(entryPage, entryUser, entryLoading, entryStored, Entry!Ends(f), g)
      BY <1>4 DEF Entry!AskCode
    <2>3. entryTemp' \in {"none", "fresh", "used"} /\ entryOutdated' = entryOutdated
          /\ entryPublished' = entryPublished /\ entryLink' = entryLink /\ entryLate' = entryLate
      BY <1>4 DEF Entry!AskCode
    <2> HIDE DEF g
    <2> QED
      BY <1>2, <2>1, <2>2, <2>3
  <1>5. CASE Entry!GotUser(f)
    <2> DEFINE yes == TRUE
    <2>2. yes \in BOOLEAN /\ "app" \in Entry!Public \cup Entry!Protected
      BY DEF Entry!Protected
    <2>3. CASE f = "register"
      <3>1. Entry!Show("app", yes, entryLoading, entryStored, Entry!Ends(f), Entry!Released(f))
            /\ UNCHANGED <<Entry!server, entryLate>>
        BY <1>5, <2>3 DEF Entry!GotUser
      <3> HIDE DEF yes
      <3> QED
        BY <1>0, <2>2, <3>1, EntryReleasedForm, EntryEndKeepsInv
    <2>4. CASE f # "register"
      <3> DEFINE a == [request |-> "status", auth |-> entryStored]
      <3>1. Entry!Show(entryPage, yes, entryLoading, entryStored, [entryRun EXCEPT ![f] = a], entryForm) /\ UNCHANGED <<Entry!server, entryLate>>
        BY <1>5, <2>4 DEF Entry!GotUser, Entry!Goes
      <3>2. a \in Entry!Await /\ a.request = "status"
        BY <1>0, EntryAwaits DEF Entry!Requests
      <3>3. f # "grantConsents"
        BY <1>5, EntryFacts DEF Entry!GotUser, EntryRests, Entry!Consents
      <3> HIDE DEF yes, a
      <3> QED
        BY <1>0, <2>2, <3>1, <3>2, <3>3, EntryQuietKeepsInv
    <2> QED
      BY <2>3, <2>4
  <1>6. CASE Entry!NoUser(f)
    BY <1>0, <1>6, EntryKept, EntryReleasedForm, EntryEndKeepsInv DEF Entry!NoUser
  <1> QED
    BY <1>1, <1>3, <1>4, <1>5, <1>6

\* The user that could not be loaded.
LEMMA EntryLoadFailsKeepsInv ==
  ASSUME EntryInv, Entry!LoadFails
  PROVE  EntryInv'
  <1> DEFINE no == FALSE
             g  == "loadUser"
             r  == [entryRun EXCEPT ![g] = Entry!Done]
  <1>1. Entry!Show(entryPage, entryUser, no, no, r, entryForm)
        /\ UNCHANGED <<Entry!server, entryLate>>
    BY DEF Entry!LoadFails, Entry!Ends
  <1>2. no \in BOOLEAN /\ g \in Entry!Functions /\ g # "grantConsents"
    BY DEF Entry!Functions
  <1>3. r \in [Entry!Functions -> Entry!Await]
        /\ \A h \in Entry!Functions : r[h] = IF h = g THEN Entry!Done ELSE entryRun[h]
    BY EntryFacts, EntryAwaits
  <1> HIDE DEF no, g, r
  <1>4. r["grantConsents"] = entryRun["grantConsents"]
    BY <1>2, <1>3 DEF Entry!Functions
  <1>5. EntryServerOK' /\ entryOutdated' = entryOutdated /\ entryLate' = entryLate
    BY <1>1, EntryFacts DEF Entry!server, EntryServerOK
  <1>6. EntryRests(r["grantConsents"].request, entryOutdated', entryLate')
        /\ EntryAsks(entryPage, entryForm, entryOutdated', entryLate')
    BY <1>4, <1>5, EntryFacts
  <1>7. entryPage \in Entry!Public \cup Entry!Protected /\ entryUser \in BOOLEAN
        /\ entryForm \in Entry!Form
    BY EntryFacts
  <1> QED
    BY <1>1, <1>2, <1>3, <1>5, <1>6, <1>7, EntryShowKeepsInv

\* What the consents wait for.
LEMMA EntryConsentAnswersKeepInv ==
  ASSUME EntryInv, NEW f \in Entry!Functions,
         \/ Entry!checkConsentStatus(f)
         \/ f = "loadConsentStatus" /\ Entry!loadConsentStatus
         \/ f = "grantConsents" /\ (Entry!Grant \/ Entry!GrantFails)
  PROVE  EntryInv'
  <1>0. /\ entryPage \in Entry!Public \cup Entry!Protected /\ entryUser \in BOOLEAN
        /\ entryLoading \in BOOLEAN /\ entryStored \in BOOLEAN
        /\ entryForm \in Entry!Form
    BY EntryFacts
  <1>1. CASE Entry!checkConsentStatus(f)
    <2>1. PICK p \in {"app", "reconsent", entryPage} : \E l \in BOOLEAN, st \in BOOLEAN :
            Entry!Show(p, entryUser, l, st, Entry!Ends(f), Entry!Released(f))
      BY <1>0, <1>1, EntryKept DEF Entry!checkConsentStatus
    <2>2. p \in Entry!Public \cup Entry!Protected
      BY <1>0 DEF Entry!Protected
    <2>3. UNCHANGED <<Entry!server, entryLate>>
      BY <1>1 DEF Entry!checkConsentStatus
    <2> QED
      BY <1>0, <2>1, <2>2, <2>3, EntryReleasedForm, EntryEndKeepsInv
  <1>2. CASE f = "loadConsentStatus" /\ Entry!loadConsentStatus
    <2>1. /\ [entryForm EXCEPT !.ready = "yes", !.needed = entryOutdated] \in Entry!Form
          /\ [entryForm EXCEPT !.ready = "yes", !.needed = entryOutdated].needed = entryOutdated
          /\ [entryForm EXCEPT !.ready = "failed"] \in Entry!Form
          /\ [entryForm EXCEPT !.ready = "failed"].ready = "failed"
      BY <1>0, EntryFacts DEF Entry!Form, EntryServerOK
    <2>2. UNCHANGED Entry!server
      BY <1>2 DEF Entry!loadConsentStatus
    <2>3. CASE /\ Entry!Show(entryPage, entryUser, entryLoading, entryStored, Entry!Ends(f),
                              IF entryPage = "reconsent"
                              THEN [entryForm EXCEPT !.ready = "yes", !.needed = entryOutdated] ELSE entryForm)
               /\ entryLate' = [entryLate EXCEPT !.form = IF entryPage = "reconsent" THEN {} ELSE @]
      <3> DEFINE g == IF entryPage = "reconsent"
                      THEN [entryForm EXCEPT !.ready = "yes", !.needed = entryOutdated] ELSE entryForm
      <3>1. Entry!Show(entryPage, entryUser, entryLoading, entryStored, Entry!Ends(f), g)
            /\ g \in Entry!Form
        BY <1>0, <2>1, <2>3
      <3>2. EntryAsks(entryPage, g, entryOutdated, entryLate')
        BY <2>1 DEF EntryAsks
      <3>3. EntryServerOK' /\ entryOutdated' = entryOutdated /\ entryLate'.run = entryLate.run
        BY <2>2, <2>3, EntryFacts DEF Entry!server, EntryServerOK
      <3> HIDE DEF g
      <3> QED
        BY <1>0, <1>2, <3>1, <3>2, <3>3, EntryReleasedForm, EntryAwaitKeepsInv
    <2>4. ASSUME NEW st \in Entry!Kept, UNCHANGED entryLate,
                 Entry!Show(entryPage, entryUser, entryLoading, st, Entry!Ends(f),
                            IF entryPage = "reconsent" THEN [entryForm EXCEPT !.ready = "failed"]
                            ELSE entryForm)
          PROVE  EntryInv'
      <3> DEFINE g == IF entryPage = "reconsent" THEN [entryForm EXCEPT !.ready = "failed"] ELSE entryForm
      <3>1. Entry!Show(entryPage, entryUser, entryLoading, st, Entry!Ends(f), g)
            /\ g \in Entry!Form
        BY <1>0, <2>1, <2>4
      <3>2. g.ready = "yes" => entryForm.ready = "yes" /\ g.needed = entryForm.needed
        BY <2>1
      <3>3. st \in BOOLEAN /\ UNCHANGED <<Entry!server, entryLate>>
        BY <2>2, <2>4, EntryKept
      <3> HIDE DEF g
      <3> QED
        BY <1>0, <3>1, <3>2, <3>3, EntryEndKeepsInv
    <2> QED
      BY <1>2, <2>3, <2>4 DEF Entry!loadConsentStatus
  <1>3. CASE f = "grantConsents" /\ Entry!Grant
    <2> DEFINE q == IF entryRun["grantConsents"].request = "both" THEN "privacy" ELSE "status"
               a == [request |-> q, auth |-> entryStored]
               r == [entryRun EXCEPT ![f] = a]
    <2>1. a \in Entry!Await /\ a.request = q
      BY <1>0, EntryAwaits DEF Entry!Requests
    <2>2. r \in [Entry!Functions -> Entry!Await]
          /\ \A g \in Entry!Functions : r[g] = IF g = f THEN a ELSE entryRun[g]
      BY <2>1, EntryFacts
    <2>3. Entry!Show(entryPage, entryUser, entryLoading, entryStored, r, entryForm)
      BY <1>3 DEF Entry!Grant, Entry!Goes
    <2>4. /\ entryOutdated' = entryOutdated \ ({Entry!Granted} \ entryLate.run)
          /\ UNCHANGED <<entryPublished, entryTemp, entryLink, entryLate>>
          /\ entryRun["grantConsents"].request \in {"both", "terms", "privacy"}
      BY <1>3 DEF Entry!Grant, Entry!Consents
    <2>5. EntryServerOK' /\ entryOutdated' \subseteq entryOutdated
      BY <2>4, EntryFacts DEF EntryServerOK
    <2>6. EntryRests(q, entryOutdated', entryLate')
      <3>1. entryOutdated \subseteq EntryUngranted(entryRun["grantConsents"].request) \cup entryLate.run
        BY <2>4, EntryFacts DEF EntryRests
      <3>2. CASE entryRun["grantConsents"].request = "both"
        <4>1. Entry!Granted = "terms" /\ q = "privacy" /\ entryOutdated \subseteq {"terms", "privacy"}
          BY <3>2, EntryFacts DEF Entry!Granted, EntryServerOK, Entry!Documents
        <4>2. entryOutdated' \subseteq {"privacy"} \cup entryLate'.run
          BY <2>4, <4>1
        <4> QED
          BY <4>1, <4>2 DEF EntryRests, EntryUngranted, Entry!Consents
      <3>3. CASE entryRun["grantConsents"].request # "both"
        <4>1. q = "status" /\ EntryUngranted(entryRun["grantConsents"].request) = {Entry!Granted}
          BY <2>4, <3>3 DEF Entry!Granted, EntryUngranted
        <4>2. entryOutdated' \subseteq entryLate'.run
          BY <2>4, <3>1, <4>1
        <4> QED
          BY <4>1, <4>2 DEF EntryRests
      <3> QED
        BY <3>2, <3>3
    <2>7. EntryAsks(entryPage, entryForm, entryOutdated', entryLate')
      BY <2>4, <2>5, EntryFacts DEF EntryAsks
    <2> HIDE DEF q
    <2>8. EntryRests(a.request, entryOutdated', entryLate')
      BY <2>6
    <2> HIDE DEF a, r
    <2>9. EntryRests(r["grantConsents"].request, entryOutdated', entryLate')
      BY <1>3, <2>2, <2>8
    <2> QED
      BY <1>0, <2>2, <2>3, <2>5, <2>7, <2>9, EntryShowKeepsInv
  <1>4. CASE f = "grantConsents" /\ Entry!GrantFails
    BY <1>0, <1>4, EntryKept, EntryReleasedForm, EntryEndKeepsInv DEF Entry!GrantFails
  <1> QED
    BY <1>1, <1>2, <1>3, <1>4

\* The versions, the link of a mail and another mail.
LEMMA EntryMailAnswersKeepInv ==
  ASSUME EntryInv, NEW f \in Entry!Functions,
         \/ f = "loadLegalVersions" /\ Entry!loadLegalVersions
         \/ f = "followLink" /\ (Entry!useLink \/ Entry!LinkRefused \/ Entry!LinkUser)
         \/ f = "resend" /\ Entry!resent
  PROVE  EntryInv'
  <1>0. /\ entryPage \in Entry!Public \cup Entry!Protected /\ entryUser \in BOOLEAN
        /\ entryLoading \in BOOLEAN /\ entryStored \in BOOLEAN
        /\ entryForm \in Entry!Form
    BY EntryFacts
  <1>1. CASE f = "loadLegalVersions" /\ Entry!loadLegalVersions
    <2>1. PICK ready \in {"yes", "no"} :
            Entry!Show(entryPage, entryUser, entryLoading, entryStored, Entry!Ends(f), IF entryPage = "register" THEN [entryForm EXCEPT !.ready = ready] ELSE entryForm)
      BY <1>1 DEF Entry!loadLegalVersions
    <2> DEFINE g == IF entryPage = "register" THEN [entryForm EXCEPT !.ready = ready] ELSE entryForm
    <2>2. g \in Entry!Form /\ (entryPage # "register" => g = entryForm)
      BY <1>0 DEF Entry!Form
    <2>3. Entry!Show(entryPage, entryUser, entryLoading, entryStored, Entry!Ends(f), g)
      BY <2>1
    <2> HIDE DEF g
    <2>4. EntryAsks(entryPage, g, entryOutdated, entryLate)
      BY <2>2, EntryFacts DEF EntryAsks
    <2>5. EntryServerOK' /\ entryOutdated' = entryOutdated /\ entryLate' = entryLate
      BY <1>1, EntryFacts DEF Entry!loadLegalVersions, Entry!server, EntryServerOK
    <2> QED
      BY <1>0, <2>2, <2>3, <2>4, <2>5, EntryReleasedForm, EntryAwaitKeepsInv
  <1>2. \A s \in {"loading", "success", "error", "resend", "sent", "unsent"} :
          /\ [entryForm EXCEPT !.shows = s] \in Entry!Form
          /\ [entryForm EXCEPT !.shows = s].ready = entryForm.ready
          /\ [entryForm EXCEPT !.shows = s].needed = entryForm.needed
    BY <1>0 DEF Entry!Form
  <1>3. CASE f = "followLink" /\ Entry!useLink
    <2>1. EntryServerOK' /\ entryOutdated' = entryOutdated /\ entryLate' = entryLate
      BY <1>3, EntryFacts DEF Entry!useLink, EntryServerOK
    <2>2. ASSUME NEW a \in Entry!Await, NEW g \in Entry!Form,
                 Entry!Show(entryPage, entryUser, entryLoading, entryStored, [entryRun EXCEPT ![f] = a], g),
                 g.ready = entryForm.ready, g.needed = entryForm.needed
          PROVE  EntryInv'
      <3>1. EntryAsks(entryPage, g, entryOutdated, entryLate)
        BY <2>2, EntryFacts DEF EntryAsks
      <3> QED
        BY <1>0, <1>3, <2>1, <2>2, <3>1, EntryAwaitKeepsInv
    <2>3. CASE entryStored
      <3> DEFINE a == [request |-> "me", auth |-> entryStored]
      <3>1. a \in Entry!Await
        BY <1>0, EntryAwaits DEF Entry!Requests
      <3>2. Entry!Show(entryPage, entryUser, entryLoading, entryStored, [entryRun EXCEPT ![f] = a], entryForm)
        BY <1>3, <2>3 DEF Entry!useLink, Entry!Goes
      <3> HIDE DEF a
      <3> QED
        BY <1>0, <2>2, <3>1, <3>2
    <2>4. CASE ~entryStored
      <3> DEFINE g == IF entryPage \in {"verify", "confirm"} THEN [entryForm EXCEPT !.shows = "success"] ELSE entryForm
      <3>1. g \in Entry!Form /\ g.ready = entryForm.ready /\ g.needed = entryForm.needed
        BY <1>0, <1>2
      <3>2. Entry!Show(entryPage, entryUser, entryLoading, entryStored, [entryRun EXCEPT ![f] = Entry!Done], g)
        BY <1>3, <2>4 DEF Entry!useLink, Entry!Ends
      <3> HIDE DEF g
      <3> QED
        BY <2>2, <3>1, <3>2, EntryReleasedForm
    <2> QED
      BY <2>3, <2>4
  <1>4. ASSUME NEW g \in Entry!Form, NEW st \in BOOLEAN,
               Entry!Show(entryPage, entryUser, entryLoading, st, Entry!Ends(f), g),
               UNCHANGED <<Entry!server, entryLate>>,
               g.ready = entryForm.ready, g.needed = entryForm.needed
        PROVE  EntryInv'
    BY <1>0, <1>4, EntryEndKeepsInv
  <1>5. CASE f = "followLink" /\ (Entry!LinkRefused \/ Entry!LinkUser)
    <2>1. PICK s \in {"success", "error"}, st \in BOOLEAN :
            Entry!Show(entryPage, entryUser, entryLoading, st, Entry!Ends(f),
                 IF entryPage \in {"verify", "confirm"} THEN [entryForm EXCEPT !.shows = s] ELSE entryForm)
      BY <1>0, <1>5, EntryKept DEF Entry!LinkRefused, Entry!LinkUser
    <2>2. UNCHANGED <<Entry!server, entryLate>>
      BY <1>5 DEF Entry!LinkRefused, Entry!LinkUser
    <2> QED
      BY <1>0, <1>2, <1>4, <2>1, <2>2
  <1>6. CASE f = "resend" /\ Entry!resent
    <2>1. PICK s \in {"sent", "unsent"} : Entry!Show(entryPage, entryUser, entryLoading, entryStored, Entry!Ends(f),
                 IF entryForm.waits =
                   "resend" THEN [entryForm EXCEPT !.waits = "none", !.shows = s] ELSE entryForm)
      BY <1>6 DEF Entry!resent
    <2> DEFINE g == IF entryForm.waits =
          "resend" THEN [entryForm EXCEPT !.waits = "none", !.shows = s] ELSE entryForm
    <2>2. g \in Entry!Form /\ g.ready = entryForm.ready /\ g.needed = entryForm.needed
      BY <1>0 DEF Entry!Form
    <2>3. Entry!Show(entryPage, entryUser, entryLoading, entryStored, Entry!Ends(f), g)
      BY <2>1
    <2>4. UNCHANGED <<Entry!server, entryLate>>
      BY <1>6 DEF Entry!resent
    <2> HIDE DEF g
    <2> QED
      BY <1>0, <1>4, <2>2, <2>3, <2>4
  <1> QED
    BY <1>1, <1>3, <1>5, <1>6

-----------------------------------------------------------------------------
\* Every step of the entry pages keeps their invariant.
LEMMA EntryStepInv ==
  ASSUME Entry!SignInAssumption, EntryInv, Entry!Next \/ UNCHANGED Entry!vars
  PROVE  EntryInv'
  <1>1. CASE UNCHANGED Entry!vars
    BY <1>1 DEF Entry!vars, EntryInv, Entry!TypeOK, EntryGrantsRest, EntryAsksForAll, EntryRests, EntryAsks
  <1>2. CASE Entry!Act
    BY <1>2, EntryActKeepsInv
  <1>3. ASSUME NEW f \in Entry!Functions, Entry!Answer(f)
        PROVE  EntryInv'
    BY <1>3, EntrySignInAnswersKeepInv, EntryLoadFailsKeepsInv, EntryConsentAnswersKeepInv,
      EntryMailAnswersKeepInv DEF Entry!Answer
  <1>4. ASSUME NEW f \in Entry!Functions, Entry!ThrownOut(f)
        PROVE  EntryInv'
    <2>1. entryRun' = [g \in Entry!Functions |-> Entry!Done] /\ entryPage' = "login"
          /\ entryUser' = FALSE /\ entryLoading' = FALSE
          /\ entryStored' = FALSE /\ entryForm' = Entry!Blank /\ UNCHANGED <<Entry!server, entryLate>>
      BY <1>4 DEF Entry!ThrownOut
    <2>2. entryRun' \in [Entry!Functions -> Entry!Await]
          /\ \A g \in Entry!Functions : entryRun'[g].request = "none"
      BY <2>1, EntryAwaits
    <2>3. EntryServerOK'
      BY <2>1, EntryFacts DEF Entry!server, EntryServerOK
    <2>4. Entry!TypeOK'
      BY <2>1, <2>2, <2>3, EntryAwaits DEF Entry!TypeOK, EntryServerOK, Entry!Public
    <2>5. entryRun'["grantConsents"].request = "none"
      BY <2>2 DEF Entry!Functions
    <2> QED
      BY <2>1, <2>2, <2>4, <2>5 DEF EntryInv, EntryGrantsRest, EntryAsksForAll, EntryRests, EntryAsks
  <1>5. ASSUME NEW d \in Entry!Documents, Entry!Publish(d)
        PROVE  EntryInv'
    <2>1. /\ entryPublished \in 0..MaxPublished /\ entryOutdated \subseteq Entry!Documents
          /\ entryPublished < MaxPublished /\ entryPublished' = entryPublished + 1
          /\ entryOutdated' = entryOutdated \cup {d}
          /\ entryLate' = [form |-> entryLate.form \cup {d}, run |-> entryLate.run \cup {d}]
          /\ UNCHANGED <<entryPage, entryUser, entryLoading, entryStored, entryRun, entryForm,
                         entryTemp, entryLink>>
      BY <1>5, EntryFacts DEF Entry!Publish, EntryServerOK
    <2>2. /\ entryPublished' \in 0..MaxPublished /\ entryOutdated' \subseteq Entry!Documents
          /\ entryLate \in [form : SUBSET Entry!Documents, run : SUBSET Entry!Documents]
          /\ entryLate' \in [form : SUBSET Entry!Documents, run : SUBSET Entry!Documents]
      BY <2>1, EntryFacts DEF Entry!SignInAssumption, EntryServerOK
    <2>3. Entry!TypeOK'
      BY <2>1, <2>2 DEF Entry!TypeOK, EntryInv
    <2>5. EntryGrantsRest' /\ EntryAsksForAll'
      BY <2>1, <2>2 DEF EntryInv, EntryGrantsRest, EntryAsksForAll, EntryRests, EntryAsks
    <2> QED
      BY <2>3, <2>5 DEF EntryInv
  <1> QED
    BY <1>1, <1>2, <1>3, <1>4, <1>5 DEF Entry!Next

\* The app is opened for a user whose consents rest on nothing.
LEMMA EntryOpened ==
  ASSUME EntryInv
  PROVE  Entry!GateOpens
  BY EntryFacts DEF Entry!GateOpens, EntryRests, EntryUngranted, Entry!Consents

\* A step while this page is followed is a step of the page, or leaves it alone.
LEMMA EntryFrame ==
  ASSUME page = "sign-in", Next \/ UNCHANGED vars
  PROVE  page' = "sign-in" /\ (Entry!Next \/ UNCHANGED Entry!vars)
  BY DEF Next, vars, EntryNext, ItemsNext, BoardNext, RowsNext, TransfersNext,
    MembersNext, FormNext, ListsNext, PanelNext, MarksNext, DefaultsNext, entryVars,
    Entry!vars

-----------------------------------------------------------------------------
(***************************************************************************)
(* The select (Listbox).                                                   *)
(***************************************************************************)

(* The rows.                                                               *)

\* The number of elements the module Listbox counts is the usual one.
LEMMA PanelCounting == \A S : Panel!Cardinality(S) = Cardinality(S)
  BY DEF Panel!Cardinality, Cardinality

\* The rows are the options, each at the place of its rank.
LEMMA PanelRanked ==
  ASSUME NEW S, IsFiniteSet(S), S \subseteq Nat
  PROVE  \A i \in 1..Panel!Cardinality(S) : \E o \in S : Panel!Cardinality({x \in S : x <= o}) = i
  <1> DEFINE n == Panel!Cardinality(S)
             UpTo(o) == {x \in S : x <= o}
             rank == [o \in S |-> Panel!Cardinality(UpTo(o))]
  <1>1. n \in Nat
    BY PanelCounting, FS_CardinalityType
  <1>2. \A o \in S : o \in UpTo(o) /\ UpTo(o) \subseteq S
    OBVIOUS
  <1>3. \A a, b \in S : a # b =>
          \/ UpTo(a) \subseteq UpTo(b) /\ UpTo(a) # UpTo(b)
          \/ UpTo(b) \subseteq UpTo(a) /\ UpTo(b) # UpTo(a)
    <2> TAKE a, b \in S
    <2>1. CASE a < b
      <3>1. a \in Nat /\ b \in Nat
        OBVIOUS
      <3>2. \A x \in S : x \in Nat /\ (x <= a => x <= b)
        BY <2>1, <3>1
      <3>3. UpTo(a) \subseteq UpTo(b)
        BY <3>2
      <3>4. b \in UpTo(b) /\ ~(b <= a)
        BY <2>1, <3>1
      <3> QED
        BY <3>3, <3>4
    <2>2. CASE b < a
      <3>1. a \in Nat /\ b \in Nat
        OBVIOUS
      <3>2. \A x \in S : x \in Nat /\ (x <= b => x <= a)
        BY <2>2, <3>1
      <3>3. UpTo(b) \subseteq UpTo(a)
        BY <3>2
      <3>4. a \in UpTo(a) /\ ~(a <= b)
        BY <2>2, <3>1
      <3> QED
        BY <3>3, <3>4
    <2> QED
      BY <2>1, <2>2
  <1> HIDE DEF UpTo, n
  <1>4. \A o \in S : /\ IsFiniteSet(UpTo(o)) /\ Panel!Cardinality(UpTo(o)) \in Nat
                     /\ Panel!Cardinality(UpTo(o)) <= n /\ Panel!Cardinality(UpTo(o)) # 0
    BY <1>2, PanelCounting, FS_Subset, FS_EmptySet, FS_CardinalityType DEF n
  <1>5. rank \in [S -> 1..n]
    BY <1>1, <1>4
  <1>6. \A a, b \in S : rank[a] = rank[b] => a = b
    <2> TAKE a, b \in S
    <2>1. ASSUME a # b
          PROVE  Panel!Cardinality(UpTo(a)) # Panel!Cardinality(UpTo(b))
      BY <1>3, <1>4, <2>1, PanelCounting, FS_Subset
    <2> QED
      BY <2>1
  <1> HIDE DEF rank
  <1>7. rank \in Injection(S, 1..n)
    BY <1>5, <1>6 DEF Injection, IsInjective
  <1>8. IsFiniteSet(1..n) /\ Panel!Cardinality(1..n) = n
    BY <1>1, PanelCounting, FS_Interval
  <1>9. rank \in Surjection(S, 1..n)
    BY <1>7, <1>8, PanelCounting, FS_Injection DEF n
  <1>10. \A i \in 1..n : \E o \in S : rank[o] = i
    BY <1>9 DEF Surjection
  <1>11. \A o \in S : rank[o] = Panel!Cardinality(UpTo(o))
    BY DEF rank
  <1> QED
    BY <1>10, <1>11 DEF UpTo, n

\* The rows in order are those of the set.
LEMMA PanelRowsInOrder ==
  ASSUME Panel!ListboxAssumption, NEW S \in SUBSET (1..N)
  PROVE  /\ Len(Panel!InOrder(S)) \in 0..N
         /\ \A i \in 1..Len(Panel!InOrder(S)) : Panel!InOrder(S)[i] \in S
  <1> DEFINE n == Panel!Cardinality(S)
             row(i) == CHOOSE o \in S : Panel!Cardinality({x \in S : x <= o}) = i
  <1>1. N \in Nat /\ IsFiniteSet(1..N) /\ Panel!Cardinality(1..N) = N
    BY PanelCounting, FS_Interval DEF Panel!ListboxAssumption
  <1>2. IsFiniteSet(S) /\ S \subseteq Nat /\ n \in Nat /\ n <= N
    <2>1. IsFiniteSet(S) /\ n <= N
      BY <1>1, PanelCounting, FS_Subset
    <2>2. n \in Nat
      BY <2>1, PanelCounting, FS_CardinalityType
    <2> QED
      BY <1>1, <2>1, <2>2
  <1>3. \A i \in 1..n : \E o \in S : Panel!Cardinality({x \in S : x <= o}) = i
    BY <1>2, PanelRanked
  <1>4. \A i \in 1..n : row(i) \in S
    BY <1>3
  <1>5. Panel!InOrder(S) = [i \in 1..n |-> row(i)]
    BY DEF Panel!InOrder
  <1> HIDE DEF n, row
  <1>6. Len(Panel!InOrder(S)) = n
    BY <1>2, <1>5
  <1> QED
    BY <1>1, <1>2, <1>4, <1>5, <1>6

-----------------------------------------------------------------------------
(* Types.                                                                  *)

\* The rows that are listed are options.
LEMMA PanelListed ==
  ASSUME Panel!ListboxAssumption, Panel!TypeOK
  PROVE  /\ Panel!count \in 0..N
         /\ \A i \in 1..Panel!count : Panel!filteredOptions[i] \in 1..N
  <1> DEFINE S == {opt \in panelOptions : Panel!matchesQuery(opt)}
  <1>1. S \in SUBSET (1..N)
    BY DEF Panel!TypeOK
  <1>2. Panel!count = Len(Panel!InOrder(S)) /\ Panel!filteredOptions = Panel!InOrder(S)
    BY DEF Panel!count, Panel!filteredOptions
  <1> HIDE DEF S
  <1> QED
    BY <1>1, <1>2, PanelRowsInOrder

\* The first row with one of some options is a row, or none.
LEMMA PanelRowIn ==
  ASSUME NEW shown, Len(shown) \in 0..N, N \in Nat, NEW S
  PROVE  Panel!RowIn(shown, S) \in 0..N+1
  <1> DEFINE I == {i \in 1..Len(shown) : shown[i] \in S}
             First(i) == \A j \in I : i <= j
  <1>1. I \in SUBSET Nat /\ \A i \in I : i \in 0..N+1
    OBVIOUS
  <1>2. I # {} => \E i \in I : First(i)
    BY <1>1, LeastNumber
  <1>3. Panel!RowIn(shown, S) = IF I = {} THEN 0 ELSE CHOOSE i \in I : First(i)
    BY DEF Panel!RowIn
  <1> HIDE DEF I, First
  <1>4. CASE I = {}
    BY <1>3, <1>4
  <1>5. CASE I # {}
    <2>1. (CHOOSE i \in I : First(i)) \in I
      BY <1>2, <1>5
    <2> QED
      BY <1>1, <1>3, <1>5, <2>1
  <1> QED
    BY <1>4, <1>5

\* A panel opens on a row of the whole list, or on the first.
LEMMA PanelOpensOn ==
  ASSUME Panel!ListboxAssumption, Panel!TypeOK
  PROVE  Panel!initialHighlightIndex \in 0..N+1
  <1> DEFINE first == Panel!RowIn(Panel!InOrder(panelOptions), panelChosen)
  <1>1. N \in Nat /\ Len(Panel!InOrder(panelOptions)) \in 0..N
    BY PanelRowsInOrder DEF Panel!ListboxAssumption, Panel!TypeOK
  <1>2. first \in 0..N+1
    BY <1>1, PanelRowIn
  <1>3. Panel!initialHighlightIndex = IF first = 0 THEN 1 ELSE first
    BY DEF Panel!initialHighlightIndex
  <1> HIDE DEF first
  <1> QED
    BY <1>1, <1>2, <1>3

\* A row that begins with what was typed is one that is listed.
LEMMA PanelTypedRow ==
  ASSUME Panel!ListboxAssumption, Panel!TypeOK, Panel!TypeAhead
  PROVE  \E row \in 0..N+1 : Panel!Move(row)
  <1>1. N \in Nat /\ Len(Panel!filteredOptions) \in 0..N
    BY PanelListed DEF Panel!ListboxAssumption, Panel!count
  <1>2. PICK labels \in SUBSET (1..N) : Panel!Move(Panel!RowIn(Panel!filteredOptions, labels))
    BY DEF Panel!TypeAhead
  <1>3. Panel!RowIn(Panel!filteredOptions, labels) \in 0..N+1
    BY <1>1, PanelRowIn
  <1> QED
    BY <1>2, <1>3

\* The types of a select's variables hold at the start.
LEMMA PanelInitTypes ==
  ASSUME Panel!ListboxAssumption, Panel!Init
  PROVE  Panel!TypeOK
  <1>1. panelKind = "select" => Panel!Cardinality(panelChosen) <= 1
    BY DEF Panel!Init
  <1>2. panelHighlighted \in 0..N+1
    BY DEF Panel!Init, Panel!ListboxAssumption
  <1> QED
    BY <1>1, <1>2 DEF Panel!Init, Panel!TypeOK

\* What a panel does to itself when it opens, closes, or a row of it is picked.
LEMMA PanelPanelTypes ==
  ASSUME Panel!ListboxAssumption, Panel!TypeOK,
         UNCHANGED <<panelKind, panelOptions, panelIsMobile>>,
         panelDialog' \in BOOLEAN,
         UNCHANGED panelChosen, panelOpen' \in BOOLEAN,
         panelHighlighted' \in 0..N+1, panelQuery' \in {None} \cup SUBSET (1..N),
         panelFocus' \in {"page", "trigger", "search", "row", "sheet"}
  PROVE  Panel!TypeOK'
  BY DEF Panel!TypeOK

\* Choosing a row keeps them.
LEMMA PanelPickTypes ==
  ASSUME Panel!ListboxAssumption, Panel!TypeOK, NEW i,
         NEW f \in SUBSET {"page", "trigger", "search", "row", "sheet"}, Panel!onActivate(i, f)
  PROVE  Panel!TypeOK'
  <1>1. \A j \in 1..Panel!count : Panel!filteredOptions[j] \in 1..N
    BY PanelListed
  <1>2. UNCHANGED <<panelKind, panelDialog, panelOptions, panelIsMobile>>
    BY DEF Panel!onActivate
  <1>3. CASE i \notin 1..Panel!count
    BY <1>3 DEF Panel!onActivate, Panel!TypeOK, Panel!panel
  <1>4. CASE i \in 1..Panel!count /\ panelKind = "select"
    <2>1. panelChosen' = {Panel!filteredOptions[i]} /\ Panel!closePanel
      BY <1>4 DEF Panel!onActivate
    <2>2. Panel!Cardinality(panelChosen') <= 1
      <3> DEFINE opt == Panel!filteredOptions[i]
      <3>1. \A x : Panel!Cardinality({x}) = 1
        BY PanelCounting, FS_Singleton
      <3>2. panelChosen' = {opt}
        BY <2>1
      <3> HIDE DEF opt
      <3> QED
        BY <3>1, <3>2
    <2>3. panelHighlighted' \in 0..N+1
      BY <2>1 DEF Panel!closePanel, Panel!ListboxAssumption
    <2> QED
      BY <1>1, <1>2, <1>4, <2>1, <2>2, <2>3 DEF Panel!TypeOK, Panel!closePanel
  <1>5. CASE i \in 1..Panel!count /\ panelKind # "select"
    <2>1. panelChosen' = Panel!Toggled(Panel!filteredOptions[i])
          /\ panelFocus' \in f /\ UNCHANGED Panel!panel
      BY <1>5 DEF Panel!onActivate
    <2>2. panelChosen' \subseteq 1..N
      BY <1>1, <1>5, <2>1 DEF Panel!TypeOK, Panel!Toggled
    <2> QED
      BY <1>2, <1>5, <2>1, <2>2 DEF Panel!TypeOK, Panel!panel
  <1> QED
    BY <1>3, <1>4, <1>5

\* So does moving the highlight.
LEMMA PanelMoveTypes ==
  ASSUME Panel!ListboxAssumption, Panel!TypeOK, NEW row, Panel!Move(row),
         Panel!count # 0 => row \in 0..N+1
  PROVE  Panel!TypeOK'
  <1>1. panelHighlighted' \in 0..N+1
    <2>1. 0 \in 0..N+1
      BY DEF Panel!ListboxAssumption
    <2>2. panelHighlighted' = IF Panel!count = 0 THEN 0 ELSE row
      BY DEF Panel!Move
    <2> QED
      BY <2>1, <2>2
  <1> QED
    BY <1>1, PanelPanelTypes DEF Panel!Move, Panel!TypeOK

\* Every step keeps them.
LEMMA PanelStepTypes ==
  ASSUME Panel!ListboxAssumption, Panel!TypeOK, Panel!Next \/ UNCHANGED Panel!vars
  PROVE  Panel!TypeOK'
  <1>1. N \in Nat /\ Panel!count \in 0..N /\ panelHighlighted \in 0..N+1 /\ 0 \in 0..N+1
        /\ 1 \in 0..N+1
    BY PanelListed DEF Panel!ListboxAssumption, Panel!TypeOK
  <1>2. ASSUME Panel!openPanel
        PROVE  Panel!TypeOK'
    <2>1. panelHighlighted' \in 0..N+1
      BY <1>2, PanelOpensOn DEF Panel!openPanel
    <2> QED
      BY <1>2, <2>1, PanelPanelTypes DEF Panel!openPanel, Panel!TypeOK
  <1>3. ASSUME Panel!closePanel, UNCHANGED <<panelKind, panelOptions, panelChosen, panelIsMobile>>,
               panelDialog' \in BOOLEAN
        PROVE  Panel!TypeOK'
    BY <1>1, <1>3, PanelPanelTypes DEF Panel!closePanel
  <1>4. ASSUME NEW f \in {"page", "trigger"}, Panel!setClosed(f)
        PROVE  Panel!TypeOK'
    BY <1>4, PanelPanelTypes DEF Panel!setClosed, Panel!TypeOK
  <1>5. CASE Panel!TriggerClick \/ Panel!handlePointerDown \/ Panel!Tab \/ Panel!ArrowOpens
    BY <1>2, <1>4, <1>5 DEF Panel!TriggerClick, Panel!handlePointerDown, Panel!Tab, Panel!ArrowOpens
  <1>6. CASE Panel!ArrowDown
    <2> DEFINE row == IF panelHighlighted = 0 THEN 1 ELSE (panelHighlighted % Panel!count) + 1
    <2>1. Panel!count # 0 => row \in 0..N+1
      <3>1. Panel!count # 0 => panelHighlighted % Panel!count \in 0..(Panel!count - 1)
        BY <1>1
      <3> QED
        BY <1>1, <3>1
    <2>2. Panel!Move(row)
      BY <1>6 DEF Panel!ArrowDown
    <2> HIDE DEF row
    <2> QED
      BY <2>1, <2>2, PanelMoveTypes
  <1>7. CASE Panel!ArrowUp
    <2> DEFINE row == IF panelHighlighted <= 1 THEN Panel!count ELSE panelHighlighted - 1
    <2>1. row \in 0..N+1
      BY <1>1
    <2>2. Panel!Move(row)
      BY <1>7 DEF Panel!ArrowUp
    <2> HIDE DEF row
    <2> QED
      BY <2>1, <2>2, PanelMoveTypes
  <1>8. CASE Panel!Home \/ Panel!End
    <2>1. Panel!count \in 0..N+1
      BY <1>1
    <2>2. CASE Panel!Home
      <3> DEFINE row == 1
      <3>1. Panel!Move(row) /\ row \in 0..N+1
        BY <1>1, <2>2 DEF Panel!Home
      <3> HIDE DEF row
      <3> QED
        BY <3>1, PanelMoveTypes
    <2>3. CASE Panel!End
      BY <2>1, <2>3, PanelMoveTypes DEF Panel!End
    <2> QED
      BY <1>8, <2>2, <2>3
  <1>9. CASE Panel!TypeAhead
    <2>1. PICK row \in 0..N+1 : Panel!Move(row)
      BY <1>9, PanelTypedRow
    <2> QED
      BY <2>1, PanelMoveTypes
  <1>10. CASE Panel!RowClick
    <2> DEFINE f == {panelFocus, "row"}
    <2>1. f \in SUBSET {"page", "trigger", "search", "row", "sheet"}
      BY DEF Panel!TypeOK
    <2>2. \E i \in 1..Panel!count : Panel!onActivate(i, f)
      BY <1>10 DEF Panel!RowClick
    <2> HIDE DEF f
    <2> QED
      BY <2>1, <2>2, PanelPickTypes
  <1>11. CASE Panel!SearchEnter
    <2> DEFINE f == {"search"}
    <2>1. f \in SUBSET {"page", "trigger", "search", "row", "sheet"}
          /\ Panel!onActivate(Panel!match, f)
      BY <1>11 DEF Panel!SearchEnter
    <2> HIDE DEF f
    <2> QED
      BY <2>1, PanelPickTypes
  <1>12. CASE Panel!TriggerEnter
    <2> DEFINE f == {"trigger"}
    <2>1. CASE Panel!onActivate(panelHighlighted, f)
      <3>1. f \in SUBSET {"page", "trigger", "search", "row", "sheet"}
        OBVIOUS
      <3> HIDE DEF f
      <3> QED
        BY <2>1, <3>1, PanelPickTypes
    <2>2. CASE Panel!closePanel /\ UNCHANGED <<panelKind, panelDialog, panelOptions, panelChosen,
                                               panelIsMobile>>
      BY <1>3, <2>2 DEF Panel!TypeOK
    <2> QED
      BY <1>12, <2>1, <2>2 DEF Panel!TriggerEnter
  <1>13. CASE Panel!FocusSearch \/ Panel!FocusTrigger
    BY <1>13 DEF Panel!FocusSearch, Panel!FocusTrigger, Panel!TypeOK, Panel!panel
  <1>14. CASE Panel!Escape
    <2>1. CASE Panel!closePanel /\ UNCHANGED panelDialog
      BY <1>3, <1>14, <2>1 DEF Panel!Escape, Panel!TypeOK
    <2>2. CASE panelDialog' = FALSE /\ panelOpen' = FALSE /\ panelQuery' = None
          /\ panelHighlighted' = 0 /\ panelFocus' = "page"
      BY <1>1, <1>14, <2>2, PanelPanelTypes DEF Panel!Escape
    <2> QED
      BY <1>14, <2>1, <2>2 DEF Panel!Escape
  <1>15. ASSUME NEW value \in {None} \cup SUBSET (1..N), Panel!handleSearchChange(value)
         PROVE  Panel!TypeOK'
    BY <1>1, <1>15, PanelPanelTypes DEF Panel!handleSearchChange, Panel!TypeOK
  <1>16. CASE Panel!Adjust
    BY <1>1, <1>16, PanelPanelTypes DEF Panel!Adjust, Panel!TypeOK
  <1>17. CASE Panel!OpenDialog \/ Panel!OptionsChange
    BY <1>17 DEF Panel!OpenDialog, Panel!OptionsChange, Panel!TypeOK, Panel!panel
  <1>18. CASE Panel!Resize
    <2>1. panelIsMobile' \in BOOLEAN
          /\ panelFocus' \in {"page", "trigger", "search", "row", "sheet"}
      BY <1>18 DEF Panel!Resize, Panel!TypeOK
    <2> QED
      BY <1>18, <2>1 DEF Panel!Resize, Panel!TypeOK, Panel!panel
  <1>19. CASE UNCHANGED Panel!vars
    BY <1>19 DEF Panel!vars, Panel!panel, Panel!TypeOK
  <1> QED
    BY <1>5, <1>6, <1>7, <1>8, <1>9, <1>10, <1>11, <1>12, <1>13, <1>14, <1>15, <1>16,
       <1>17, <1>18, <1>19 DEF Panel!Next, Panel!Listening

-----------------------------------------------------------------------------
(* The focus.                                                              *)

\* Where the focus may be while the panel of a Select is open: a sheet takes it, of a
\* dropdown the trigger and the search box.
PanelFocusOwned ==
  /\ panelIsMobile \in BOOLEAN
  /\ panelKind = "select" /\ panelOpen => panelIsMobile \/ panelFocus \in {"trigger", "search"}

\* The focus is nowhere in a panel at the start.
LEMMA PanelInitFocus ==
  ASSUME Panel!Init
  PROVE  PanelFocusOwned
  BY DEF Panel!Init, PanelFocusOwned

\* A row of a Select that is picked closes the panel.
LEMMA PanelActivated ==
  ASSUME PanelFocusOwned, NEW i, NEW f, Panel!onActivate(i, f)
  PROVE  PanelFocusOwned'
  <1>1. CASE i \notin 1..Panel!count
    BY <1>1 DEF Panel!onActivate, PanelFocusOwned, Panel!panel
  <1>2. CASE i \in 1..Panel!count /\ panelKind = "select"
    BY <1>2 DEF Panel!onActivate, PanelFocusOwned, Panel!closePanel
  <1>3. CASE i \in 1..Panel!count /\ panelKind # "select"
    BY <1>3 DEF Panel!onActivate, PanelFocusOwned
  <1> QED
    BY <1>1, <1>2, <1>3

\* Every step keeps the focus in the dialog or panel that owns it.
LEMMA PanelStepFocus ==
  ASSUME PanelFocusOwned, Panel!Next \/ UNCHANGED Panel!vars
  PROVE  PanelFocusOwned'
  <1>1. ASSUME Panel!openPanel \/ Panel!closePanel, UNCHANGED <<panelKind, panelIsMobile>>
        PROVE  PanelFocusOwned'
    BY <1>1 DEF PanelFocusOwned, Panel!openPanel, Panel!closePanel
  <1>2. ASSUME NEW f, Panel!setClosed(f)
        PROVE  PanelFocusOwned'
    BY <1>2 DEF PanelFocusOwned, Panel!setClosed
  <1>3. ASSUME NEW row, Panel!Move(row)
        PROVE  PanelFocusOwned'
    BY <1>3 DEF PanelFocusOwned, Panel!Move
  <1>4. CASE Panel!TriggerClick \/ Panel!handlePointerDown \/ Panel!Tab \/ Panel!ArrowOpens
    BY <1>1, <1>2, <1>4 DEF Panel!TriggerClick, Panel!handlePointerDown, Panel!Tab,
      Panel!ArrowOpens, Panel!openPanel
  <1>5. CASE Panel!ArrowDown \/ Panel!ArrowUp \/ Panel!Home \/ Panel!End \/ Panel!TypeAhead
    BY <1>3, <1>5 DEF Panel!ArrowDown, Panel!ArrowUp, Panel!Home, Panel!End, Panel!TypeAhead
  <1>6. CASE Panel!RowClick \/ Panel!SearchEnter
    BY <1>6, PanelActivated DEF Panel!RowClick, Panel!SearchEnter
  <1>7. CASE Panel!TriggerEnter
    BY <1>1, <1>7, PanelActivated DEF Panel!TriggerEnter
  <1>8. CASE Panel!FocusSearch \/ Panel!FocusTrigger
    BY <1>8 DEF Panel!FocusSearch, Panel!FocusTrigger, PanelFocusOwned, Panel!panel
  <1>9. CASE Panel!Escape
    BY <1>9 DEF Panel!Escape, PanelFocusOwned, Panel!closePanel
  <1>10. CASE \E value \in {None} \cup SUBSET (1..N) : Panel!handleSearchChange(value)
    BY <1>10 DEF Panel!handleSearchChange, PanelFocusOwned
  <1>11. CASE Panel!Adjust \/ Panel!OpenDialog \/ Panel!OptionsChange
    BY <1>11 DEF Panel!Adjust, Panel!OpenDialog, Panel!OptionsChange, PanelFocusOwned, Panel!panel
  <1>12. CASE Panel!Resize
    <2>1. panelIsMobile' \in BOOLEAN /\ UNCHANGED <<panelKind, panelOpen>>
      BY <1>12 DEF Panel!Resize, Panel!panel
    <2>2. CASE panelIsMobile
      BY <1>12, <2>1, <2>2 DEF Panel!Resize, PanelFocusOwned
    <2>3. CASE ~panelIsMobile
      BY <1>12, <2>1, <2>3 DEF Panel!Resize, PanelFocusOwned
    <2> QED
      BY <2>2, <2>3
  <1>13. CASE UNCHANGED Panel!vars
    BY <1>13 DEF Panel!vars, Panel!panel, PanelFocusOwned
  <1> QED
    BY <1>4, <1>5, <1>6, <1>7, <1>8, <1>9, <1>10, <1>11, <1>12, <1>13 DEF Panel!Next,
      Panel!Listening

\* The key is consumed by the dropdown, or the sheet is what it closes.
LEMMA PanelKeepsDialog ==
  ASSUME PanelFocusOwned
  PROVE  Panel!SelectKeepsDialog
  <1> SUFFICES ASSUME panelKind = "select", panelOpen, Panel!Escape
               PROVE  panelDialog' = panelDialog
    BY DEF Panel!SelectKeepsDialog
  <1>1. CASE panelIsMobile
    <2> DEFINE below == IF panelDialog THEN <<"dialog">> ELSE <<>>
    <2>1. below \in Seq({"dialog"})
      <3>1. <<"dialog">> \in Seq({"dialog"}) /\ <<>> \in Seq({"dialog"})
        OBVIOUS
      <3> QED
        BY <3>1
    <2>2. Panel!overlayStack = below \o <<"sheet">>
      BY <1>1 DEF Panel!overlayStack
    <2> HIDE DEF below
    <2>3. Panel!overlayStack[Len(Panel!overlayStack)] = "sheet"
      BY <2>1, <2>2
    <2> QED
      BY <2>3 DEF Panel!Escape
  <1>2. CASE ~panelIsMobile
    BY <1>2 DEF PanelFocusOwned, Panel!Escape, Panel!consumed
  <1> QED
    BY <1>1, <1>2

\* A step while this page is followed is a step of the page, or leaves it alone.
LEMMA PanelFrame ==
  ASSUME page = "listbox", Next \/ UNCHANGED vars
  PROVE  page' = "listbox" /\ (Panel!Next \/ UNCHANGED Panel!vars)
  BY DEF Next, vars, EntryNext, ItemsNext, BoardNext, RowsNext, TransfersNext,
    MembersNext, FormNext, ListsNext, PanelNext, MarksNext, DefaultsNext, panelVars,
    Panel!vars, Panel!panel

-----------------------------------------------------------------------------
(***************************************************************************)
(* The planned page (PlannedRows).                                         *)
(***************************************************************************)

\* What a request puts is of the row's kind.
RowsPutFits(r) ==
  /\ r.op \in {"save", "cancel"} => r.put \in Rows!Plan
  /\ r.op \in {"toggle", "saveRule"} => r.put \in Rows!Rule

\* A request was served and its answer will have that list fetched.
RowsPending(list) == \E r \in rowsRequests : r.phase = "ok" /\ list \in Rows!Invalidates(r.op)

\* A list that is not as the rows are is fetched, or will be.
RowsWillCatchUp ==
  /\ rowsSeen.plan = rowsPlan \/ "planned" \in rowsStale \/ RowsPending("planned")
  /\ rowsSeen.rule = rowsRule \/ "recurring" \in rowsStale \/ RowsPending("recurring")

RowsInv ==
  /\ Rows!TypeOK /\ \A r \in rowsRequests : RowsPutFits(r)
  /\ Rows!SwitchIsOwn
  /\ ~rowsLost => RowsWillCatchUp

\* What a surface is open for.
RowsRowFits(s) ==
  /\ s # None /\ s.kind \in Rows!PlanKinds => s.row \in Rows!Plan
  /\ s # None /\ s.kind \in Rows!RuleKinds => s.row \in Rows!Rule

-----------------------------------------------------------------------------
\* The invariant of the planned page holds as it is entered.
LEMMA RowsInitInv ==
  ASSUME Rows!PlannedRowsAssumption, Rows!Init
  PROVE  RowsInv
  <1>1. rowsPlan \in Rows!Plan /\ rowsRule \in Rows!Rule /\ rowsDue \in BOOLEAN
    BY DEF Rows!Init
  <1>2. rowsSeen = [plan |-> rowsPlan, due |-> rowsDue, rule |-> None]
    BY DEF Rows!Init
  <1>3. rowsSeen \in [plan : Rows!Plan \cup {None}, due : BOOLEAN, rule : Rows!Rule \cup {None}]
        /\ rowsSeen.plan = rowsPlan
    BY <1>1, <1>2
  <1>4. /\ rowsStale = {"recurring"} /\ rowsView \in {"planned", "recurring"} /\ rowsSurface = None
        /\ rowsDeleteRulePending = FALSE /\ rowsRequests = {} /\ rowsLost = FALSE /\ rowsMoves = 0
    BY DEF Rows!Init
  <1>5. Rows!TypeOK
    <2>1. rowsLost \in BOOLEAN /\ rowsDeleteRulePending \in BOOLEAN
          /\ rowsStale \subseteq {"planned", "recurring"}
      BY <1>4
    <2>2. rowsMoves \in 0..(MaxMoves + 1)
      BY <1>4 DEF Rows!PlannedRowsAssumption
    <2> QED
      BY <1>1, <1>3, <1>4, <2>1, <2>2 DEF Rows!TypeOK
  <1> QED
    BY <1>3, <1>4, <1>5 DEF RowsInv, RowsWillCatchUp, Rows!SwitchIsOwn

\* The types of the variables, to be cited at once.
LEMMA RowsFacts ==
  ASSUME Rows!PlannedRowsAssumption, RowsInv
  PROVE  /\ rowsPlan \in Rows!Plan \cup {None} /\ rowsRule \in Rows!Rule \cup {None}
         /\ rowsDue \in BOOLEAN
         /\ rowsSeen \in [plan : Rows!Plan \cup {None}, due : BOOLEAN, rule : Rows!Rule \cup {None}]
         /\ rowsStale \subseteq {"planned", "recurring"} /\ rowsView \in {"planned", "recurring"}
         /\ rowsSurface \in Rows!Surface \cup {None} /\ RowsRowFits(rowsSurface)
         /\ rowsDeleteRulePending \in BOOLEAN /\ rowsLost \in BOOLEAN
         /\ rowsRequests \subseteq Rows!Request /\ rowsMoves \in 0..(MaxMoves + 1)
         /\ (MaxMoves + 1) \in Nat
  BY DEF RowsInv, Rows!TypeOK, RowsRowFits, Rows!PlannedRowsAssumption

-----------------------------------------------------------------------------
(* The user.                                                               *)

\* A step of the user keeps the invariant if the surface and the request it leaves do.
LEMMA RowsPageKeepsInv ==
  ASSUME Rows!PlannedRowsAssumption, RowsInv, Rows!Move,
         UNCHANGED <<Rows!server, Rows!queries, rowsLost>>,
         rowsView' \in {"planned", "recurring"}, rowsDeleteRulePending' \in BOOLEAN,
         NEW s \in Rows!Surface \cup {None}, rowsSurface' = s, RowsRowFits(s),
         s # None /\ s.kind = "deleteRule" /\ rowsDeleteRulePending' => s.switch,
         rowsRequests \subseteq rowsRequests', rowsRequests' \subseteq Rows!Request,
         \A r \in rowsRequests' \ rowsRequests : RowsPutFits(r)
  PROVE  RowsInv'
  <1>1. rowsMoves' \in 0..(MaxMoves + 1)
    BY RowsFacts DEF Rows!Move
  <1>2. Rows!TypeOK'
    BY <1>1, RowsFacts DEF Rows!TypeOK, RowsRowFits, Rows!server, Rows!queries
  <1>3. \A r \in rowsRequests' : RowsPutFits(r)
    BY DEF RowsInv
  <1>4. Rows!SwitchIsOwn'
    BY DEF Rows!SwitchIsOwn, Rows!IsOpen
  <1>5. (~rowsLost => RowsWillCatchUp)'
    BY DEF RowsInv, RowsWillCatchUp, RowsPending, Rows!server, Rows!queries
  <1> QED
    BY <1>2, <1>3, <1>4, <1>5 DEF RowsInv, RowsPutFits

\* One that sends nothing.
LEMMA RowsSurfaceKeepsInv ==
  ASSUME Rows!PlannedRowsAssumption, RowsInv, Rows!Move, Rows!Untouched, UNCHANGED rowsRequests,
         rowsDeleteRulePending' \in BOOLEAN,
         NEW s \in Rows!Surface \cup {None}, rowsSurface' = s, RowsRowFits(s),
         s # None /\ s.kind = "deleteRule" /\ rowsDeleteRulePending' => s.switch
  PROVE  RowsInv'
  BY RowsFacts, RowsPageKeepsInv DEF Rows!Untouched

\* One that sends a request.
LEMMA RowsSendKeepsInv ==
  ASSUME Rows!PlannedRowsAssumption, RowsInv, Rows!Move, Rows!Untouched,
         UNCHANGED rowsDeleteRulePending,
         rowsSurface' \in {rowsSurface, None},
         NEW op \in Rows!Ops, NEW row \in Rows!Plan \cup Rows!Rule \cup {None},
         NEW p \in Rows!Plan \cup Rows!Rule \cup {None},
         NEW flag \in BOOLEAN, Rows!Send(op, row, p, flag),
         op \in {"save", "cancel"} => p \in Rows!Plan,
         op \in {"toggle", "saveRule"} => p \in Rows!Rule
  PROVE  RowsInv'
  <1> DEFINE r == [id |-> rowsMoves + 1, op |-> op, row |-> row, put |-> p, flag |-> flag, phase |-> "sent"]
  <1>1. rowsMoves + 1 \in 1..(MaxMoves + 1)
    BY RowsFacts DEF Rows!Move
  <1>2. r \in Rows!Request /\ r.op = op /\ r.put = p
    BY <1>1 DEF Rows!Request
  <1>3. rowsRequests' = rowsRequests \cup {r}
    BY DEF Rows!Send
  <1>4. RowsPutFits(r)
    BY <1>2 DEF RowsPutFits
  <1> HIDE DEF r
  <1>5. rowsRequests \subseteq rowsRequests' /\ rowsRequests' \subseteq Rows!Request
        /\ \A q \in rowsRequests' \ rowsRequests : RowsPutFits(q)
    BY <1>2, <1>3, <1>4, RowsFacts
  <1>6. /\ rowsSurface' \in Rows!Surface \cup {None} /\ RowsRowFits(rowsSurface')
        /\ rowsSurface' # None /\ rowsSurface'.kind = "deleteRule" /\ rowsDeleteRulePending' =>
             rowsSurface'.switch
    BY RowsFacts DEF RowsRowFits, RowsInv, Rows!SwitchIsOwn, Rows!IsOpen
  <1> QED
    BY <1>5, <1>6, RowsFacts, RowsPageKeepsInv DEF Rows!Untouched

\* What the page opens for a row.
LEMMA RowsOpened ==
  ASSUME NEW kind \in Rows!PlanKinds \cup Rows!RuleKinds \cup {"new", "newRule"},
         NEW row \in Rows!Plan \cup Rows!Rule \cup {None},
         NEW text \in Texts \cup {None}, NEW switch \in BOOLEAN, Rows!Open(kind, row, text, switch),
         kind \in Rows!PlanKinds => row \in Rows!Plan, kind \in Rows!RuleKinds => row \in Rows!Rule
  PROVE  rowsSurface' \in Rows!Surface /\ rowsSurface'.kind = kind /\ RowsRowFits(rowsSurface')
  BY DEF Rows!Open, Rows!Surface, RowsRowFits

\* Opening a surface on a row of its kind.
LEMMA RowsOpenKeepsInv ==
  ASSUME Rows!PlannedRowsAssumption, RowsInv, Rows!Move, Rows!Untouched, UNCHANGED rowsRequests,
         NEW kind \in Rows!PlanKinds \cup Rows!RuleKinds \cup {"new", "newRule"},
         NEW row \in Rows!Plan \cup Rows!Rule \cup {None},
         NEW text \in Texts \cup {None}, NEW switch \in BOOLEAN, Rows!Open(kind, row, text, switch),
         kind \in Rows!PlanKinds => row \in Rows!Plan, kind \in Rows!RuleKinds => row \in Rows!Rule,
         rowsDeleteRulePending' \in BOOLEAN, kind = "deleteRule" => ~rowsDeleteRulePending'
  PROVE  RowsInv'
  <1>1. rowsSurface' \in Rows!Surface /\ rowsSurface'.kind = kind /\ RowsRowFits(rowsSurface')
    BY RowsOpened
  <1> QED
    BY <1>1, RowsSurfaceKeepsInv

\* The rows the buttons belong to.
LEMMA RowsButtons ==
  ASSUME Rows!PlannedRowsAssumption, RowsInv
  PROVE  /\ \A kinds \in SUBSET Rows!PlanKinds : Rows!planOf(kinds) \subseteq Rows!Plan
         /\ \A kinds \in SUBSET Rows!RuleKinds : Rows!ruleOf(kinds) \subseteq Rows!Rule
  BY RowsFacts DEF Rows!planOf, Rows!ruleOf, RowsRowFits

\* The steps of the list itself.
LEMMA RowsListStepsKeepInv ==
  ASSUME Rows!PlannedRowsAssumption, RowsInv,
         (\E v \in {"planned", "recurring"} : Rows!setView(v)) \/ Rows!openNew
           \/ Rows!setRowAction \/ Rows!close
  PROVE  RowsInv'
  <1>1. ASSUME NEW v \in {"planned", "recurring"}, Rows!setView(v)
        PROVE  RowsInv'
    <2>1. rowsSurface' = None /\ UNCHANGED <<Rows!server, Rows!queries, rowsLost,
                                             rowsDeleteRulePending,
                                             rowsRequests>> /\ Rows!Move /\ rowsView' = v
      BY <1>1 DEF Rows!setView
    <2> QED
      BY <2>1, RowsFacts, RowsPageKeepsInv DEF RowsRowFits
  <1>2. CASE Rows!openNew
    <2> DEFINE no == FALSE
    <2>1. PICK kind \in {"new", "newRule"} : Rows!Open(kind, None, None, no)
      BY <1>2 DEF Rows!openNew
    <2>2. Rows!Move /\ Rows!Untouched /\ UNCHANGED <<rowsDeleteRulePending, rowsRequests>>
      BY <1>2 DEF Rows!openNew
    <2>3. no \in BOOLEAN /\ kind \notin Rows!PlanKinds /\ kind \notin Rows!RuleKinds
          /\ kind # "deleteRule"
      BY DEF Rows!PlanKinds, Rows!RuleKinds
    <2> HIDE DEF no
    <2> QED
      BY <2>1, <2>2, <2>3, RowsFacts, RowsOpenKeepsInv
  <1>3. CASE Rows!setRowAction
    <2> DEFINE no == FALSE
    <2>1. Rows!Move /\ Rows!Untouched /\ UNCHANGED <<rowsDeleteRulePending, rowsRequests>>
      BY <1>3 DEF Rows!setRowAction
    <2>2. \/ \E p \in Rows!planOf({}) : Rows!Open("sheet", p, None, no)
          \/ \E r \in Rows!ruleOf({}) : Rows!Open("ruleSheet", r, None, no)
      BY <1>3 DEF Rows!setRowAction
    <2>3. no \in BOOLEAN /\ {} \in SUBSET Rows!PlanKinds /\ {} \in SUBSET Rows!RuleKinds
      OBVIOUS
    <2>4. rowsDeleteRulePending' \in BOOLEAN
      BY <2>1, RowsFacts
    <2>5. /\ "sheet" \in Rows!PlanKinds /\ "sheet" \notin Rows!RuleKinds
          /\ "ruleSheet" \in Rows!RuleKinds /\ "ruleSheet" \notin Rows!PlanKinds
      BY DEF Rows!PlanKinds, Rows!RuleKinds
    <2> HIDE DEF no
    <2>6. CASE \E p \in Rows!planOf({}) : Rows!Open("sheet", p, None, no)
      <3>1. PICK p \in Rows!Plan : Rows!Open("sheet", p, None, no)
        BY <2>3, <2>6, RowsButtons
      <3> QED
        BY <2>1, <2>3, <2>4, <2>5, <3>1, RowsOpenKeepsInv
    <2>7. CASE \E r \in Rows!ruleOf({}) : Rows!Open("ruleSheet", r, None, no)
      <3>1. PICK r \in Rows!Rule : Rows!Open("ruleSheet", r, None, no)
        BY <2>3, <2>7, RowsButtons
      <3> QED
        BY <2>1, <2>3, <2>4, <2>5, <3>1, RowsOpenKeepsInv
    <2> QED
      BY <2>2, <2>6, <2>7
  <1>4. CASE Rows!close
    <2>1. rowsSurface' = None /\ Rows!Move /\ Rows!Untouched /\ UNCHANGED <<rowsDeleteRulePending,
                                                                            rowsRequests>>
      BY <1>4 DEF Rows!close
    <2> QED
      BY <2>1, RowsFacts, RowsSurfaceKeepsInv DEF RowsRowFits
  <1> QED
    BY <1>1, <1>2, <1>3, <1>4

\* The actions of a planned row.
LEMMA RowsPlanStepsKeepInv ==
  ASSUME Rows!PlannedRowsAssumption, RowsInv, NEW p,
         \/ Rows!execute(p) \/ Rows!setAdjusting(p) \/ Rows!setCancelling(p) \/ Rows!setDeleting(p)
         \/ Rows!openEdit(p) \/ Rows!openCopy(p) \/ Rows!openMakeRecurring(p)
  PROVE  RowsInv'
  <1> DEFINE no == FALSE
             yes == TRUE
  <1>1. p \in Rows!Plan
    <2>1. {"sheet", "edit"} \in SUBSET Rows!PlanKinds /\ {"sheet"} \in SUBSET Rows!PlanKinds
          /\ {"edit"} \in SUBSET Rows!PlanKinds
      BY DEF Rows!PlanKinds
    <2>2. p \in Rows!planOf({"sheet", "edit"}) \/ p \in Rows!planOf({"sheet"})
            \/ p \in Rows!planOf({"edit"})
      BY DEF Rows!execute, Rows!setAdjusting, Rows!setCancelling, Rows!setDeleting, Rows!openEdit,
        Rows!openCopy, Rows!openMakeRecurring
    <2> QED
      BY <2>1, <2>2, RowsButtons
  <1>2. p.text \in Texts /\ no \in BOOLEAN /\ yes \in BOOLEAN
    BY <1>1 DEF Rows!Plan
  <1>3. Rows!Move /\ Rows!Untouched /\ UNCHANGED rowsDeleteRulePending
    BY DEF Rows!execute, Rows!setAdjusting, Rows!setCancelling, Rows!setDeleting, Rows!openEdit,
      Rows!openCopy, Rows!openMakeRecurring
  <1>4. CASE Rows!execute(p)
    <2>1. Rows!Send("execute", p, None, no) /\ rowsSurface' = None
      BY <1>4 DEF Rows!execute
    <2>2. "execute" \in Rows!Ops
      BY DEF Rows!Ops
    <2> HIDE DEF no, yes
    <2> QED
      BY <1>1, <1>2, <1>3, <2>1, <2>2, RowsSendKeepsInv
  <1>5. CASE ~Rows!execute(p)
    <2>1. \/ \E kind \in {"adjust", "cancel", "delete"} : Rows!Open(kind, p, None, no)
          \/ \E kind \in {"edit", "copy"} : Rows!Open(kind, p, p.text, no)
          \/ Rows!Open("fromPlanned", p, p.text, yes)
      BY <1>5 DEF Rows!setAdjusting, Rows!setCancelling, Rows!setDeleting, Rows!openEdit,
        Rows!openCopy, Rows!openMakeRecurring
    <2> HIDE DEF no, yes
    <2>2. PICK kind \in Rows!PlanKinds, text \in Texts \cup {None}, switch \in BOOLEAN : Rows!Open(kind, p, text, switch)
      BY <1>2, <2>1 DEF Rows!PlanKinds
    <2>3. UNCHANGED rowsRequests
      BY <1>5 DEF Rows!setAdjusting, Rows!setCancelling, Rows!setDeleting, Rows!openEdit,
        Rows!openCopy, Rows!openMakeRecurring
    <2>4. kind \notin Rows!RuleKinds /\ kind # "deleteRule" /\ rowsDeleteRulePending' \in BOOLEAN
      BY <1>3, RowsFacts DEF Rows!PlanKinds, Rows!RuleKinds
    <2> QED
      BY <1>1, <1>3, <2>2, <2>3, <2>4, RowsOpenKeepsInv
  <1> QED
    BY <1>4, <1>5

\* The actions of a rule.
LEMMA RowsRuleStepsKeepInv ==
  ASSUME Rows!PlannedRowsAssumption, RowsInv, NEW r,
         Rows!openEditRule(r) \/ Rows!openDeleteRule(r) \/ Rows!toggleActive(r)
  PROVE  RowsInv'
  <1> DEFINE no == FALSE
  <1>1. r \in Rows!Rule
    <2>1. {"ruleSheet", "editRule"} \in SUBSET Rows!RuleKinds
          /\ {"ruleSheet"} \in SUBSET Rows!RuleKinds
      BY DEF Rows!RuleKinds
    <2>2. r \in Rows!ruleOf({"ruleSheet", "editRule"}) \/ r \in Rows!ruleOf({"ruleSheet"})
      BY DEF Rows!openEditRule, Rows!openDeleteRule, Rows!toggleActive
    <2> QED
      BY <2>1, <2>2, RowsButtons
  <1>2. r.text \in Texts /\ r.active \in BOOLEAN /\ no \in BOOLEAN
    BY <1>1 DEF Rows!Rule
  <1>3. Rows!Move /\ Rows!Untouched
    BY DEF Rows!openEditRule, Rows!openDeleteRule, Rows!toggleActive
  <1>4. "editRule" \in Rows!RuleKinds \ Rows!PlanKinds
        /\ "deleteRule" \in Rows!RuleKinds \ Rows!PlanKinds /\ "toggle" \in Rows!Ops
    BY DEF Rows!RuleKinds, Rows!PlanKinds, Rows!Ops
  <1>5. CASE Rows!openEditRule(r)
    <2>1. Rows!Open("editRule", r, r.text, r.active) /\ UNCHANGED <<rowsDeleteRulePending,
                                                                    rowsRequests>>
      BY <1>5 DEF Rows!openEditRule
    <2>2. rowsDeleteRulePending' \in BOOLEAN
      BY <2>1, RowsFacts
    <2> QED
      BY <1>1, <1>2, <1>3, <1>4, <2>1, <2>2, RowsOpenKeepsInv
  <1>6. CASE Rows!openDeleteRule(r)
    <2>1. Rows!Open("deleteRule", r, None, no) /\ UNCHANGED rowsRequests
          /\ rowsDeleteRulePending' = FALSE
      BY <1>6 DEF Rows!openDeleteRule
    <2> HIDE DEF no
    <2> QED
      BY <1>1, <1>2, <1>3, <1>4, <2>1, RowsOpenKeepsInv
  <1>7. CASE Rows!toggleActive(r)
    <2> DEFINE q == [r EXCEPT !.active = ~@]
    <2>1. q \in Rows!Rule
      BY <1>1 DEF Rows!Rule
    <2>2. Rows!Send("toggle", r, q, no) /\ rowsSurface' = None /\ UNCHANGED rowsDeleteRulePending
      BY <1>7 DEF Rows!toggleActive
    <2> HIDE DEF no, q
    <2> QED
      BY <1>1, <1>2, <1>3, <1>4, <2>1, <2>2, RowsSendKeepsInv
  <1> QED
    BY <1>5, <1>6, <1>7

\* What is typed and switched in a surface.
LEMMA RowsEditsKeepInv ==
  ASSUME Rows!PlannedRowsAssumption, RowsInv,
         Rows!setDeleteRulePending \/ Rows!setSwitch \/ \E t \in Texts : Rows!type(t)
  PROVE  RowsInv'
  <1>1. Rows!Move /\ Rows!Untouched /\ UNCHANGED rowsRequests /\ rowsSurface \in Rows!Surface
    BY RowsFacts DEF Rows!setDeleteRulePending, Rows!setSwitch, Rows!type, Rows!IsOpen
  <1>2. CASE Rows!setDeleteRulePending
    <2> DEFINE s == [rowsSurface EXCEPT !.switch = TRUE]
    <2>1. s \in Rows!Surface /\ s.kind = rowsSurface.kind /\ s.row = rowsSurface.row /\ s.switch
      BY <1>1 DEF Rows!Surface
    <2>2. rowsSurface' = s /\ rowsDeleteRulePending' = ~rowsDeleteRulePending /\ rowsSurface # None
      BY <1>2 DEF Rows!setDeleteRulePending, Rows!IsOpen
    <2> HIDE DEF s
    <2>3. rowsDeleteRulePending' \in BOOLEAN /\ RowsRowFits(s)
      BY <2>1, <2>2, RowsFacts DEF RowsRowFits
    <2> QED
      BY <1>1, <2>1, <2>2, <2>3, RowsSurfaceKeepsInv
  <1>3. CASE Rows!setSwitch
    <2> DEFINE s == [rowsSurface EXCEPT !.switch = ~@]
    <2>1. s \in Rows!Surface /\ s.kind = rowsSurface.kind /\ s.row = rowsSurface.row
      BY <1>1 DEF Rows!Surface
    <2>2. rowsSurface' = s /\ UNCHANGED rowsDeleteRulePending /\ rowsSurface # None
          /\ rowsSurface.kind # "deleteRule"
      BY <1>3 DEF Rows!setSwitch
    <2> HIDE DEF s
    <2>3. rowsDeleteRulePending' \in BOOLEAN /\ RowsRowFits(s)
      BY <2>1, <2>2, RowsFacts DEF RowsRowFits
    <2> QED
      BY <1>1, <2>1, <2>2, <2>3, RowsSurfaceKeepsInv
  <1>4. ASSUME NEW t \in Texts, Rows!type(t)
        PROVE  RowsInv'
    <2> DEFINE s == [rowsSurface EXCEPT !.text = t]
    <2>1. s \in Rows!Surface /\ s.kind = rowsSurface.kind /\ s.row = rowsSurface.row
      BY <1>1 DEF Rows!Surface
    <2>2. rowsSurface' = s /\ UNCHANGED rowsDeleteRulePending /\ rowsSurface # None
          /\ rowsSurface.kind # "deleteRule"
      BY <1>4 DEF Rows!type, Rows!Forms, Rows!RuleForms
    <2> HIDE DEF s
    <2>3. rowsDeleteRulePending' \in BOOLEAN /\ RowsRowFits(s)
      BY <2>1, <2>2, RowsFacts DEF RowsRowFits
    <2> QED
      BY <1>1, <2>1, <2>2, <2>3, RowsSurfaceKeepsInv
  <1> QED
    BY <1>2, <1>3, <1>4

\* What the forms and dialogs send.
LEMMA RowsSubmitsKeepInv ==
  ASSUME Rows!PlannedRowsAssumption, RowsInv,
         Rows!submitPlanned \/ Rows!submitRule \/ Rows!submitAdjusted \/ Rows!confirmCancel
           \/ Rows!confirmDelete \/ Rows!confirmDeleteRule
  PROVE  RowsInv'
  <1> DEFINE no == FALSE
  <1>1. /\ Rows!Move /\ Rows!Untouched /\ UNCHANGED <<rowsSurface, rowsDeleteRulePending>>
        /\ rowsSurface \in Rows!Surface /\ rowsSurface # None
    BY RowsFacts DEF Rows!submitPlanned, Rows!submitRule, Rows!submitAdjusted, Rows!confirmCancel,
      Rows!confirmDelete, Rows!confirmDeleteRule, Rows!IsOpen
  <1>2. /\ rowsSurface.row \in Rows!Plan \cup Rows!Rule \cup {None}
        /\ rowsSurface.switch \in BOOLEAN
        /\ rowsDeleteRulePending \in BOOLEAN /\ no \in BOOLEAN
    BY <1>1, RowsFacts DEF Rows!Surface
  <1>3. ASSUME NEW op \in Rows!Ops, NEW p \in Rows!Plan \cup Rows!Rule \cup {None},
               NEW row \in Rows!Plan \cup Rows!Rule \cup {None},
               NEW flag \in BOOLEAN, Rows!Send(op, row, p, flag),
               op \in {"save", "cancel"} => p \in Rows!Plan,
               op \in {"toggle", "saveRule"} => p \in Rows!Rule
        PROVE  RowsInv'
    BY <1>1, <1>3, RowsSendKeepsInv
  <1>4. CASE Rows!submitPlanned
    <2>1. CASE rowsSurface.kind = "edit"
      <3> DEFINE p == Rows!put(rowsSurface.row, rowsSurface.text)
      <3>1. rowsSurface.row \in Rows!Plan /\ rowsSurface.text \in Texts
        BY <1>1, <1>4, <2>1, RowsFacts DEF RowsRowFits, Rows!PlanKinds, Rows!Surface,
          Rows!submitPlanned
      <3>2. p \in Rows!Plan
        BY <3>1 DEF Rows!put, Rows!Plan
      <3>3. Rows!Send("save", rowsSurface.row, p, no) /\ "save" \in Rows!Ops
        BY <1>4, <2>1 DEF Rows!submitPlanned, Rows!Ops
      <3> HIDE DEF p, no
      <3> QED
        BY <1>2, <1>3, <3>2, <3>3
    <2>2. CASE rowsSurface.kind # "edit"
      <3>1. Rows!Send("create", None, None, no) /\ "create" \in Rows!Ops
        BY <1>4, <2>2 DEF Rows!submitPlanned, Rows!Ops
      <3> HIDE DEF no
      <3> QED
        BY <1>2, <1>3, <3>1
    <2> QED
      BY <2>1, <2>2
  <1>5. CASE Rows!submitRule
    <2>1. CASE rowsSurface.kind = "editRule"
      <3> DEFINE p == [active |-> rowsSurface.switch, text |-> rowsSurface.text]
      <3>1. rowsSurface.text \in Texts
        BY <1>1, <1>5 DEF Rows!Surface, Rows!submitRule
      <3>2. p \in Rows!Rule
        BY <1>2, <3>1 DEF Rows!Rule
      <3>3. Rows!Send("saveRule", rowsSurface.row, p, no) /\ "saveRule" \in Rows!Ops
        BY <1>5, <2>1 DEF Rows!submitRule, Rows!Ops
      <3> HIDE DEF p, no
      <3> QED
        BY <1>2, <1>3, <3>2, <3>3
    <2>2. CASE rowsSurface.kind # "editRule"
      <3> DEFINE flag == (rowsSurface.kind = "fromPlanned" /\ rowsSurface.switch)
      <3>1. Rows!Send("createRule", rowsSurface.row, None, flag) /\ "createRule" \in Rows!Ops
        BY <1>5, <2>2 DEF Rows!submitRule, Rows!Ops
      <3>2. flag \in BOOLEAN
        BY <1>2
      <3> HIDE DEF flag
      <3> QED
        BY <1>2, <1>3, <3>1, <3>2
    <2> QED
      BY <2>1, <2>2
  <1>6. CASE Rows!submitAdjusted \/ Rows!confirmDelete
    <2>1. PICK op \in {"adjust", "delete"} : Rows!Send(op, rowsSurface.row, None, no)
      BY <1>6 DEF Rows!submitAdjusted, Rows!confirmDelete
    <2>2. op \in Rows!Ops
      BY DEF Rows!Ops
    <2> HIDE DEF no
    <2> QED
      BY <1>2, <1>3, <2>1, <2>2
  <1>7. CASE Rows!confirmCancel
    <2> DEFINE p == [rowsSurface.row EXCEPT !.status = "cancelled"]
    <2>1. rowsSurface.row \in Rows!Plan
      BY <1>7, <1>1, RowsFacts DEF Rows!confirmCancel, Rows!IsOpen, RowsRowFits, Rows!PlanKinds
    <2>2. p \in Rows!Plan
      BY <2>1 DEF Rows!Plan
    <2>3. Rows!Send("cancel", rowsSurface.row, p, no) /\ "cancel" \in Rows!Ops
      BY <1>7 DEF Rows!confirmCancel, Rows!Ops
    <2> HIDE DEF p, no
    <2> QED
      BY <1>2, <1>3, <2>2, <2>3
  <1>8. CASE Rows!confirmDeleteRule
    <2>1. Rows!Send("deleteRule", rowsSurface.row, None, rowsDeleteRulePending)
          /\ "deleteRule" \in Rows!Ops
      BY <1>8 DEF Rows!confirmDeleteRule, Rows!Ops
    <2> QED
      BY <1>2, <1>3, <2>1
  <1> QED
    BY <1>4, <1>5, <1>6, <1>7, <1>8

-----------------------------------------------------------------------------
(* The server and the answers.                                             *)

\* A request that goes on to another phase.
LEMMA RowsAnsweredRequests ==
  ASSUME Rows!PlannedRowsAssumption, RowsInv, NEW r \in rowsRequests, NEW phase \in {"ok", "error"},
         Rows!Answered(r, phase)
  PROVE  /\ rowsRequests' \subseteq Rows!Request
         /\ \A q \in rowsRequests' : RowsPutFits(q)
         /\ \A list : RowsPending(list) => RowsPending(list)' \/ r.phase = "ok"
         /\ \A list \in Rows!Invalidates(r.op) : phase = "ok" => RowsPending(list)'
  <1> DEFINE q == [r EXCEPT !.phase = phase]
  <1>1. r \in Rows!Request
    BY RowsFacts
  <1>2. q \in Rows!Request /\ q.op = r.op /\ q.put = r.put /\ q.phase = phase
    BY <1>1 DEF Rows!Request
  <1>3. rowsRequests' = (rowsRequests \ {r}) \cup {q}
    BY DEF Rows!Answered
  <1> HIDE DEF q
  <1>4. rowsRequests' \subseteq Rows!Request
    BY <1>2, <1>3, RowsFacts
  <1>5. \A p \in rowsRequests' : RowsPutFits(p)
    BY <1>2, <1>3 DEF RowsInv, RowsPutFits
  <1>6. \A list : RowsPending(list) => RowsPending(list)' \/ r.phase = "ok"
    BY <1>3 DEF RowsPending
  <1>7. \A list \in Rows!Invalidates(r.op) : phase = "ok" => RowsPending(list)'
    BY <1>2, <1>3 DEF RowsPending, Rows!Invalidates
  <1> QED
    BY <1>4, <1>5, <1>6, <1>7

\* What a request does to the rows, it has fetched again.
LEMMA RowsRowsAfter ==
  ASSUME Rows!PlannedRowsAssumption, RowsInv, NEW r \in rowsRequests, ~Rows!Refuses(r)
  PROVE  /\ Rows!planAfter(r) \in Rows!Plan \cup {None}
         /\ Rows!ruleAfter(r) \in Rows!Rule \cup {None} /\ Rows!dueAfter(r) \in BOOLEAN
         /\ Rows!planAfter(r) # rowsPlan => "planned" \in Rows!Invalidates(r.op)
         /\ Rows!ruleAfter(r) # rowsRule => "recurring" \in Rows!Invalidates(r.op)
  <1>1. r \in Rows!Request /\ RowsPutFits(r)
    BY RowsFacts DEF RowsInv
  <1>2. Rows!planAfter(r) \in Rows!Plan \cup {None}
    <2>1. CASE r.op \in {"execute", "adjust"}
      <3>1. rowsPlan \in Rows!Plan
        BY <2>1, RowsFacts DEF Rows!Refuses
      <3>2. Rows!planAfter(r) = [rowsPlan EXCEPT !.status = "done"]
        BY <2>1 DEF Rows!planAfter
      <3> QED
        BY <3>1, <3>2 DEF Rows!Plan
    <2>2. CASE r.op \in {"save", "cancel"}
      <3>1. rowsPlan \in Rows!Plan /\ r.put \in Rows!Plan
        BY <1>1, <2>2, RowsFacts DEF Rows!Refuses, RowsPutFits
      <3>2. Rows!planAfter(r) = [rowsPlan EXCEPT !.status = r.put.status, !.text = r.put.text]
        BY <2>2 DEF Rows!planAfter
      <3> QED
        BY <3>1, <3>2 DEF Rows!Plan
    <2>3. CASE r.op = "createRule" /\ r.flag
      <3>1. rowsPlan \in Rows!Plan
        BY <2>3, RowsFacts DEF Rows!Refuses
      <3>2. Rows!planAfter(r) = [rowsPlan EXCEPT !.rule = "other"]
        BY <2>3 DEF Rows!planAfter
      <3> QED
        BY <3>1, <3>2 DEF Rows!Plan
    <2>4. CASE r.op = "deleteRule" /\ rowsPlan # None
      <3>1. rowsPlan \in Rows!Plan
        BY <2>4, RowsFacts
      <3>2. [rowsPlan EXCEPT !.rule = None] \in Rows!Plan
        BY <3>1 DEF Rows!Plan
      <3>3. Rows!planAfter(r) \in {rowsPlan, None, [rowsPlan EXCEPT !.rule = None]}
        BY <2>4 DEF Rows!planAfter
      <3> QED
        BY <3>1, <3>2, <3>3
    <2>5. CASE ~(r.op \in {"execute", "adjust", "save", "cancel"})
          /\ ~(r.op = "createRule" /\ r.flag)
                 /\ ~(r.op = "deleteRule" /\ rowsPlan # None)
      <3>1. Rows!planAfter(r) \in {None, rowsPlan}
        BY <2>5 DEF Rows!planAfter
      <3> QED
        BY <3>1, RowsFacts
    <2> QED
      BY <2>1, <2>2, <2>3, <2>4, <2>5
  <1>3. Rows!ruleAfter(r) \in Rows!Rule \cup {None}
    BY <1>1, RowsFacts DEF Rows!ruleAfter, RowsPutFits
  <1>4. Rows!dueAfter(r) \in BOOLEAN
    <2>1. CASE r.op \in {"toggle", "saveRule"}
      <3>1. r.put.active \in BOOLEAN
        BY <1>1, <2>1 DEF RowsPutFits, Rows!Rule
      <3> QED
        BY <2>1, <3>1, RowsFacts DEF Rows!dueAfter
    <2>2. CASE r.op = "deleteRule"
      BY <1>1, <2>2, RowsFacts DEF Rows!dueAfter, Rows!Request
    <2>3. CASE r.op \notin {"toggle", "saveRule", "deleteRule"}
      BY <2>3, RowsFacts DEF Rows!dueAfter
    <2> QED
      BY <2>1, <2>2, <2>3
  <1>5. Rows!planAfter(r) # rowsPlan => "planned" \in Rows!Invalidates(r.op)
    BY <1>1 DEF Rows!planAfter, Rows!Invalidates, Rows!Request, Rows!Ops
  <1>6. Rows!ruleAfter(r) # rowsRule => "recurring" \in Rows!Invalidates(r.op)
    BY DEF Rows!ruleAfter, Rows!Invalidates
  <1> QED
    BY <1>2, <1>3, <1>4, <1>5, <1>6

\* The server's part of a request.
LEMMA RowsServeKeepsInv ==
  ASSUME Rows!PlannedRowsAssumption, RowsInv, NEW r \in rowsRequests, Rows!Serve(r)
  PROVE  RowsInv'
  <1>1. PICK phase \in {"ok", "error"} :
          /\ Rows!Answered(r, phase)
          /\ phase = "error" => UNCHANGED Rows!server
          /\ phase = "ok" =>
               ~Rows!Refuses(r) /\ rowsPlan' = Rows!planAfter(r) /\ rowsRule' = Rows!ruleAfter(r)
               /\ rowsDue' = Rows!dueAfter(r)
    BY DEF Rows!Serve
  <1>2. UNCHANGED <<Rows!queries, Rows!page, rowsLost, rowsMoves>> /\ r.phase # "ok"
    BY DEF Rows!Serve
  <1>3. rowsPlan' \in Rows!Plan \cup {None} /\ rowsRule' \in Rows!Rule \cup {None}
        /\ rowsDue' \in BOOLEAN
    BY <1>1, RowsRowsAfter, RowsFacts DEF Rows!server
  <1>4. /\ rowsRequests' \subseteq Rows!Request /\ \A q \in rowsRequests' : RowsPutFits(q)
        /\ \A list : RowsPending(list) => RowsPending(list)'
        /\ \A list \in Rows!Invalidates(r.op) : phase = "ok" => RowsPending(list)'
    BY <1>1, <1>2, RowsAnsweredRequests
  <1>5. Rows!TypeOK'
    BY <1>2, <1>3, <1>4, RowsFacts DEF Rows!TypeOK, RowsRowFits, Rows!queries, Rows!page
  <1>6. Rows!SwitchIsOwn'
    BY <1>2 DEF RowsInv, Rows!SwitchIsOwn, Rows!IsOpen, Rows!page
  <1>7. (~rowsLost => RowsWillCatchUp)'
    <2> SUFFICES ASSUME ~rowsLost PROVE RowsWillCatchUp'
      BY <1>2
    <2>1. RowsWillCatchUp /\ rowsStale' = rowsStale /\ rowsSeen' = rowsSeen
      BY <1>2 DEF RowsInv, Rows!queries
    <2>2. CASE phase = "error"
      BY <1>1, <1>4, <2>1, <2>2 DEF RowsWillCatchUp, Rows!server
    <2>3. CASE phase = "ok"
      <3>1. rowsPlan' = rowsPlan \/ RowsPending("planned")'
        BY <1>1, <1>4, <2>3, RowsRowsAfter
      <3>2. rowsRule' = rowsRule \/ RowsPending("recurring")'
        BY <1>1, <1>4, <2>3, RowsRowsAfter
      <3> QED
        BY <1>4, <2>1, <3>1, <3>2 DEF RowsWillCatchUp
    <2> QED
      BY <2>2, <2>3
  <1> QED
    BY <1>4, <1>5, <1>6, <1>7 DEF RowsInv, RowsPutFits

\* The answer to a request, or its failure.
LEMMA RowsAnswersKeepInv ==
  ASSUME Rows!PlannedRowsAssumption, RowsInv, NEW r \in rowsRequests, Rows!Fail(r) \/ Rows!Settle(r)
  PROVE  RowsInv'
  <1>1. CASE Rows!Fail(r)
    <2>1. Rows!Answered(r, "error") /\ UNCHANGED <<Rows!server, Rows!queries, Rows!page,
                                                   rowsMoves>> /\ rowsLost' = (rowsLost
                                                     \/ r.phase = "ok")
      BY <1>1 DEF Rows!Fail
    <2>2. /\ rowsRequests' \subseteq Rows!Request /\ \A q \in rowsRequests' : RowsPutFits(q)
          /\ \A list : RowsPending(list) => RowsPending(list)' \/ r.phase = "ok"
      BY <2>1, RowsAnsweredRequests
    <2>3. Rows!TypeOK'
      BY <2>1, <2>2, RowsFacts DEF Rows!TypeOK, RowsRowFits, Rows!server, Rows!queries, Rows!page
    <2>4. Rows!SwitchIsOwn'
      BY <2>1 DEF RowsInv, Rows!SwitchIsOwn, Rows!IsOpen, Rows!page
    <2>5. (~rowsLost => RowsWillCatchUp)'
      BY <2>1, <2>2 DEF RowsInv, RowsWillCatchUp, Rows!server, Rows!queries
    <2> QED
      BY <2>2, <2>3, <2>4, <2>5 DEF RowsInv, RowsPutFits
  <1>2. CASE Rows!Settle(r)
    <2>1. /\ rowsRequests' = rowsRequests \ {r} /\ UNCHANGED <<Rows!server, rowsSeen, rowsView,
                                                               rowsDeleteRulePending, rowsLost,
                                                               rowsMoves>>
          /\ rowsStale' = (IF r.phase = "ok" THEN rowsStale \cup Rows!Invalidates(r.op) ELSE rowsStale)
          /\ rowsSurface' \in {rowsSurface, None}
      BY <1>2 DEF Rows!Settle
    <2>2. rowsStale' \subseteq {"planned", "recurring"}
      BY <2>1, RowsFacts DEF Rows!Invalidates
    <2>3. Rows!TypeOK'
      BY <2>1, <2>2, RowsFacts DEF Rows!TypeOK, RowsRowFits, Rows!server
    <2>4. Rows!SwitchIsOwn'
      BY <2>1 DEF RowsInv, Rows!SwitchIsOwn, Rows!IsOpen
    <2>5. \A list : RowsPending(list) => RowsPending(list)' \/ list \in rowsStale'
      BY <2>1 DEF RowsPending
    <2>6. (~rowsLost => RowsWillCatchUp)'
      BY <2>1, <2>5 DEF RowsInv, RowsWillCatchUp, Rows!server
    <2>7. \A q \in rowsRequests' : RowsPutFits(q)
      BY <2>1 DEF RowsInv
    <2> QED
      BY <2>3, <2>4, <2>6, <2>7 DEF RowsInv, RowsPutFits
  <1> QED
    BY <1>1, <1>2

\* The two lists that are fetched again.
LEMMA RowsFetchesKeepInv ==
  ASSUME Rows!PlannedRowsAssumption, RowsInv, Rows!FetchPlanned \/ Rows!FetchRecurring
  PROVE  RowsInv'
  <1>1. UNCHANGED <<Rows!server, Rows!page, rowsRequests, rowsLost,
                    rowsMoves>> /\ rowsStale' \subseteq rowsStale
    BY DEF Rows!FetchPlanned, Rows!FetchRecurring
  <1>2. CASE Rows!FetchPlanned
    <2>1. rowsSeen' \in [plan : Rows!Plan \cup {None}, due : BOOLEAN, rule : Rows!Rule \cup {None}] /\ rowsSeen'.plan = rowsPlan /\ rowsSeen'.rule = rowsSeen.rule
      BY <1>2, RowsFacts DEF Rows!FetchPlanned
    <2>2. Rows!TypeOK'
      BY <1>1, <2>1, RowsFacts DEF Rows!TypeOK, RowsRowFits, Rows!server, Rows!page
    <2>3. (~rowsLost => RowsWillCatchUp)'
      BY <1>1, <1>2, <2>1 DEF Rows!FetchPlanned, RowsInv, RowsWillCatchUp, RowsPending, Rows!server
    <2> QED
      BY <1>1, <2>2, <2>3 DEF RowsInv, Rows!SwitchIsOwn, Rows!IsOpen, Rows!page, RowsPutFits
  <1>3. CASE Rows!FetchRecurring
    <2>1. rowsSeen' \in [plan : Rows!Plan \cup {None}, due : BOOLEAN, rule : Rows!Rule \cup {None}] /\ rowsSeen'.rule = rowsRule /\ rowsSeen'.plan = rowsSeen.plan
      BY <1>3, RowsFacts DEF Rows!FetchRecurring
    <2>2. Rows!TypeOK'
      BY <1>1, <2>1, RowsFacts DEF Rows!TypeOK, RowsRowFits, Rows!server, Rows!page
    <2>3. (~rowsLost => RowsWillCatchUp)'
      BY <1>1, <1>3, <2>1 DEF Rows!FetchRecurring, RowsInv, RowsWillCatchUp, RowsPending,
        Rows!server
    <2> QED
      BY <1>1, <2>2, <2>3 DEF RowsInv, Rows!SwitchIsOwn, Rows!IsOpen, Rows!page, RowsPutFits
  <1> QED
    BY <1>2, <1>3

-----------------------------------------------------------------------------
\* Every step of the planned page keeps its invariant.
LEMMA RowsStepInv ==
  ASSUME Rows!PlannedRowsAssumption, RowsInv, Rows!Next \/ UNCHANGED Rows!vars
  PROVE  RowsInv'
  <1>1. CASE UNCHANGED Rows!vars
    BY <1>1 DEF Rows!vars, Rows!server, Rows!queries, Rows!page, RowsInv, Rows!TypeOK,
      Rows!SwitchIsOwn, Rows!IsOpen, RowsWillCatchUp, RowsPending, RowsPutFits
  <1>2. CASE Rows!Next
    BY <1>2, RowsListStepsKeepInv, RowsPlanStepsKeepInv, RowsRuleStepsKeepInv, RowsEditsKeepInv,
      RowsSubmitsKeepInv,
       RowsServeKeepsInv, RowsAnswersKeepInv, RowsFetchesKeepInv DEF Rows!Next
  <1> QED
    BY <1>1, <1>2

\* With nothing under way the lists are as the rows, but for an answer that was lost.
LEMMA RowsShowLatest ==
  ASSUME RowsInv
  PROVE  Rows!RowsCaughtUp
  BY DEF RowsInv, Rows!RowsCaughtUp, RowsWillCatchUp, RowsPending

\* A step while this page is followed is a step of the page, or leaves it alone.
LEMMA RowsFrame ==
  ASSUME page = "planned", Next \/ UNCHANGED vars
  PROVE  page' = "planned" /\ (Rows!Next \/ UNCHANGED Rows!vars)
  BY DEF Next, vars, EntryNext, ItemsNext, BoardNext, RowsNext, TransfersNext,
    MembersNext, FormNext, ListsNext, PanelNext, MarksNext, DefaultsNext, rowsVars,
    Rows!vars, Rows!server, Rows!queries, Rows!page

-----------------------------------------------------------------------------
(***************************************************************************)
(* The bookmarks page (Bookmarks).                                         *)
(***************************************************************************)

\* The order of the list has a first and a last row, of any rows.
LEMMA MarksEnds ==
  ASSUME Marks!BookmarksAssumption, NEW R, NEW S \in SUBSET Marks!Ids, S # {},
         \A i \in S : R[i] \in Marks!Bookmark
  PROVE  Marks!First(R, S) \in S /\ Marks!Last(R, S) \in S
  <1>1. \A i \in S : R[i].position \in Nat /\ i \in Nat
    BY DEF Marks!Bookmark, Marks!Ids, Marks!BookmarksAssumption
  <1>2. IsFiniteSet(S)
    <2>1. IsFiniteSet(Marks!Ids)
      BY FS_Interval DEF Marks!Ids, Marks!BookmarksAssumption
    <2> QED
      BY <2>1, FS_Subset
  <1> DEFINE P == {R[i].position : i \in S}
             At(p) == {i \in S : R[i].position = p}
  <1>3. P \in SUBSET Nat /\ P # {}
    BY <1>1
  <1>4. IsFiniteSet(P)
    <2> DEFINE f == [i \in S |-> R[i].position]
    <2>1. f \in Surjection(S, P)
      BY DEF Surjection
    <2> QED
      BY <1>2, <2>1, FS_Surjection
  <1>5. \A p \in P : At(p) \in SUBSET Nat /\ At(p) # {} /\ IsFiniteSet(At(p))
    BY <1>1, <1>2, FS_Subset
  <1>6. PICK p \in P : \A q \in P : p <= q
    BY <1>3, LeastNumber
  <1>7. PICK i \in At(p) : \A j \in At(p) : i <= j
    BY <1>5, LeastNumber
  <1>8. i \in S /\ \A j \in S \ {i} : Marks!Before(R, i, j)
    BY <1>1, <1>6, <1>7 DEF Marks!Before
  <1>9. PICK q \in P : \A r \in P : r <= q
    BY <1>3, <1>4, GreatestNumber
  <1>10. PICK k \in At(q) : \A j \in At(q) : j <= k
    BY <1>5, GreatestNumber
  <1>11. k \in S /\ \A j \in S \ {k} : Marks!Before(R, j, k)
    BY <1>1, <1>9, <1>10 DEF Marks!Before
  <1> QED
    BY <1>8, <1>11 DEF Marks!First, Marks!Last

-----------------------------------------------------------------------------
\* A request on a row knows the row, and what it read of it.
MarksRequestsKnow ==
  \A n \in Marks!Sent :
    LET r == marksRequests[n]
    IN /\ r.op # "create" => r.id \in Marks!Ids
       /\ r.phase = "read" /\ ~Marks!IsMove(r) => r.read \in Marks!Bookmark
       /\ r.phase \in {"read", "first"} /\ Marks!IsMove(r) => r.other \in Marks!Ids \ {r.id}

MarksDialogKnows == marksDialog # None /\ marksDialog.kind # "create" => marksDialog.id \in Marks!Ids

\* A row that a move has locked is there: who would delete it waits.
MarksLockedExist ==
  \A n \in Marks!Sent : Marks!IsMove(marksRequests[n]) /\ marksRequests[n].phase = "first" =>
    marksRows[Marks!LockOrder(marksRequests[n])[1]] # None

MarksInv == Marks!TypeOK /\ MarksRequestsKnow /\ MarksDialogKnows /\ MarksLockedExist

\* The invariant of the bookmarks page holds at the start.
LEMMA MarksInitInv ==
  ASSUME Marks!BookmarksAssumption, Marks!Init
  PROVE  MarksInv
  <1>1. marksRows \in Marks!Rows
    <2>1. PICK archived \in SUBSET (1..(marksNextId - 1)) :
             marksRows = [i \in Marks!Ids |-> IF i >= marksNextId THEN None ELSE
                [position |-> i - 1, active |-> TRUE, archived |-> i \in archived]]
      BY DEF Marks!Init
    <2>2. ASSUME NEW i \in Marks!Ids, ~(i >= marksNextId)
          PROVE  [position |-> i - 1, active |-> TRUE, archived |-> i \in archived] \in Marks!Bookmark
      <3>1. i - 1 \in Nat
        BY DEF Marks!Ids, Marks!BookmarksAssumption
      <3>2. (i \in archived) \in BOOLEAN
        OBVIOUS
      <3> QED
        BY <3>1, <3>2 DEF Marks!Bookmark
    <2> QED
      BY <2>1, <2>2 DEF Marks!Rows
  <1>2. Marks!TypeOK
    BY <1>1 DEF Marks!Init, Marks!TypeOK, Marks!BookmarksAssumption
  <1> QED
    BY <1>2 DEF Marks!Init, MarksInv, MarksRequestsKnow, MarksDialogKnows, MarksLockedExist,
      Marks!Sent

\* A step of the page that sends nothing.
LEMMA MarksDialogStep ==
  ASSUME MarksInv, marksDialog' \in Marks!Dialog \cup {None}, MarksDialogKnows',
         marksMoves' \in 0..MaxMoves,
         UNCHANGED <<Marks!server, marksSeen, marksRequests>>
  PROVE  MarksInv'
  <1>1. Marks!TypeOK'
    BY DEF MarksInv, Marks!TypeOK, Marks!server
  <1>2. MarksRequestsKnow' /\ MarksLockedExist'
    BY DEF MarksInv, MarksRequestsKnow, MarksLockedExist, Marks!Sent, Marks!server
  <1> QED
    BY <1>1, <1>2 DEF MarksInv

\* A request is sent, on a row or to make one.
LEMMA MarksPostStep ==
  ASSUME Marks!BookmarksAssumption, MarksInv, marksDialog' \in Marks!Dialog \cup {None},
         MarksDialogKnows',
         NEW op \in {"up", "down", "visibility", "edit", "delete", "create"},
         NEW i \in Marks!Ids \cup {None},
         op # "create" => i \in Marks!Ids,
         NEW set \in [active : BOOLEAN \cup {None}, archived : BOOLEAN \cup {None}],
         Marks!Move, Marks!Post(op, i, set), UNCHANGED <<Marks!server, marksSeen>>
  PROVE  MarksInv'
  <1> DEFINE new == [op |-> op, id |-> i, set |-> set, read |-> None, other |-> None, phase |-> "sent"]
  <1>1. marksMoves + 1 \in Marks!Moves /\ marksMoves' \in 0..MaxMoves
    BY DEF MarksInv, Marks!TypeOK, Marks!Move, Marks!Moves, Marks!BookmarksAssumption
  <1>2. new \in Marks!Request
    BY DEF Marks!Request
  <1>3. marksRequests' \in [Marks!Moves -> Marks!Request \cup {None}]
        /\ \A n \in Marks!Moves : marksRequests'[n] = IF n =
             marksMoves + 1 THEN new ELSE marksRequests[n]
    BY <1>1, <1>2 DEF MarksInv, Marks!TypeOK, Marks!Post
  <1>4. Marks!TypeOK'
    BY <1>1, <1>3 DEF MarksInv, Marks!TypeOK, Marks!server
  <1>5. new.phase = "sent" /\ new.op = op /\ new.id = i
    OBVIOUS
  <1> HIDE DEF new
  <1>6. MarksRequestsKnow'
    BY <1>3, <1>5 DEF MarksInv, MarksRequestsKnow, Marks!Sent, Marks!IsMove
  <1>7. MarksLockedExist'
    BY <1>3, <1>5 DEF MarksInv, MarksLockedExist, Marks!Sent, Marks!IsMove, Marks!server
  <1> QED
    BY <1>4, <1>6, <1>7 DEF MarksInv

\* What can be acted on is a row.
LEMMA MarksListed ==
  ASSUME MarksInv
  PROVE  /\ Marks!activeBookmarks \subseteq Marks!Ids /\ Marks!archivedBookmarks \subseteq Marks!Ids
         /\ Marks!rowAction(TRUE) \cup Marks!rowAction(FALSE) \subseteq Marks!Ids
         /\ \A i \in Marks!activeBookmarks \cup Marks!archivedBookmarks : marksSeen[i] \in Marks!Bookmark
  <1>1. marksSeen # None =>
          \A i \in Marks!Exist(marksSeen) : i \in Marks!Ids /\ marksSeen[i] \in Marks!Bookmark
    BY DEF MarksInv, Marks!TypeOK, Marks!Exist, Marks!Rows
  <1>2. Marks!activeBookmarks \cup Marks!archivedBookmarks \subseteq Marks!Ids
    BY <1>1 DEF Marks!activeBookmarks, Marks!archivedBookmarks
  <1>3. Marks!rowAction(TRUE) \cup Marks!rowAction(FALSE) \subseteq Marks!Ids
    BY <1>2 DEF Marks!rowAction, MarksInv, MarksDialogKnows
  <1> QED
    BY <1>1, <1>2, <1>3 DEF Marks!activeBookmarks, Marks!archivedBookmarks

\* The steps of the page.
LEMMA MarksPageKeepsInv ==
  ASSUME Marks!BookmarksAssumption, MarksInv,
         \/ \E i \in Marks!Ids : Marks!setRowAction(i) \/ Marks!move("up", i)
              \/ Marks!move("down", i) \/ Marks!setVisible(i)
                             \/ Marks!archive(i) \/ Marks!restore(i) \/ Marks!setEditing(i)
                                  \/ Marks!setDeleting(i)
         \/ Marks!setBookmarking \/ Marks!handleSubmit \/ Marks!onConfirm \/ Marks!onClose
              \/ Marks!BookmarksArrive
  PROVE  MarksInv'
  <1>0. /\ marksDialog \in Marks!Dialog \cup {None} /\ MarksDialogKnows
        /\ marksMoves \in 0..MaxMoves
        /\ Marks!nothing \in [active : BOOLEAN \cup {None}, archived : BOOLEAN \cup {None}]
    BY DEF MarksInv, Marks!TypeOK, Marks!nothing
  <1>1. Marks!Move => marksMoves' \in 0..MaxMoves
    BY <1>0 DEF Marks!Move, Marks!BookmarksAssumption
  <1>2. ASSUME NEW kind \in {"sheet", "edit", "delete", "create"}, NEW i \in Marks!Ids \cup {None},
               NEW archived \in BOOLEAN, kind # "create" => i \in Marks!Ids,
               Marks!Shown(kind, i, archived)
        PROVE  marksDialog' \in Marks!Dialog \cup {None} /\ MarksDialogKnows'
    BY <1>2 DEF Marks!Shown, Marks!Dialog, MarksDialogKnows, Marks!BookmarksAssumption
  <1>3. marksDialog' \in {None, marksDialog} =>
          marksDialog' \in Marks!Dialog \cup {None} /\ MarksDialogKnows'
    BY <1>0 DEF MarksDialogKnows
  <1>4. ASSUME NEW i \in Marks!Ids, Marks!setRowAction(i)
        PROVE  MarksInv'
    <2>1. marksSeen[i].archived \in BOOLEAN
      BY <1>4, MarksListed DEF Marks!setRowAction, Marks!Bookmark
    <2> QED
      BY <1>1, <1>2, <1>4, <2>1, MarksDialogStep DEF Marks!setRowAction
  <1>5. ASSUME NEW i \in Marks!Ids, NEW op \in {"up", "down"}, Marks!move(op, i)
        PROVE  MarksInv'
    BY <1>0, <1>3, <1>5, MarksPostStep DEF Marks!move
  <1>6. ASSUME NEW i \in Marks!Ids, Marks!setVisible(i)
        PROVE  MarksInv'
    <2>1. (~marksSeen[i].active) \in BOOLEAN
      OBVIOUS
    <2>2. [Marks!nothing EXCEPT !.active = ~marksSeen[i].active] \in [active : BOOLEAN \cup {None}, archived : BOOLEAN \cup {None}]
      BY <2>1 DEF Marks!nothing
    <2> QED
      BY <1>0, <1>3, <1>6, <2>2, MarksPostStep DEF Marks!setVisible
  <1>7. ASSUME NEW i \in Marks!Ids, Marks!archive(i) \/ Marks!restore(i)
        PROVE  MarksInv'
    <2>1. \A b \in BOOLEAN : [Marks!nothing EXCEPT !.archived = b] \in [active : BOOLEAN \cup {None}, archived : BOOLEAN \cup {None}]
      BY DEF Marks!nothing
    <2>2. CASE Marks!archive(i)
      BY <1>0, <1>3, <2>1, <2>2, MarksPostStep DEF Marks!archive
    <2>3. CASE Marks!restore(i)
      BY <1>0, <1>3, <2>1, <2>3, MarksPostStep DEF Marks!restore
    <2> QED
      BY <1>7, <2>2, <2>3
  <1>8. ASSUME NEW i \in Marks!Ids, NEW kind \in {"edit", "delete"}, Marks!Opened(kind, i)
        PROVE  MarksInv'
    BY <1>1, <1>2, <1>8, MarksDialogStep DEF Marks!Opened
  <1>9. CASE Marks!setBookmarking
    BY <1>1, <1>2, <1>9, MarksDialogStep DEF Marks!setBookmarking
  <1>10. CASE Marks!handleSubmit
    <2>1. marksDialog \in Marks!Dialog /\ marksMoves + 1 \in 0..MaxMoves
      BY <1>0, <1>10 DEF Marks!handleSubmit, Marks!Move, Marks!BookmarksAssumption
    <2>2. marksDialog' \in Marks!Dialog /\ marksDialog'.kind = marksDialog.kind
          /\ marksDialog'.id = marksDialog.id
      BY <1>10, <2>1 DEF Marks!handleSubmit, Marks!Dialog
    <2>3. MarksDialogKnows' /\ marksDialog.id \in Marks!Ids \cup {None}
          /\ marksDialog.kind \in {"edit", "create"}
          /\ (marksDialog.kind # "create" => marksDialog.id \in Marks!Ids)
      BY <1>0, <1>10, <2>1, <2>2 DEF Marks!handleSubmit, MarksDialogKnows, Marks!Dialog
    <2>4. Marks!Move /\ Marks!Post(marksDialog.kind, marksDialog.id, Marks!nothing)
          /\ UNCHANGED <<Marks!server, marksSeen>>
      BY <1>10 DEF Marks!handleSubmit
    <2> QED
      BY <1>0, <2>2, <2>3, <2>4, MarksPostStep
  <1>11. CASE Marks!onConfirm
    <2>1. marksDialog.id \in Marks!Ids
      BY <1>0, <1>11 DEF Marks!onConfirm, MarksDialogKnows
    <2> QED
      BY <1>0, <1>3, <1>11, <2>1, MarksPostStep DEF Marks!onConfirm
  <1>12. CASE Marks!onClose
    BY <1>1, <1>3, <1>12, MarksDialogStep DEF Marks!onClose
  <1>13. CASE Marks!BookmarksArrive
    BY <1>13 DEF Marks!BookmarksArrive, MarksInv, Marks!TypeOK, MarksRequestsKnow, MarksDialogKnows,
      MarksLockedExist, Marks!Sent, Marks!server
  <1> QED
    BY <1>4, <1>5, <1>6, <1>7, <1>8, <1>9, <1>10, <1>11, <1>12, <1>13 DEF Marks!setEditing,
      Marks!setDeleting

-----------------------------------------------------------------------------
(* The server.                                                             *)

\* The neighbour is another row.
LEMMA MarksNeighbor ==
  ASSUME Marks!BookmarksAssumption, MarksInv, NEW op, NEW i \in Marks!Ids,
         Marks!neighbor(op, i) # None
  PROVE  Marks!neighbor(op, i) \in Marks!Ids \ {i}
  <1> DEFINE S == {j \in Marks!Exist(marksRows) \ {i} : IF op = "up" THEN Marks!Before(marksRows, j, i) ELSE Marks!Before(marksRows, i, j)}
  <1>1. S \in SUBSET Marks!Ids /\ \A j \in S : marksRows[j] \in Marks!Bookmark /\ j # i
    BY DEF Marks!Exist, MarksInv, Marks!TypeOK, Marks!Rows
  <1>2. S # {} /\ Marks!neighbor(op, i) \in {Marks!First(marksRows, S), Marks!Last(marksRows, S)}
    BY DEF Marks!neighbor
  <1> QED
    BY <1>1, <1>2, MarksEnds

\* A request takes a step: n is in another phase, and knows what it needs for it.
LEMMA MarksRequestStep ==
  ASSUME MarksInv, NEW n \in Marks!Sent, NEW r \in Marks!Request,
         marksRequests' = [marksRequests EXCEPT ![n] = r],
         r.op # "create" => r.id \in Marks!Ids,
         r.phase = "read" /\ ~Marks!IsMove(r) => r.read \in Marks!Bookmark,
         r.phase \in {"read", "first"} /\ Marks!IsMove(r) => r.other \in Marks!Ids \ {r.id},
         r.phase = "first" /\ Marks!IsMove(r) => marksRows'[Marks!LockOrder(r)[1]] # None,
         marksRows' \in Marks!Rows,
         \A m \in Marks!Sent \ {n} : Marks!IsMove(marksRequests[m])
           /\ marksRequests[m].phase = "first" =>
           marksRows'[Marks!LockOrder(marksRequests[m])[1]] # None,
         marksNextId' \in 1..(MaxId + 1), UNCHANGED <<marksSeen, marksDialog, marksMoves>>
  PROVE  MarksInv'
  <1>1. n \in Marks!Moves /\ marksRequests' \in [Marks!Moves -> Marks!Request \cup {None}]
        /\ \A m \in Marks!Moves : marksRequests'[m] = IF m = n THEN r ELSE marksRequests[m]
    BY DEF MarksInv, Marks!TypeOK, Marks!Sent
  <1>2. Marks!TypeOK'
    BY <1>1 DEF MarksInv, Marks!TypeOK
  <1>3. MarksRequestsKnow'
    BY <1>1 DEF MarksInv, MarksRequestsKnow, Marks!Sent
  <1>4. MarksLockedExist'
    BY <1>1 DEF MarksLockedExist, Marks!Sent
  <1> QED
    BY <1>2, <1>3, <1>4 DEF MarksInv, MarksDialogKnows

\* A row that is written by others than its holder is not locked, so the locked ones are left.
LEMMA MarksOthersLocked ==
  ASSUME MarksInv, NEW n \in Marks!Sent,
         \A i \in Marks!Ids : marksRows'[i] = marksRows[i] \/ marksRows'[i] # None
           \/ Marks!Holders(i) \subseteq {n}
  PROVE  \A m \in Marks!Sent \ {n} : Marks!IsMove(marksRequests[m])
           /\ marksRequests[m].phase = "first" =>
           marksRows'[Marks!LockOrder(marksRequests[m])[1]] # None
  <1> SUFFICES ASSUME NEW m \in Marks!Sent \ {n}, Marks!IsMove(marksRequests[m]),
                      marksRequests[m].phase = "first"
               PROVE  marksRows'[Marks!LockOrder(marksRequests[m])[1]] # None
    OBVIOUS
  <1> DEFINE i == Marks!LockOrder(marksRequests[m])[1]
  <1>1. i \in Marks!Ids /\ marksRows[i] # None /\ m \in Marks!Holders(i)
    BY DEF MarksInv, MarksRequestsKnow, MarksLockedExist, Marks!LockOrder, Marks!Holders,
      Marks!IsMove
  <1> QED
    BY <1>1

\* A request ends, and has written what the locks allow.
LEMMA MarksEndStep ==
  ASSUME MarksInv, NEW n \in Marks!Sent, NEW p \in {"ok", "error"}, Marks!Phase(n, p),
         marksRows' \in Marks!Rows,
         \A i \in Marks!Ids : marksRows'[i] = marksRows[i] \/ marksRows'[i] # None
           \/ Marks!Holders(i) \subseteq {n},
         marksNextId' \in 1..(MaxId + 1), UNCHANGED <<marksSeen, marksDialog, marksMoves>>
  PROVE  MarksInv'
  <1> DEFINE r == [marksRequests[n] EXCEPT !.phase = p]
  <1>1. n \in Marks!Moves /\ marksRequests[n] \in Marks!Request /\ marksRows \in Marks!Rows
    BY DEF MarksInv, Marks!TypeOK, Marks!Sent
  <1>2. r \in Marks!Request /\ r.phase = p /\ r.op = marksRequests[n].op
        /\ r.id = marksRequests[n].id
    BY <1>1 DEF Marks!Request
  <1>3. marksRequests' = [marksRequests EXCEPT ![n] = r]
    BY <1>1 DEF Marks!Phase, MarksInv, Marks!TypeOK
  <1>4. r.op # "create" => r.id \in Marks!Ids
    BY <1>2 DEF MarksInv, MarksRequestsKnow
  <1> HIDE DEF r
  <1> QED
    BY <1>1, <1>2, <1>3, <1>4, MarksOthersLocked, MarksRequestStep

\* A request that reads its rows.
LEMMA MarksReadKeepsInv ==
  ASSUME Marks!BookmarksAssumption, MarksInv, NEW n \in Marks!Moves, Marks!Read(n)
  PROVE  MarksInv'
  <1> DEFINE r == marksRequests[n]
  <1>1. n \in Marks!Sent /\ r \in Marks!Request /\ marksRows \in Marks!Rows
        /\ marksRows' = marksRows /\ marksNextId' \in 1..(MaxId + 1)
        /\ UNCHANGED <<marksSeen, marksDialog, marksMoves>>
    BY DEF Marks!Read, MarksInv, Marks!TypeOK, Marks!Sent, Marks!server
  <1>2. ASSUME NEW p \in {"ok", "error"}, Marks!Phase(n, p)
        PROVE  MarksInv'
    BY <1>1, <1>2, MarksEndStep
  <1>3. ASSUME NEW q \in Marks!Request, marksRequests' = [marksRequests EXCEPT ![n] = q],
               q.phase = "read",
               q.op = r.op, q.id = r.id, ~Marks!IsMove(q) => q.read \in Marks!Bookmark,
               Marks!IsMove(q) => q.other \in Marks!Ids \ {q.id}
        PROVE  MarksInv'
    <2>1. q.op # "create" => q.id \in Marks!Ids
      BY <1>1, <1>3 DEF MarksInv, MarksRequestsKnow
    <2>2. \A m \in Marks!Sent \ {n} : Marks!IsMove(marksRequests[m])
            /\ marksRequests[m].phase = "first" =>
             marksRows'[Marks!LockOrder(marksRequests[m])[1]] # None
      BY <1>1 DEF MarksInv, MarksLockedExist
    <2> QED
      BY <1>1, <1>3, <2>1, <2>2, MarksRequestStep
  <1>4. CASE r.op = "create"
        /\ marksRequests' = [marksRequests EXCEPT ![n].phase = "read", ![n].read =
                  [position |-> Marks!next_position, active |-> TRUE, archived |-> FALSE]]
    <2> DEFINE new == [position |-> Marks!next_position, active |-> TRUE, archived |-> FALSE]
               q == [r EXCEPT !.phase = "read", !.read = new]
    <2>1. Marks!next_position \in Nat
      <3>1. Marks!Exist(marksRows) \in SUBSET Marks!Ids
            /\ \A i \in Marks!Exist(marksRows) : marksRows[i] \in Marks!Bookmark
        BY <1>1 DEF Marks!Exist, Marks!Rows
      <3>2. Marks!Exist(marksRows) # {} =>
              marksRows[Marks!Last(marksRows, Marks!Exist(marksRows))] \in Marks!Bookmark
        BY <3>1, MarksEnds
      <3> QED
        BY <3>2 DEF Marks!next_position, Marks!Bookmark
    <2>2. new \in Marks!Bookmark
      BY <2>1 DEF Marks!Bookmark
    <2>3. q \in Marks!Request /\ q.phase = "read" /\ q.op = r.op /\ q.id = r.id /\ q.read = new
      <3> HIDE DEF new
      <3> QED
        BY <1>1, <2>2 DEF Marks!Request
    <2>4. marksRequests' = [marksRequests EXCEPT ![n] = q]
      BY <1>1, <1>4 DEF MarksInv, Marks!TypeOK
    <2>5. ~Marks!IsMove(q)
      BY <1>4, <2>3 DEF Marks!IsMove
    <2> HIDE DEF q, new
    <2> QED
      BY <1>3, <2>2, <2>3, <2>4, <2>5
  <1>5. CASE r.op # "create" /\ Marks!IsMove(r) /\ Marks!neighbor(r.op, r.id) # None
             /\ marksRequests' =
                  [marksRequests EXCEPT ![n].phase = "read", ![n].other = Marks!neighbor(r.op, r.id)]
    <2> DEFINE j == Marks!neighbor(r.op, r.id)
               q == [r EXCEPT !.phase = "read", !.other = j]
    <2>1. r.id \in Marks!Ids /\ j \in Marks!Ids \ {r.id}
      BY <1>1, <1>5, MarksNeighbor DEF MarksInv, MarksRequestsKnow
    <2>2. marksRequests' = [marksRequests EXCEPT ![n] = q]
      BY <1>1, <1>5 DEF MarksInv, Marks!TypeOK
    <2> HIDE DEF j
    <2>3. q \in Marks!Request /\ q.phase = "read" /\ q.op = r.op /\ q.id = r.id /\ q.other = j
      BY <1>1, <2>1 DEF Marks!Request
    <2>4. Marks!IsMove(q)
      BY <1>5, <2>3 DEF Marks!IsMove
    <2> HIDE DEF q
    <2> QED
      BY <1>3, <2>1, <2>2, <2>3, <2>4
  <1>6. CASE r.op # "create" /\ ~Marks!IsMove(r) /\ marksRows[r.id] # None
             /\ marksRequests' = [marksRequests EXCEPT ![n].phase = "read", ![n].read = marksRows[r.id]]
    <2> DEFINE q == [r EXCEPT !.phase = "read", !.read = marksRows[r.id]]
    <2>1. marksRows[r.id] \in Marks!Bookmark
      BY <1>1, <1>6 DEF MarksInv, MarksRequestsKnow, Marks!Rows
    <2>2. marksRequests' = [marksRequests EXCEPT ![n] = q]
      BY <1>1, <1>6 DEF MarksInv, Marks!TypeOK
    <2>3. q \in Marks!Request /\ q.phase = "read" /\ q.op = r.op /\ q.id = r.id
          /\ q.read = marksRows[r.id]
      BY <1>1, <2>1 DEF Marks!Request
    <2>4. ~Marks!IsMove(q)
      BY <1>6, <2>3 DEF Marks!IsMove
    <2> HIDE DEF q
    <2> QED
      BY <1>3, <2>1, <2>2, <2>3, <2>4
  <1> QED
    BY <1>2, <1>4, <1>5, <1>6 DEF Marks!Read

\* A move that locks the lower of its rows.
LEMMA MarksLockFirstKeepsInv ==
  ASSUME MarksInv, NEW n \in Marks!Moves, Marks!LockFirst(n)
  PROVE  MarksInv'
  <1> DEFINE r == marksRequests[n]
             i == Marks!LockOrder(r)[1]
             p == IF marksRows[i] = None THEN "error" ELSE "first"
             q == [r EXCEPT !.phase = p]
  <1>1. n \in Marks!Sent /\ r \in Marks!Request /\ marksRows \in Marks!Rows
        /\ marksRows' = marksRows /\ marksNextId' \in 1..(MaxId + 1)
        /\ Marks!IsMove(r) /\ r.phase = "read" /\ UNCHANGED <<marksSeen, marksDialog, marksMoves>>
    BY DEF Marks!LockFirst, MarksInv, Marks!TypeOK, Marks!Sent, Marks!server
  <1>2. q \in Marks!Request /\ q.phase = p /\ q.op = r.op /\ q.id = r.id /\ q.other = r.other
    BY <1>1 DEF Marks!Request
  <1>3. marksRequests' = [marksRequests EXCEPT ![n] = q]
    BY <1>1 DEF Marks!LockFirst, Marks!Phase, MarksInv, Marks!TypeOK
  <1>4. r.id \in Marks!Ids /\ r.other \in Marks!Ids \ {r.id}
    BY <1>1 DEF MarksInv, MarksRequestsKnow, Marks!IsMove
  <1>5. Marks!IsMove(q) /\ Marks!LockOrder(q)[1] = i
    BY <1>1, <1>2 DEF Marks!IsMove, Marks!LockOrder
  <1>6. \A m \in Marks!Sent \ {n} : Marks!IsMove(marksRequests[m])
          /\ marksRequests[m].phase = "first" =>
           marksRows'[Marks!LockOrder(marksRequests[m])[1]] # None
    BY <1>1 DEF MarksInv, MarksLockedExist
  <1>7. p = "first" => marksRows'[Marks!LockOrder(q)[1]] # None
    BY <1>1, <1>5
  <1>8. q.phase \in {"first", "error"} /\ (q.phase = "first" => p = "first")
    BY <1>2
  <1> HIDE DEF q, p
  <1> QED
    BY <1>1, <1>2, <1>3, <1>4, <1>5, <1>6, <1>7, <1>8, MarksRequestStep

\* A move that locks the other and swaps.
LEMMA MarksSwapKeepsInv ==
  ASSUME Marks!BookmarksAssumption, MarksInv, NEW n \in Marks!Moves, Marks!Swap(n)
  PROVE  MarksInv'
  <1> DEFINE r == marksRequests[n]
             i == Marks!LockOrder(r)[2]
  <1>1. n \in Marks!Sent /\ r \in Marks!Request /\ marksRows \in Marks!Rows
        /\ marksNextId' \in 1..(MaxId + 1)
        /\ Marks!IsMove(r) /\ r.phase = "first" /\ UNCHANGED <<marksSeen, marksDialog, marksMoves>>
    BY DEF Marks!Swap, MarksInv, Marks!TypeOK, Marks!Sent
  <1>2. CASE Marks!Phase(n, "error") /\ UNCHANGED marksRows
    BY <1>1, <1>2, MarksEndStep
  <1>3. CASE marksRows[i] # None /\ Marks!Phase(n, "ok")
        /\ marksRows' = Marks!Swapped(marksRows, r.op, r.id, r.other)
    <2>1. r.id \in Marks!Ids /\ r.other \in Marks!Ids \ {r.id}
      BY <1>1 DEF MarksInv, MarksRequestsKnow, Marks!IsMove
    <2>2. marksRows[r.id] \in Marks!Bookmark /\ marksRows[r.other] \in Marks!Bookmark
      <3>1. marksRows[Marks!LockOrder(r)[1]] # None
        BY <1>1 DEF MarksInv, MarksLockedExist
      <3> QED
        BY <1>1, <1>3, <2>1, <3>1 DEF Marks!LockOrder, Marks!Rows
    <2>3. /\ marksRows' \in Marks!Rows
          /\ \A j \in Marks!Ids \ {r.id, r.other} : marksRows'[j] = marksRows[j]
          /\ marksRows'[r.id] # None /\ marksRows'[r.other] # None
      <3>1. ASSUME NEW b \in Marks!Bookmark, NEW c \in Marks!Bookmark,
                   marksRows' = [marksRows EXCEPT ![r.id] = b, ![r.other] = c]
            PROVE  <2>3
        BY <1>1, <2>1, <3>1 DEF Marks!Rows, Marks!BookmarksAssumption
      <3> DEFINE b == marksRows[r.id]
                 c == marksRows[r.other]
                 At(a, k) == [a EXCEPT !.position = k]
      <3>2. \A k \in Nat : At(b, k) \in Marks!Bookmark /\ At(c, k) \in Marks!Bookmark
        BY <2>2 DEF Marks!Bookmark
      <3>3. b.position \in Nat /\ c.position \in Nat
        BY <2>2 DEF Marks!Bookmark
      <3>4. \/ marksRows' =
                 [marksRows EXCEPT ![r.id] = At(b, c.position), ![r.other] = At(c, b.position)]
            \/ marksRows' = [marksRows EXCEPT ![r.id] = b, ![r.other] = At(c, b.position + 1)]
            \/ marksRows' = [marksRows EXCEPT ![r.id] = At(b, c.position + 1), ![r.other] = c]
        BY <1>1, <1>3, <2>1 DEF Marks!Swapped, Marks!Rows
      <3>5. b.position + 1 \in Nat /\ c.position + 1 \in Nat
        BY <3>3
      <3> HIDE DEF At, b, c
      <3> QED
        BY <2>2, <3>1, <3>2, <3>3, <3>4, <3>5 DEF b, c
    <2> QED
      BY <1>1, <1>3, <2>1, <2>3, MarksEndStep
  <1> QED
    BY <1>2, <1>3 DEF Marks!Swap

\* The requests that write one row.
LEMMA MarksWritesKeepInv ==
  ASSUME Marks!BookmarksAssumption, MarksInv, NEW n \in Marks!Moves,
         Marks!Save(n) \/ Marks!Delete(n) \/ Marks!Insert(n)
  PROVE  MarksInv'
  <1> DEFINE r == marksRequests[n]
  <1>1. n \in Marks!Sent /\ r \in Marks!Request /\ marksRows \in Marks!Rows
        /\ marksNextId \in 1..(MaxId + 1)
        /\ r.phase = "read" /\ ~Marks!IsMove(r) /\ UNCHANGED <<marksSeen, marksDialog, marksMoves>>
    BY DEF Marks!Save, Marks!Delete, Marks!Insert, MarksInv, Marks!TypeOK, Marks!Sent, Marks!IsMove
  <1>2. r.read \in Marks!Bookmark
    BY <1>1 DEF MarksInv, MarksRequestsKnow
  <1>3. ASSUME NEW i \in Marks!Ids, NEW b \in Marks!Bookmark,
               marksRows' = [marksRows EXCEPT ![i] = b]
        PROVE  marksRows' \in Marks!Rows
               /\ \A j \in Marks!Ids : marksRows'[j] = marksRows[j] \/ marksRows'[j] # None
    BY <1>1, <1>3 DEF Marks!Rows, Marks!BookmarksAssumption
  <1>4. CASE Marks!Save(n)
    <2> DEFINE new == [r.read EXCEPT !.active = IF r.set.active = None THEN @ ELSE r.set.active,
                            !.archived = IF r.set.archived = None THEN @ ELSE r.set.archived]
    <2>1. r.id \in Marks!Ids
      BY <1>1, <1>4 DEF Marks!Save, MarksInv, MarksRequestsKnow
    <2>2. new \in Marks!Bookmark
      BY <1>1, <1>2 DEF Marks!Request, Marks!Bookmark
    <2>3. (Marks!Phase(n, "error") /\ UNCHANGED marksRows)
            \/ (Marks!Phase(n, "ok") /\ marksRows' = [marksRows EXCEPT ![r.id] = new])
      BY <1>4 DEF Marks!Save
    <2>4. marksNextId' \in 1..(MaxId + 1)
      BY <1>1, <1>4 DEF Marks!Save
    <2> HIDE DEF new
    <2> QED
      BY <1>1, <1>3, <2>1, <2>2, <2>3, <2>4, MarksEndStep
  <1>5. CASE Marks!Delete(n)
    <2>1. r.id \in Marks!Ids
      BY <1>1, <1>5 DEF Marks!Delete, MarksInv, MarksRequestsKnow
    <2>2. marksRows' \in Marks!Rows
          /\ \A j \in Marks!Ids : marksRows'[j] = marksRows[j] \/ Marks!Holders(j) \subseteq {n}
      BY <1>1, <1>5, <2>1 DEF Marks!Delete, Marks!Rows
    <2> QED
      BY <1>1, <1>5, <2>2, MarksEndStep DEF Marks!Delete
  <1>6. CASE Marks!Insert(n)
    <2>1. marksNextId \in Marks!Ids /\ marksNextId' \in 1..(MaxId + 1)
      BY <1>1, <1>6 DEF Marks!Insert, Marks!Ids, Marks!BookmarksAssumption
    <2>2. (Marks!Phase(n, "error") /\ UNCHANGED marksRows)
            \/ (Marks!Phase(n, "ok") /\ marksRows' = [marksRows EXCEPT ![marksNextId] = r.read])
      BY <1>6 DEF Marks!Insert
    <2> QED
      BY <1>1, <1>2, <1>3, <2>1, <2>2, MarksEndStep
  <1> QED
    BY <1>4, <1>5, <1>6

\* An answer that arrives.
LEMMA MarksAnsweredKeepsInv ==
  ASSUME Marks!BookmarksAssumption, MarksInv, NEW n \in Marks!Moves, Marks!Answered(n)
  PROVE  MarksInv'
  <1>1. marksRequests' = [marksRequests EXCEPT ![n] = None] /\ UNCHANGED <<Marks!server, marksSeen,
                                                                           marksMoves>>
    BY DEF Marks!Answered
  <1>2. marksDialog' \in Marks!Dialog \cup {None} /\ MarksDialogKnows'
    <2>1. marksDialog # None =>
            marksDialog \in Marks!Dialog /\ [marksDialog EXCEPT !.waits = 0] \in Marks!Dialog
             /\ [marksDialog EXCEPT !.waits = 0].kind = marksDialog.kind
             /\ [marksDialog EXCEPT !.waits = 0].id = marksDialog.id
      BY DEF MarksInv, Marks!TypeOK, Marks!Dialog, Marks!BookmarksAssumption
    <2>2. marksDialog' = None
            \/ (marksDialog # None /\ marksDialog' \in {marksDialog, [marksDialog EXCEPT !.waits = 0]})
      BY DEF Marks!Answered
    <2> QED
      BY <2>1, <2>2 DEF MarksInv, MarksDialogKnows
  <1>3. Marks!TypeOK'
    BY <1>1, <1>2 DEF MarksInv, Marks!TypeOK, Marks!server
  <1>4. \A m \in Marks!Sent' : m \in Marks!Sent /\ marksRequests'[m] = marksRequests[m]
    BY <1>1 DEF Marks!Sent, MarksInv, Marks!TypeOK
  <1>5. MarksRequestsKnow' /\ MarksLockedExist'
    BY <1>1, <1>4 DEF MarksInv, MarksRequestsKnow, MarksLockedExist, Marks!server
  <1> QED
    BY <1>2, <1>3, <1>5 DEF MarksInv

\* Every step of the bookmarks page keeps its invariant.
LEMMA MarksStepInv ==
  ASSUME Marks!BookmarksAssumption, MarksInv, Marks!Next \/ UNCHANGED Marks!vars
  PROVE  MarksInv'
  <1>1. CASE UNCHANGED Marks!vars
    BY <1>1 DEF Marks!vars, Marks!server, MarksInv, Marks!TypeOK, MarksRequestsKnow,
      MarksDialogKnows, MarksLockedExist, Marks!Sent
  <1>2. CASE Marks!Next
    BY <1>2, MarksPageKeepsInv, MarksReadKeepsInv, MarksLockFirstKeepsInv, MarksSwapKeepsInv,
      MarksWritesKeepInv, MarksAnsweredKeepsInv
       DEF Marks!Next
  <1> QED
    BY <1>1, <1>2

\* Of moves that hold a row, the one that waits for the highest waits for none of them:
\* who holds that row waits for a higher one.
LEMMA MarksNeverDeadlock ==
  ASSUME Marks!BookmarksAssumption, MarksInv
  PROVE  Marks!MovesNeverDeadlock
  <1> SUFFICES ASSUME NEW S \in SUBSET {n \in Marks!Sent : Marks!IsMove(marksRequests[n]) /\ marksRequests[n].phase = "first"}, S # {}
               PROVE  \E n \in S : Marks!Holders(Marks!LockOrder(marksRequests[n])[2]) \cap S = {}
    BY DEF Marks!MovesNeverDeadlock
  <1> DEFINE held(n) == Marks!LockOrder(marksRequests[n])[1]
             wants(n) == Marks!LockOrder(marksRequests[n])[2]
             W == {wants(n) : n \in S}
  <1>1. \A n \in S : wants(n) \in Marks!Ids /\ held(n) < wants(n)
    BY DEF MarksInv, MarksRequestsKnow, Marks!LockOrder, Marks!IsMove, Marks!Ids,
      Marks!BookmarksAssumption
  <1>2. W \in SUBSET Marks!Ids /\ W # {}
    BY <1>1
  <1>3. IsFiniteSet(W) /\ W \in SUBSET Nat
    <2>1. IsFiniteSet(Marks!Ids) /\ Marks!Ids \subseteq Nat
      BY FS_Interval DEF Marks!Ids, Marks!BookmarksAssumption
    <2> QED
      BY <1>2, <2>1, FS_Subset
  <1>4. PICK w \in W : \A v \in W : v <= w
    BY <1>2, <1>3, GreatestNumber
  <1>5. PICK n \in S : wants(n) = w
    BY <1>4
  <1>6. ASSUME NEW m \in Marks!Holders(w) \cap S
        PROVE  FALSE
    <2>1. held(m) = w /\ wants(m) \in W /\ held(m) < wants(m)
      BY <1>1, <1>6 DEF Marks!Holders
    <2>2. wants(m) <= w /\ w \in Nat /\ wants(m) \in Nat
      BY <1>3, <1>4, <2>1
    <2> HIDE DEF held, wants
    <2> QED
      BY <2>1, <2>2
  <1> QED
    BY <1>5, <1>6

\* A step while this page is followed is a step of the page, or leaves it alone.
LEMMA MarksFrame ==
  ASSUME page = "bookmarks", Next \/ UNCHANGED vars
  PROVE  page' = "bookmarks" /\ (Marks!Next \/ UNCHANGED Marks!vars)
  BY DEF Next, vars, EntryNext, ItemsNext, BoardNext, RowsNext, TransfersNext,
    MembersNext, FormNext, ListsNext, PanelNext, MarksNext, DefaultsNext, marksVars,
    Marks!vars, Marks!server

-----------------------------------------------------------------------------
(***************************************************************************)
(* The page of a budget (BudgetBoard).                                     *)
(***************************************************************************)

\* A list is of the periods of its budget.
BoardListing(lst) ==
  /\ lst \in [Budgets -> Board!Listing \cup {None}]
  /\ \A b \in Budgets : lst[b] # None => \A q \in lst[b].periods : q \in Board!Period /\ q[1] = b

\* What is selected is a period of the budget that is open.
BoardOwn == boardPeriodId # None => boardPeriodId[1] = boardHere.budget

\* A callback is for a period of its budget; nobody leaves before a deletion is followed.
BoardCallbacks ==
  /\ boardPlanning # None => boardPlanning.period[1] = boardPlanning.budget
  /\ boardDeleting # None =>
       boardDeleting.period[1] = boardDeleting.budget /\ boardDeleting.for # "nothing"

\* The current period that was made is there: a budget that has one keeps it.
BoardCurrentIsThere ==
  \A b \in Budgets : boardCurrent[b] = "made" => b \notin Custom /\ <<b, Board!Current>> \in boardExists

\* The list that a deletion has waited for holds periods that are there.
BoardListIsThere ==
  \A b \in Budgets :
    boardDeleting # None /\ boardDeleting.for = "list" /\ boardDeleting.budget = b
    /\ b \notin boardStale /\ boardListed[b] # None => boardListed[b].periods \subseteq boardExists

BoardInv ==
  /\ Board!TypeOK /\ BoardListing(boardListed) /\ BoardOwn /\ BoardCallbacks
  /\ BoardCurrentIsThere /\ BoardListIsThere

-----------------------------------------------------------------------------
(* What is selected.                                                       *)

\* The nearest period is one of those given.
LEMMA BoardNearest ==
  ASSUME NEW P \in SUBSET Board!Period
  PROVE  Board!nearestPeriod(P) \in P \cup {None}
  <1> DEFINE started == {p \in P : p[2] <= Board!Current}
  <1>1. \A p \in P : p[2] \in {1, 2, 3}
    BY DEF Board!Period, Board!Past, Board!Current, Board!Future
  <1>2. started # {} => \E p \in started : \A q \in started : q[2] <= p[2]
    <2>1. CASE \E p \in started : p[2] = 2
      BY <1>1, <2>1 DEF Board!Current
    <2>2. CASE ~\E p \in started : p[2] = 2
      BY <1>1, <2>2 DEF Board!Current
    <2> QED
      BY <2>1, <2>2
  <1>3. started = {} => \A p \in P : p[2] = 3
    BY <1>1 DEF Board!Current
  <1>4. started = {} /\ P # {} => \E p \in P : \A q \in P : p[2] <= q[2]
    BY <1>3
  <1>5. Board!nearestPeriod(P) =
          IF P = {} THEN None
          ELSE IF started # {} THEN CHOOSE p \in started : \A q \in started : q[2] <= p[2]
          ELSE CHOOSE p \in P : \A q \in P : p[2] <= q[2]
    BY DEF Board!nearestPeriod
  <1>6. started \subseteq P
    OBVIOUS
  <1> HIDE DEF started
  <1>7. CASE P = {}
    BY <1>5, <1>7
  <1>8. CASE P # {} /\ started # {}
    BY <1>2, <1>5, <1>6, <1>8
  <1>9. CASE P # {} /\ started = {}
    BY <1>4, <1>5, <1>9
  <1> QED
    BY <1>7, <1>8, <1>9

\* All the periods the page knows of are of its budget.
LEMMA BoardAllOwn ==
  ASSUME NEW b \in Budgets, NEW lst, BoardListing(lst), NEW cur
  PROVE  \A q \in Board!allPeriods(b, lst, cur) : q \in Board!Period /\ q[1] = b
  <1>1. <<b, Board!Current>> \in Board!Period /\ <<b, Board!Current>>[1] = b
    BY DEF Board!Period, Board!Past, Board!Current, Board!Future
  <1> QED
    BY <1>1 DEF Board!allPeriods, BoardListing, Board!Listing

\* A selection that is adjusted is kept, dropped or a period of the budget.
LEMMA BoardAdjusted ==
  ASSUME NEW b \in Budgets, NEW lst, BoardListing(lst), NEW cur, NEW p
  PROVE  Board!Adjust(p, b, lst, cur) \in {p, None} \cup Board!allPeriods(b, lst, cur)
  <1>1. Board!allPeriods(b, lst, cur) \in SUBSET Board!Period
    BY BoardAllOwn
  <1>2. Board!nearestPeriod(Board!allPeriods(b, lst, cur)) \in {None} \cup Board!allPeriods(b, lst, cur)
    BY <1>1, BoardNearest
  <1>3. cur[b] = "made" => <<b, Board!Current>> \in Board!allPeriods(b, lst, cur)
    BY DEF Board!allPeriods
  <1> QED
    BY <1>2, <1>3 DEF Board!Adjust

\* So is one that is settled.
LEMMA BoardSettledOn ==
  ASSUME NEW b \in Budgets, NEW lst, BoardListing(lst), NEW cur, NEW p
  PROVE  Board!Settled(p, b, lst, cur) \in {p, None} \cup Board!allPeriods(b, lst, cur)
  <1> DEFINE q == Board!Adjust(p, b, lst, cur)
  <1>1. q \in {p, None} \cup Board!allPeriods(b, lst, cur)
    BY BoardAdjusted
  <1> HIDE DEF q
  <1>2. Board!Adjust(q, b, lst, cur) \in {q, None} \cup Board!allPeriods(b, lst, cur)
    BY BoardAdjusted
  <1>3. Board!Settled(p, b, lst, cur) = Board!Adjust(q, b, lst, cur)
    BY DEF Board!Settled, q
  <1> QED
    BY <1>1, <1>2, <1>3

\* What a rendering selects: what was selected, if the budget is the same, or what the
\* address says, or a period the page knows of.
LEMMA BoardSelected ==
  ASSUME NEW u \in Board!Here, NEW p, NEW v, NEW anew, NEW lst, BoardListing(lst), NEW cur,
         Board!Show(u, p, v, anew, lst, cur)
  PROVE  \/ boardPeriodId' \in {None} \cup Board!allPeriods(u.budget, lst, cur)
         \/ ~anew /\ boardPeriodId' = p
         \/ anew /\ u.period # None /\ boardPeriodId' = u.period
  <1> DEFINE b == u.budget
             A == {None} \cup Board!allPeriods(b, lst, cur)
             q == Board!Settled(p, b, lst, cur)
             r == IF anew THEN Board!Reset(q, u, lst, cur) ELSE q
  <1>1. b \in Budgets
    BY DEF Board!Here
  <1>2. \A x : Board!Settled(x, b, lst, cur) \in {x} \cup A
    BY <1>1, BoardSettledOn
  <1>3. q \in {p} \cup A
    BY <1>2
  <1>4. boardPeriodId' = Board!Settled(r, b, lst, cur)
    BY DEF Board!Show
  <1>5. anew => r \in A \/ (u.period # None /\ r = u.period)
    BY DEF Board!Reset
  <1>6. ~anew => r = q
    OBVIOUS
  <1> HIDE DEF b, A, q, r
  <1>7. boardPeriodId' \in {r} \cup A
    BY <1>2, <1>4
  <1>8. \/ boardPeriodId' \in A
        \/ ~anew /\ boardPeriodId' = p
        \/ anew /\ u.period # None /\ boardPeriodId' = u.period
    BY <1>3, <1>5, <1>6, <1>7
  <1> QED
    BY <1>8 DEF A, b

\* A rendering keeps its type, and selects a period of the budget it shows.
LEMMA BoardRendered ==
  ASSUME Board!TypeOK, NEW u \in Board!Here, NEW p \in Board!Period \cup {None},
         NEW v \in Codes \cup {None},
         NEW anew, NEW lst, BoardListing(lst), NEW cur,
         Board!Show(u, p, v, anew, lst, cur),
         anew => (u.period # None => u.period[1] = u.budget),
         ~anew => (p # None => p[1] = u.budget)
  PROVE  /\ boardHere' \in Board!Here /\ boardPeriodId' \in Board!Period \cup {None}
         /\ boardView' \in Codes \cup {None}
         /\ BoardOwn'
  <1>1. boardHere' = u
    BY DEF Board!Show
  <1>2. u.budget \in Budgets /\ u.period \in Board!Period \cup {None}
        /\ u.currency \in Codes \cup {None}
    BY DEF Board!Here
  <1>3. boardView' \in Codes \cup {None}
    BY <1>2 DEF Board!Show, Board!TypeOK
  <1>4. \A q \in Board!allPeriods(u.budget, lst, cur) : q \in Board!Period /\ q[1] = u.budget
    BY <1>2, BoardAllOwn
  <1>5. \/ boardPeriodId' \in {None} \cup Board!allPeriods(u.budget, lst, cur)
        \/ ~anew /\ boardPeriodId' = p
        \/ anew /\ u.period # None /\ boardPeriodId' = u.period
    BY BoardSelected
  <1> QED
    BY <1>1, <1>2, <1>3, <1>4, <1>5 DEF BoardOwn

\* The invariant of the budget page holds as it is entered.
LEMMA BoardInitInv ==
  ASSUME Board!BudgetBoardAssumption, Board!Init
  PROVE  BoardInv
  <1>1. boardHere \in Board!Here
    BY DEF Board!Init, Board!Here
  <1>2. boardExists \subseteq Board!Period
    BY DEF Board!Init, Board!Period, Board!Past, Board!Current, Board!Future
  <1>3. boardMoves \in 0..MaxMoves
    BY DEF Board!Init, Board!BudgetBoardAssumption
  <1>4. BoardListing(boardListed) /\ \A b \in Budgets : boardListed[b] = None
    <2>1. boardListed = [b \in Budgets |-> None]
      BY DEF Board!Init
    <2> DEFINE Lst == Board!Listing \cup {None}
    <2>2. None \in Lst
      OBVIOUS
    <2> HIDE DEF Lst
    <2>3. boardListed \in [Budgets -> Lst]
      BY <2>1, <2>2
    <2> QED
      BY <2>1, <2>3 DEF BoardListing, Lst
  <1>5. boardCurrent \in [Budgets -> {None, "made", "failed"}]
        /\ boardStored \in [Budgets -> Codes \cup {None}]
    BY DEF Board!Init
  <1>6. Board!TypeOK
    BY <1>1, <1>2, <1>3, <1>4, <1>5 DEF Board!Init, Board!TypeOK
  <1>7. BoardOwn /\ BoardCallbacks /\ BoardListIsThere
    BY <1>4 DEF Board!Init, BoardOwn, BoardCallbacks, BoardListIsThere
  <1>8. BoardCurrentIsThere
    <2>1. \A b \in Budgets : boardCurrent[b] = None
      BY DEF Board!Init
    <2> QED
      BY <2>1 DEF BoardCurrentIsThere, Board!BudgetBoardAssumption
  <1> QED
    BY <1>4, <1>6, <1>7, <1>8 DEF BoardInv

\* The user's moves are counted.
LEMMA BoardMoved ==
  ASSUME Board!BudgetBoardAssumption, Board!TypeOK, Board!Move
  PROVE  boardMoves' \in 0..MaxMoves
  BY DEF Board!BudgetBoardAssumption, Board!TypeOK, Board!Move

\* Selecting a period of a budget, from the page of that budget.
LEMMA BoardSelecting ==
  ASSUME Board!TypeOK, BoardListing(boardListed), NEW b \in Budgets, NEW p \in Board!Period,
         p[1] = b, Board!Select(b, p)
  PROVE  /\ boardHere' \in Board!Here /\ boardPeriodId' \in Board!Period \cup {None}
         /\ boardView' \in Codes \cup {None}
         /\ BoardOwn'
  <1> DEFINE u == [boardHere EXCEPT !.budget = b, !.period = p]
             anew == b # boardHere.budget
  <1>1. u \in Board!Here /\ u.budget = b /\ u.period = p
    BY DEF Board!TypeOK, Board!Here
  <1>2. Board!Show(u, p, boardView, anew, boardListed, boardCurrent)
        /\ boardView \in Codes \cup {None}
    BY DEF Board!Select, Board!TypeOK
  <1> HIDE DEF u, anew
  <1> QED
    BY <1>1, <1>2, BoardRendered

\* A list of the periods of its budget takes the place of another.
LEMMA BoardRelisted ==
  ASSUME NEW lst, BoardListing(lst), NEW b \in Budgets, NEW one \in Board!Listing,
         \A q \in one.periods : q \in Board!Period /\ q[1] = b
  PROVE  /\ BoardListing([lst EXCEPT ![b] = one])
         /\ \A c \in Budgets : /\ [lst EXCEPT ![b] = one][c] = IF c = b THEN one ELSE lst[c]
                              /\ [lst EXCEPT ![b] = one][c] \in Board!Listing \cup {None}
  <1> DEFINE Lst == Board!Listing \cup {None}
             new == [lst EXCEPT ![b] = one]
  <1>1. lst \in [Budgets -> Lst] /\ one \in Lst
    BY DEF BoardListing
  <1> HIDE DEF Lst
  <1>2. new \in [Budgets -> Lst] /\ \A c \in Budgets : new[c] = IF c = b THEN one ELSE lst[c]
    BY <1>1
  <1> HIDE DEF new
  <1>3. \A c \in Budgets : new[c] # None => \A q \in new[c].periods : q \in Board!Period /\ q[1] = c
    BY <1>2 DEF BoardListing
  <1>4. BoardListing(new) /\ \A c \in Budgets : new[c] \in Lst
    BY <1>2, <1>3 DEF BoardListing, Lst
  <1> QED
    BY <1>2, <1>4 DEF new, Lst

\* A callback whose fetch failed is still there; it waits for nothing that goes on.
LEMMA BoardAwaitEnds ==
  ASSUME NEW w \in Board!Waiting \cup {None}, None \notin Board!Waiting, NEW b \in Budgets
  PROVE  /\ Board!AwaitFailed(w, b) \in Board!Waiting \cup {None}
         /\ w # None => /\ Board!AwaitFailed(w, b) # None
                        /\ Board!AwaitFailed(w, b).period = w.period
                        /\ Board!AwaitFailed(w, b).budget = w.budget
                        /\ Board!AwaitFailed(w, b).for \in {w.for, "failed"}
                        /\ Board!AwaitFailed(w, b).for = "list" => w.for = "list" /\ w.budget # b
         /\ w = None => Board!AwaitFailed(w, b) = None
  BY DEF Board!AwaitFailed, Board!Waiting

\* Every step keeps it.
LEMMA BoardStepInv ==
  ASSUME Board!BudgetBoardAssumption, BoardInv, Board!Next \/ UNCHANGED Board!vars
  PROVE  BoardInv'
  <1> USE DEF BoardInv
  <1>1. /\ boardHere \in Board!Here /\ boardHere.budget \in Budgets
        /\ boardView \in Codes \cup {None}
        /\ boardPeriodId \in Board!Period \cup {None}
    BY DEF Board!TypeOK, Board!Here
  <1>2. \A p \in Board!all : p \in Board!Period /\ p[1] = boardHere.budget
    BY <1>1, BoardAllOwn DEF Board!all
  \* What the server, the queries and the callbacks have to say is left alone.
  <1>3. ASSUME UNCHANGED <<Board!server, Board!queries, boardPlanning, boardDeleting>>,
               boardMoves' \in 0..MaxMoves,
               boardHere' \in Board!Here, boardPeriodId' \in Board!Period \cup {None},
               boardView' \in Codes \cup {None}, BoardOwn',
               boardEditing' \in Board!Period \cup {None},
               boardStored' \in [Budgets -> Codes \cup {None}]
        PROVE  BoardInv'
    BY <1>3 DEF Board!TypeOK, BoardCallbacks, BoardCurrentIsThere, BoardListIsThere,
      Board!server, Board!queries
  <1>4. ASSUME NEW u \in Board!Links, Board!open(u) \/ Board!navigate(u)
        PROVE  BoardInv'
    <2>1. u \in Board!Here /\ (u.period # None => u.period[1] = u.budget)
      BY DEF Board!Links
    <2>2. /\ boardHere' \in Board!Here /\ boardPeriodId' \in Board!Period \cup {None}
          /\ boardView' \in Codes \cup {None}
          /\ BoardOwn'
      <3>1. CASE Board!open(u)
        <4>1. Board!Show(u, None, None, TRUE, boardListed, boardCurrent)
          BY <3>1 DEF Board!open
        <4> QED
          BY <2>1, <4>1, BoardRendered
      <3>2. CASE Board!navigate(u)
        <4> DEFINE anew == u.budget # boardHere.budget
        <4>1. Board!Show(u, boardPeriodId, boardView, anew, boardListed, boardCurrent)
          BY <3>2 DEF Board!navigate
        <4>2. ~anew => (boardPeriodId # None => boardPeriodId[1] = u.budget)
          BY DEF BoardOwn
        <4> HIDE DEF anew
        <4> QED
          BY <1>1, <2>1, <4>1, <4>2, BoardRendered
      <3> QED
        BY <1>4, <3>1, <3>2
    <2>3. boardMoves' \in 0..MaxMoves
      BY <1>4, BoardMoved DEF Board!open, Board!navigate
    <2>4. boardEditing' \in Board!Period \cup {None}
          /\ boardStored' \in [Budgets -> Codes \cup {None}]
      BY <1>4 DEF Board!TypeOK, Board!open, Board!navigate
    <2> QED
      BY <1>3, <1>4, <2>2, <2>3, <2>4 DEF Board!open, Board!navigate
  <1>5. ASSUME NEW b \in Budgets, Board!PeriodsArrive(b)
        PROVE  BoardInv'
    <2> DEFINE there == {p \in boardExists : p[1] = b}
               one == [periods |-> there, success |-> TRUE]
               lst == [boardListed EXCEPT ![b] = one]
    <2>1. /\ one \in Board!Listing /\ one.periods \subseteq boardExists
          /\ \A q \in one.periods : q \in Board!Period /\ q[1] = b
      BY DEF Board!TypeOK, Board!Listing
    <2>3. Board!Show(boardHere, boardPeriodId, boardView, FALSE, lst, boardCurrent)
          /\ boardListed' = lst /\ boardCurrent' = boardCurrent
      BY <1>5 DEF Board!PeriodsArrive, Board!Refreshed
    <2> HIDE DEF one, there
    <2>4. /\ BoardListing(lst)
          /\ \A c \in Budgets : /\ lst[c] = IF c = b THEN one ELSE boardListed[c]
                               /\ lst[c] \in Board!Listing \cup {None}
      BY <2>1, BoardRelisted
    <2> HIDE DEF lst
    <2>5. /\ boardHere' \in Board!Here /\ boardPeriodId' \in Board!Period \cup {None}
          /\ boardView' \in Codes \cup {None}
          /\ BoardOwn'
      <3> DEFINE anew == FALSE
      <3>1. Board!Show(boardHere, boardPeriodId, boardView, anew, lst, boardCurrent)
        BY <2>3
      <3>2. ~anew /\ (boardPeriodId # None => boardPeriodId[1] = boardHere.budget)
        BY DEF BoardOwn
      <3> HIDE DEF anew
      <3> QED
        BY <1>1, <2>4, <3>1, <3>2, BoardRendered
    <2>6. UNCHANGED <<boardEditing, boardStored, boardExists, boardWritten, boardPlanning,
                      boardDeleting, boardMoves>> /\ boardStale' = boardStale \ {b}
      BY <1>5 DEF Board!PeriodsArrive, Board!server
    <2>7. Board!TypeOK'
      <3>1. \A c \in Budgets : boardListed'[c] = None \/ boardListed'[c] \in Board!Listing
        BY <2>3, <2>4
      <3>2. boardStale' \subseteq Budgets
        BY <2>6 DEF Board!TypeOK
      <3> QED
        BY <2>3, <2>5, <2>6, <3>1, <3>2 DEF Board!TypeOK
    <2>8. BoardCallbacks' /\ BoardCurrentIsThere'
      BY <2>3, <2>6 DEF BoardCallbacks, BoardCurrentIsThere
    <2>9. BoardListIsThere'
      BY <2>1, <2>3, <2>4, <2>6 DEF BoardListIsThere
    <2> QED
      BY <2>3, <2>4, <2>5, <2>7, <2>8, <2>9
  <1>6. ASSUME NEW how \in {"made", "failed"}, Board!CurrentArrives(how)
        PROVE  BoardInv'
    <2> DEFINE b == boardHere.budget
               cur == [boardCurrent EXCEPT ![b] = how]
               anew == FALSE
    <2>1. Board!Show(boardHere, boardPeriodId, boardView, anew, boardListed, cur)
          /\ boardListed' = boardListed /\ boardCurrent' = cur
      BY <1>6 DEF Board!CurrentArrives, Board!Refreshed
    <2>2. ~anew /\ (boardPeriodId # None => boardPeriodId[1] = boardHere.budget)
      BY DEF BoardOwn
    <2>3. /\ UNCHANGED <<boardEditing, boardStored, boardWritten, boardStale, boardPlanning,
                         boardDeleting, boardMoves>>
          /\ b \notin Custom
          /\ boardExists' = IF how =
               "made" THEN boardExists \cup {<<b, Board!Current>>} ELSE boardExists
      BY <1>6 DEF Board!CurrentArrives
    <2>4. /\ cur \in [Budgets -> {None, "made", "failed"}]
          /\ \A c \in Budgets : cur[c] = IF c = b THEN how ELSE boardCurrent[c]
      BY <1>1 DEF Board!TypeOK
    <2> HIDE DEF cur, anew
    <2>5. /\ boardHere' \in Board!Here /\ boardPeriodId' \in Board!Period \cup {None}
          /\ boardView' \in Codes \cup {None}
          /\ BoardOwn'
      BY <1>1, <2>1, <2>2, BoardRendered
    <2>6. boardExists' \subseteq Board!Period /\ boardExists \subseteq boardExists'
      BY <1>1, <2>3 DEF Board!TypeOK, Board!Period, Board!Past, Board!Current, Board!Future
    <2>7. Board!TypeOK'
      BY <2>1, <2>3, <2>4, <2>5, <2>6 DEF Board!TypeOK
    <2>8. BoardCurrentIsThere'
      BY <2>1, <2>3, <2>4 DEF BoardCurrentIsThere
    <2>9. BoardCallbacks' /\ BoardListIsThere'
      BY <2>1, <2>3, <2>6 DEF BoardCallbacks, BoardListIsThere
    <2> QED
      BY <2>1, <2>5, <2>7, <2>8, <2>9
  <1>7. ASSUME NEW p \in Board!Period, Board!selectPeriod(p) \/ Board!goToPeriod(p)
        PROVE  BoardInv'
    <2>1. p \in Board!all /\ Board!Select(boardHere.budget, p) /\ Board!Move
          /\ UNCHANGED <<boardEditing, boardStored, Board!server, Board!queries, boardPlanning,
                         boardDeleting>>
      BY <1>7 DEF Board!selectPeriod, Board!goToPeriod
    <2>2. /\ boardHere' \in Board!Here /\ boardPeriodId' \in Board!Period \cup {None}
          /\ boardView' \in Codes \cup {None}
          /\ BoardOwn'
      BY <1>1, <1>2, <2>1, BoardSelecting
    <2>3. boardMoves' \in 0..MaxMoves
      BY <2>1, BoardMoved
    <2> QED
      BY <1>3, <2>1, <2>2, <2>3 DEF Board!TypeOK
  <1>8. CASE Board!setEditingCell \/ Board!saveCell \/ Board!cancelCell
    <2>1. boardMoves' \in 0..MaxMoves
      BY <1>8, BoardMoved DEF Board!setEditingCell, Board!saveCell, Board!cancelCell
    <2>2. UNCHANGED <<boardHere, boardPeriodId, boardView, boardStored, boardExists, Board!queries,
                      boardPlanning, boardDeleting>>
      BY <1>8 DEF Board!setEditingCell, Board!saveCell, Board!cancelCell, Board!server
    <2>3. boardEditing' \in Board!Period \cup {None} /\ boardWritten' \subseteq Board!Period
      BY <1>8 DEF Board!TypeOK, Board!setEditingCell, Board!saveCell, Board!cancelCell, Board!server
    <2>4. Board!TypeOK' /\ BoardListing(boardListed') /\ BoardOwn'
      BY <2>1, <2>2, <2>3 DEF Board!TypeOK, BoardOwn, Board!queries
    <2>5. BoardCallbacks' /\ BoardCurrentIsThere' /\ BoardListIsThere'
      BY <2>2 DEF BoardCallbacks, BoardCurrentIsThere, BoardListIsThere,
        Board!queries
    <2> QED
      BY <2>4, <2>5
  <1>9. ASSUME NEW c \in Codes, Board!selectCurrency(c)
        PROVE  BoardInv'
    <2>1. boardMoves' \in 0..MaxMoves
      BY <1>9, BoardMoved DEF Board!selectCurrency
    <2>2. boardStored' \in [Budgets -> Codes \cup {None}]
      BY <1>9 DEF Board!TypeOK, Board!selectCurrency
    <2>3. BoardOwn'
      BY <1>9 DEF BoardOwn, Board!selectCurrency
    <2> QED
      BY <1>1, <1>3, <1>9, <2>1, <2>2, <2>3 DEF Board!selectCurrency
  \* What the page shows is left alone, and the lists; what is there only grows.
  <1>10. ASSUME UNCHANGED <<boardHere, Board!page, boardStored, boardWritten, boardListed, boardCurrent>>, boardMoves' \in 0..MaxMoves,
                boardStale \subseteq boardStale', boardStale' \subseteq Budgets,
                boardExists' \subseteq Board!Period,
                \A b \in Budgets : b \notin Custom => \A p \in boardExists : p[1] = b =>
                  p \in boardExists',
                boardPlanning' \in Board!Waiting \cup {None},
                boardDeleting' \in Board!Waiting \cup {None},
                BoardCallbacks', BoardListIsThere'
         PROVE  BoardInv'
    <2>1. Board!TypeOK'
      BY <1>10 DEF Board!TypeOK, Board!page
    <2>2. BoardListing(boardListed') /\ BoardOwn'
      BY <1>10 DEF BoardOwn, Board!page
    <2>3. BoardCurrentIsThere'
      BY <1>10 DEF BoardCurrentIsThere
    <2> QED
      BY <1>10, <2>1, <2>2, <2>3
  <1>11. None \notin Board!Period
    BY DEF Board!BudgetBoardAssumption
  <1>12. boardPlanning \in Board!Waiting \cup {None} /\ boardDeleting \in Board!Waiting \cup {None}
    BY DEF Board!TypeOK
  <1>13. Board!selectedPeriod # None =>
           boardPeriodId \in Board!all /\ Board!selectedPeriod = boardPeriodId
    BY DEF Board!selectedPeriod
  <1>14. CASE Board!planNext
    <2>1. boardPeriodId \in Board!all /\ boardPeriodId[2] < Board!Future /\ Board!Move
      BY <1>13, <1>14 DEF Board!planNext
    <2>2. boardPeriodId[2] + 1 \in {Board!Current, Board!Future}
      BY <1>2, <2>1 DEF Board!Period, Board!Past, Board!Current, Board!Future
    <2>3. <<boardHere.budget, boardPeriodId[2] + 1>> \in Board!Period
      BY <1>1, <2>2 DEF Board!Period
    <2>4. boardPlanning' =
            [budget |-> boardHere.budget, period |-> <<boardHere.budget, boardPeriodId[2] + 1>>, for |-> "answer"]
      BY <1>14 DEF Board!planNext
    <2>5. boardPlanning' \in Board!Waiting /\ boardPlanning'.period[1] = boardPlanning'.budget
      BY <1>1, <2>3, <2>4 DEF Board!Waiting
    <2>6. UNCHANGED <<boardHere, Board!page, boardStored, boardExists, boardWritten, boardListed,
                      boardStale, boardCurrent, boardDeleting>>
      BY <1>14 DEF Board!planNext, Board!server, Board!queries
    <2>7. BoardCallbacks' /\ BoardListIsThere'
      BY <2>5, <2>6 DEF BoardCallbacks, BoardListIsThere
    <2>8. boardMoves' \in 0..MaxMoves
      BY <2>1, BoardMoved
    <2> QED
      BY <1>10, <1>12, <2>5, <2>6, <2>7, <2>8 DEF Board!TypeOK
  <1>15. CASE Board!NextPlanned
    <2>1. /\ boardPlanning # None /\ boardPlanning \in Board!Waiting
          /\ boardExists' = boardExists \cup {boardPlanning.period}
          /\ boardStale' = boardStale \cup {boardPlanning.budget}
          /\ boardPlanning' = [boardPlanning EXCEPT !.for = Board!Awaited(boardPlanning.budget)]
          /\ UNCHANGED <<boardHere, Board!page, boardStored, boardWritten, boardListed,
                         boardCurrent, boardDeleting, boardMoves>>
      BY <1>12, <1>15 DEF Board!NextPlanned
    <2>2. boardPlanning.period \in Board!Period /\ boardPlanning.budget \in Budgets
      BY <2>1 DEF Board!Waiting
    <2>3. Board!Awaited(boardPlanning.budget) \in {"list", "nothing"}
      BY DEF Board!Awaited
    <2>4. boardPlanning' \in Board!Waiting /\ boardPlanning'.period = boardPlanning.period
          /\ boardPlanning'.budget = boardPlanning.budget
      BY <2>1, <2>3 DEF Board!Waiting
    <2>5. BoardCallbacks' /\ BoardListIsThere'
      BY <2>1, <2>4 DEF BoardCallbacks, BoardListIsThere
    <2> QED
      BY <1>10, <1>12, <2>1, <2>2, <2>4, <2>5 DEF Board!TypeOK
  <1>16. CASE Board!NextSelected
    <2>1. /\ boardPlanning # None /\ boardPlanning \in Board!Waiting /\ boardPlanning' = None
          /\ Board!Select(boardPlanning.budget, boardPlanning.period)
          /\ UNCHANGED <<boardEditing, boardStored, boardExists, boardWritten, boardListed,
                         boardStale, boardCurrent, boardDeleting, boardMoves>>
      BY <1>12, <1>16 DEF Board!NextSelected, Board!Resumes, Board!server, Board!queries
    <2>2. /\ boardPlanning.budget \in Budgets /\ boardPlanning.period \in Board!Period
          /\ boardPlanning.period[1] = boardPlanning.budget
      BY <2>1 DEF Board!Waiting, BoardCallbacks
    <2>3. /\ boardHere' \in Board!Here /\ boardPeriodId' \in Board!Period \cup {None}
          /\ boardView' \in Codes \cup {None}
          /\ BoardOwn'
      BY <2>1, <2>2, BoardSelecting
    <2>4. Board!TypeOK'
      BY <2>1, <2>3 DEF Board!TypeOK
    <2>5. BoardCallbacks' /\ BoardCurrentIsThere' /\ BoardListIsThere'
      BY <2>1 DEF BoardCallbacks, BoardCurrentIsThere, BoardListIsThere
    <2> QED
      BY <2>1, <2>3, <2>4, <2>5
  <1>17. CASE Board!PlanFails
    <2>1. boardPlanning' = None /\ UNCHANGED <<boardHere, Board!page, boardStored, boardExists,
                                               boardWritten, boardListed, boardStale, boardCurrent,
                                               boardDeleting, boardMoves>>
      BY <1>17 DEF Board!PlanFails, Board!server, Board!queries
    <2>2. BoardCallbacks' /\ BoardListIsThere'
      BY <2>1 DEF BoardCallbacks, BoardListIsThere
    <2> QED
      BY <1>10, <1>12, <2>1, <2>2 DEF Board!TypeOK
  <1>18. ASSUME NEW p \in Board!Period, Board!addPeriod(p)
         PROVE  BoardInv'
    <2>1. /\ Board!Move /\ p[1] = boardHere.budget
          /\ boardExists' = boardExists \cup {p} /\ boardStale' = boardStale \cup {p[1]}
          /\ UNCHANGED <<boardHere, Board!page, boardStored, boardWritten, boardListed,
                         boardCurrent, boardPlanning, boardDeleting>>
      BY <1>18 DEF Board!addPeriod
    <2>2. boardMoves' \in 0..MaxMoves
      BY <2>1, BoardMoved
    <2>3. BoardCallbacks' /\ BoardListIsThere'
      BY <2>1 DEF BoardCallbacks, BoardListIsThere
    <2> QED
      BY <1>1, <1>10, <1>12, <2>1, <2>2, <2>3 DEF Board!TypeOK
  <1>19. CASE Board!deletePeriod
    <2>1. /\ Board!Move /\ boardHere.budget \in Custom /\ Board!selectedPeriod \in boardExists
          /\ boardDeleting = None
          /\ boardExists' = boardExists \ {boardPeriodId}
          /\ boardDeleting' = [budget |-> boardHere.budget, period |-> boardPeriodId, for |-> "answer"]
          /\ UNCHANGED <<boardHere, Board!page, boardStored, boardWritten, boardListed, boardStale,
                         boardCurrent, boardPlanning>>
      BY <1>19 DEF Board!deletePeriod, Board!canManagePeriods, Board!queries
    <2>2. boardPeriodId \in Board!all
      BY <1>11, <1>13, <2>1 DEF Board!TypeOK
    <2>3. boardPeriodId \in Board!Period /\ boardPeriodId[1] = boardHere.budget
      BY <1>2, <2>2
    <2>4. /\ boardDeleting' \in Board!Waiting /\ boardDeleting'.period[1] = boardDeleting'.budget
          /\ boardDeleting'.for = "answer"
      BY <1>1, <2>1, <2>3 DEF Board!Waiting
    <2>5. boardMoves' \in 0..MaxMoves
      BY <2>1, BoardMoved
    <2>6. BoardCallbacks'
      BY <2>1, <2>4 DEF BoardCallbacks
    <2>7. BoardListIsThere'
      BY <2>4 DEF BoardListIsThere
    <2>8. \A b \in Budgets : b \notin Custom => \A p \in boardExists : p[1] = b => p \in boardExists'
      BY <2>1, <2>3
    <2> QED
      BY <1>10, <1>12, <2>1, <2>4, <2>5, <2>6, <2>7, <2>8 DEF Board!TypeOK
  <1>20. CASE Board!PeriodDeleted
    <2>1. /\ boardDeleting # None /\ boardDeleting \in Board!Waiting /\ boardDeleting.for = "answer"
          /\ boardStale' = boardStale \cup {boardDeleting.budget}
          /\ boardDeleting' = IF boardPeriodId = boardDeleting.period
                         THEN [boardDeleting EXCEPT !.for = Board!Awaited(boardDeleting.budget)] ELSE None
          /\ UNCHANGED <<boardHere, Board!page, boardStored, boardExists, boardWritten, boardListed,
                         boardCurrent, boardPlanning, boardMoves>>
      BY <1>12, <1>20 DEF Board!PeriodDeleted, Board!server
    <2>2. /\ boardDeleting.period \in Board!Period /\ boardDeleting.budget \in Budgets
          /\ boardDeleting.period[1] = boardDeleting.budget
      BY <2>1 DEF Board!Waiting, BoardCallbacks
    <2>3. CASE boardPeriodId = boardDeleting.period
      <3>1. Board!Awaited(boardDeleting.budget) = "list"
        BY <1>11, <2>2, <2>3 DEF BoardOwn, Board!Awaited
      <3>2. boardDeleting' \in Board!Waiting /\ boardDeleting'.period[1] = boardDeleting'.budget
            /\ boardDeleting'.for = "list"
        BY <2>1, <2>2, <2>3, <3>1 DEF Board!Waiting
      <3>3. BoardCallbacks' /\ BoardListIsThere'
        BY <2>1, <3>2 DEF BoardCallbacks, BoardListIsThere
      <3> QED
        BY <1>10, <1>12, <2>1, <2>2, <3>2, <3>3 DEF Board!TypeOK
    <2>4. CASE boardPeriodId # boardDeleting.period
      <3>1. BoardCallbacks' /\ BoardListIsThere'
        BY <2>1, <2>4 DEF BoardCallbacks, BoardListIsThere
      <3> QED
        BY <1>10, <1>12, <2>1, <2>2, <2>4, <3>1 DEF Board!TypeOK
    <2> QED
      BY <2>3, <2>4
  <1>21. CASE Board!SelectionCleared
    <2> DEFINE u == [boardHere EXCEPT !.budget = boardDeleting.budget, !.period = None]
               anew == boardDeleting.budget # boardHere.budget
               none == None
    <2>1. /\ boardDeleting # None /\ boardDeleting \in Board!Waiting /\ boardDeleting' = None
          /\ Board!Show(u, none, boardView, anew, boardListed, boardCurrent)
          /\ UNCHANGED <<boardEditing, boardStored, boardExists, boardWritten, boardListed,
                         boardStale, boardCurrent, boardPlanning, boardMoves>>
      BY <1>12, <1>21 DEF Board!SelectionCleared, Board!Resumes, Board!server, Board!queries
    <2>2. u \in Board!Here /\ u.period = None /\ none = None
      BY <1>1, <2>1 DEF Board!Waiting, Board!Here
    <2> HIDE DEF u, anew, none
    <2>3. /\ boardHere' \in Board!Here /\ boardPeriodId' \in Board!Period \cup {None}
          /\ boardView' \in Codes \cup {None}
          /\ BoardOwn'
      BY <1>1, <2>1, <2>2, BoardRendered
    <2>4. Board!TypeOK'
      BY <2>1, <2>3 DEF Board!TypeOK
    <2>5. BoardCallbacks' /\ BoardCurrentIsThere'
      BY <2>1 DEF BoardCallbacks, BoardCurrentIsThere
    <2>6. BoardListIsThere'
      BY <2>1 DEF BoardListIsThere
    <2> QED
      BY <2>1, <2>3, <2>4, <2>5, <2>6
  <1>22. CASE UNCHANGED Board!vars
    <2>1. Board!TypeOK' /\ BoardListing(boardListed') /\ BoardOwn'
      BY <1>22 DEF Board!TypeOK, BoardOwn, Board!vars, Board!server, Board!queries, Board!page
    <2>2. BoardCallbacks' /\ BoardCurrentIsThere' /\ BoardListIsThere'
      BY <1>22 DEF BoardCallbacks, BoardCurrentIsThere, BoardListIsThere,
        Board!vars, Board!server, Board!queries
    <2> QED
      BY <2>1, <2>2
  <1>23. ASSUME NEW b \in Budgets, Board!PeriodsFail(b)
         PROVE  BoardInv'
    <2> DEFINE lst == IF boardListed[b] = None THEN boardListed
                      ELSE [boardListed EXCEPT ![b].success = FALSE]
               anew == FALSE
    <2>1. /\ Board!Show(boardHere, boardPeriodId, boardView, anew, lst, boardCurrent)
          /\ boardListed' = lst /\ boardCurrent' = boardCurrent
          /\ boardPlanning' = Board!AwaitFailed(boardPlanning, b)
          /\ boardDeleting' = Board!AwaitFailed(boardDeleting, b)
          /\ UNCHANGED <<boardEditing, boardStored, boardExists, boardWritten, boardStale, boardMoves>>
      BY <1>23 DEF Board!PeriodsFail, Board!Refreshed, Board!server
    <2>2. BoardListing(lst) /\ \A c \in Budgets :
            /\ lst[c] \in Board!Listing \cup {None}
            /\ lst[c] # None => boardListed[c] # None /\ lst[c].periods = boardListed[c].periods
      <3>1. CASE boardListed[b] = None
        BY <3>1 DEF BoardListing
      <3>2. CASE boardListed[b] # None
        <4> DEFINE one == [boardListed[b] EXCEPT !.success = FALSE]
        <4>1. boardListed[b] \in Board!Listing
              /\ \A q \in boardListed[b].periods : q \in Board!Period /\ q[1] = b
          BY <3>2 DEF BoardListing
        <4>2. one \in Board!Listing /\ one.periods = boardListed[b].periods
          BY <4>1 DEF Board!Listing
        <4>3. lst = [boardListed EXCEPT ![b] = one]
          BY <3>2
        <4> HIDE DEF one, lst
        <4>4. /\ BoardListing([boardListed EXCEPT ![b] = one])
              /\ \A c \in Budgets :
                   /\ [boardListed EXCEPT ![b] = one][c] = IF c = b THEN one ELSE boardListed[c]
                   /\ [boardListed EXCEPT ![b] = one][c] \in Board!Listing \cup {None}
          BY <4>1, <4>2, BoardRelisted
        <4> QED
          BY <3>2, <4>2, <4>3, <4>4
      <3> QED
        BY <3>1, <3>2
    <2>3. ~anew /\ (boardPeriodId # None => boardPeriodId[1] = boardHere.budget)
      BY DEF BoardOwn
    <2> HIDE DEF lst, anew
    <2>4. /\ boardHere' \in Board!Here /\ boardPeriodId' \in Board!Period \cup {None}
          /\ boardView' \in Codes \cup {None}
          /\ BoardOwn'
      BY <1>1, <2>1, <2>2, <2>3, BoardRendered
    <2>5. None \notin Board!Waiting
      BY DEF Board!BudgetBoardAssumption
    <2>6. boardPlanning' \in Board!Waiting \cup {None} /\ boardDeleting' \in Board!Waiting \cup {None}
      BY <1>12, <2>1, <2>5, BoardAwaitEnds
    <2>7. Board!TypeOK'
      BY <2>1, <2>2, <2>4, <2>6 DEF Board!TypeOK
    <2>8. BoardCallbacks'
      BY <1>12, <2>1, <2>5, BoardAwaitEnds DEF BoardCallbacks
    <2>9. BoardCurrentIsThere'
      BY <2>1 DEF BoardCurrentIsThere
    <2>10. BoardListIsThere'
      BY <1>12, <2>1, <2>2, <2>5, BoardAwaitEnds DEF BoardListIsThere
    <2> QED
      BY <2>1, <2>2, <2>4, <2>7, <2>8, <2>9, <2>10
  <1>24. CASE Board!DeleteFails
    <2>1. boardDeleting' = None /\ UNCHANGED <<boardHere, Board!page, boardStored, boardExists,
                                               boardWritten, boardListed, boardStale, boardCurrent,
                                               boardPlanning, boardMoves>>
      BY <1>24 DEF Board!DeleteFails, Board!server, Board!queries
    <2>2. BoardCallbacks' /\ BoardListIsThere'
      BY <2>1 DEF BoardCallbacks, BoardListIsThere
    <2> QED
      BY <1>10, <1>12, <2>1, <2>2 DEF Board!TypeOK
  <1> QED
    BY <1>4, <1>5, <1>6, <1>7, <1>8, <1>9, <1>14, <1>15, <1>16, <1>17, <1>18, <1>19,
       <1>20, <1>21, <1>22, <1>23, <1>24 DEF Board!Next

\* A deletion that is followed waits for the list: what is picked from it is there.
LEMMA BoardPickedIsThere ==
  ASSUME Board!BudgetBoardAssumption, BoardInv, Board!Next \/ UNCHANGED Board!vars
  PROVE  Board!NeverPicksDeleted
  <1> SUFFICES ASSUME boardDeleting # None, boardDeleting.for \notin {"answer", "failed"},
                      boardDeleting' = None
               PROVE  boardPeriodId' \in boardExists' \cup {None}
    BY DEF Board!NeverPicksDeleted
  <1>1. CASE Board!SelectionCleared
    <2> DEFINE b == boardDeleting.budget
               u == [boardHere EXCEPT !.budget = b, !.period = None]
               anew == b # boardHere.budget
               none == None
    <2>1. boardDeleting \in Board!Waiting /\ b \in Budgets /\ u \in Board!Here /\ u.period = None
          /\ u.budget = b
      BY DEF BoardInv, Board!TypeOK, Board!Waiting, Board!Here
    <2>2. Board!Show(u, none, boardView, anew, boardListed, boardCurrent)
          /\ boardExists' = boardExists
      BY <1>1 DEF Board!SelectionCleared, Board!server
    <2>3. b \notin boardStale
      BY <1>1 DEF Board!SelectionCleared, Board!Resumes, BoardInv, BoardCallbacks
    <2>4. boardDeleting.for = "list"
      BY <2>1, <1>1 DEF Board!Waiting, BoardInv, BoardCallbacks
    <2>5. Board!allPeriods(b, boardListed, boardCurrent) \subseteq boardExists
      BY <2>1, <2>3, <2>4 DEF BoardInv, BoardListIsThere, BoardCurrentIsThere, Board!allPeriods
    <2>6. none = None
      OBVIOUS
    <2> HIDE DEF u, anew, none
    <2>7. \/ boardPeriodId' \in {None} \cup Board!allPeriods(u.budget, boardListed, boardCurrent)
          \/ ~anew /\ boardPeriodId' = none
          \/ anew /\ u.period # None /\ boardPeriodId' = u.period
      BY <2>1, <2>2, BoardSelected DEF BoardInv
    <2> QED
      BY <2>1, <2>2, <2>5, <2>6, <2>7
  <1>2. CASE Board!PeriodDeleted \/ Board!deletePeriod \/ Board!DeleteFails
    BY <1>2 DEF Board!PeriodDeleted, Board!deletePeriod, Board!DeleteFails
  <1>3. CASE (\E u \in Board!Links : Board!open(u) \/ Board!navigate(u))
          \/ (\E b \in Budgets : Board!PeriodsArrive(b))
    BY <1>3 DEF Board!open, Board!navigate, Board!PeriodsArrive
  <1>8. ASSUME NEW b \in Budgets, Board!PeriodsFail(b)
        PROVE  FALSE
    <2>1. boardDeleting' = Board!AwaitFailed(boardDeleting, b)
      BY <1>8 DEF Board!PeriodsFail
    <2>2. boardDeleting \in Board!Waiting \cup {None} /\ None \notin Board!Waiting
      BY DEF BoardInv, Board!TypeOK, Board!BudgetBoardAssumption
    <2> QED
      BY <2>1, <2>2, BoardAwaitEnds
  <1>4. CASE \E p \in Board!Period : Board!selectPeriod(p) \/ Board!goToPeriod(p) \/ Board!addPeriod(p)
    BY <1>4 DEF Board!selectPeriod, Board!goToPeriod, Board!addPeriod
  <1>5. CASE Board!planNext \/ Board!NextPlanned \/ Board!NextSelected \/ Board!PlanFails
    BY <1>5 DEF Board!planNext, Board!NextPlanned, Board!NextSelected, Board!PlanFails
  <1>6. CASE Board!setEditingCell \/ Board!saveCell \/ Board!cancelCell
          \/ (\E c \in Codes : Board!selectCurrency(c))
    BY <1>6 DEF Board!setEditingCell, Board!saveCell, Board!cancelCell, Board!selectCurrency
  <1>7. CASE (\E how \in {"made", "failed"} : Board!CurrentArrives(how)) \/ UNCHANGED Board!vars
    BY <1>7 DEF Board!CurrentArrives, Board!vars
  <1> QED
    BY <1>1, <1>2, <1>3, <1>4, <1>5, <1>6, <1>7, <1>8 DEF Board!Next

\* A step while this page is followed is a step of the page, or leaves it alone.
LEMMA BoardFrame ==
  ASSUME page = "budget", Next \/ UNCHANGED vars
  PROVE  page' = "budget" /\ (Board!Next \/ UNCHANGED Board!vars)
  BY DEF Next, vars, EntryNext, ItemsNext, BoardNext, RowsNext, TransfersNext,
    MembersNext, FormNext, ListsNext, PanelNext, MarksNext, DefaultsNext, boardVars,
    Board!vars, Board!page, Board!server, Board!queries

-----------------------------------------------------------------------------
(***************************************************************************)
(* The list pages (ListPages).                                             *)
(***************************************************************************)

(* Values.                                                                 *)

ListsAbsent(S) == S \cup {None}

\* A patch changes the parameters it names.
LEMMA ListsUpdate ==
  ASSUME Lists!ListPagesAssumption, NEW u \in Lists!Params, NEW patch,
         "search" \in DOMAIN patch => patch["search"] \in ListsAbsent(Lists!Text),
         "amount" \in DOMAIN patch => patch["amount"] \in ListsAbsent(Lists!Text),
         "range" \in DOMAIN patch => patch["range"] \in {None, "month", "custom"},
         "view" \in DOMAIN patch => patch["view"] \in BOOLEAN,
         "page" \in DOMAIN patch => patch["page"] \in 1..MaxPages
  PROVE  /\ Lists!updateParams(u, patch) \in Lists!Params
         /\ Lists!updateParams(u, patch).search =
              IF "search" \in DOMAIN patch THEN patch["search"] ELSE u.search
         /\ Lists!updateParams(u, patch).amount =
              IF "amount" \in DOMAIN patch THEN patch["amount"] ELSE u.amount
         /\ Lists!updateParams(u, patch).range =
              IF "range" \in DOMAIN patch THEN patch["range"] ELSE u.range
         /\ Lists!updateParams(u, patch).view =
              IF "view" \in DOMAIN patch THEN patch["view"] ELSE u.view
  <1> DEFINE K == {"search", "amount", "range", "view", "page"}
             new(x) == IF x \in DOMAIN patch THEN patch[x] ELSE IF x = "page" THEN 1 ELSE u[x]
             w == Lists!updateParams(u, patch)
  <1>1. DOMAIN u = K
    BY DEF Lists!Params
  <1>2. w = [x \in K |-> new(x)]
    BY <1>1 DEF Lists!updateParams
  <1>3. /\ u.search \in ListsAbsent(Lists!Text) /\ u.amount \in ListsAbsent(Lists!Text)
        /\ u.range \in {None, "month", "custom"} /\ u.view \in BOOLEAN
    BY DEF Lists!Params, ListsAbsent
  <1>4. 1 \in 1..MaxPages
    BY DEF Lists!ListPagesAssumption
  <1>5. /\ new("search") \in ListsAbsent(Lists!Text) /\ new("amount") \in ListsAbsent(Lists!Text)
        /\ new("range") \in {None, "month", "custom"} /\ new("view") \in BOOLEAN
        /\ new("page") \in 1..MaxPages
    BY <1>3, <1>4
  <1> HIDE DEF new
  <1>6. w = [search |-> new("search"), amount |-> new("amount"), range |-> new("range"),
             view |-> new("view"), page |-> new("page")]
    BY <1>2
  <1>7. w \in Lists!Params
    BY <1>5, <1>6 DEF Lists!Params, ListsAbsent
  <1> QED
    BY <1>6, <1>7 DEF new, w

\* A field's value is a text of the URL, or the one that was restored.
LEMMA ListsValues ==
  ASSUME NEW f \in Lists!Field, NEW u \in Lists!Params, NEW r \in ListsAbsent(Lists!Text)
  PROVE  Lists!value(f, u, r) \in ListsAbsent(Lists!Text)
  BY DEF Lists!Params, ListsAbsent, Lists!value

\* A field that was just seeded shows what is committed.
LEMMA ListsSeededDraft ==
  ASSUME NEW v \in ListsAbsent(Lists!Text)
  PROVE  /\ Lists!Seeded(v) \in Lists!Draft /\ Lists!Seeded(v).on /\ Lists!Seeded(v).draft = v
         /\ Lists!Seeded(v).draft = Lists!Seeded(v).committed
  BY DEF Lists!Seeded, Lists!Draft, ListsAbsent

\* A draft that differs from what was committed last waits for its timer.
ListsKept(x) == x \in Lists!Draft /\ (x.on => x.draft = x.committed \/ x.timer) /\ (x.timer => x.on)

\* A field that is not shown.
LEMMA ListsOffKept == ListsKept(Lists!Off) /\ ~Lists!Off.on
  BY DEF ListsKept, Lists!Off, Lists!Draft

\* What a field adopts, it shows, unless it has it committed.
LEMMA ListsAdopted ==
  ASSUME NEW x, ListsKept(x), x.on, NEW old, NEW v \in ListsAbsent(Lists!Text)
  PROVE  /\ ListsKept(Lists!Adopt(x, old, v)) /\ Lists!Adopt(x, old, v).on
         /\ v # old => Lists!Adopt(x, old, v).draft = v \/ Lists!Adopt(x, old, v).timer
  <1> DEFINE t == x.timer /\ x.draft = v
             y == [Lists!Seeded(v) EXCEPT !.timer = t]
  <1>1. t \in BOOLEAN
    BY Zenon
  <1> HIDE DEF t
  <1>2. Lists!Seeded(v) \in Lists!Draft /\ Lists!Seeded(v).on /\ Lists!Seeded(v).draft = v
        /\ Lists!Seeded(v).committed = v
    BY DEF Lists!Seeded, Lists!Draft, ListsAbsent
  <1>3. y \in Lists!Draft /\ y.on /\ y.draft = v /\ y.committed = v
    <2> HIDE DEF Lists!Seeded
    <2> QED
      BY <1>1, <1>2 DEF Lists!Draft
  <1>4. ListsKept(y)
    BY <1>3 DEF ListsKept
  <1>5. Lists!Adopt(x, old, v) = IF v \notin {old, x.committed} THEN y ELSE x
    BY DEF Lists!Adopt, t
  <1> HIDE DEF y
  <1> QED
    BY <1>3, <1>4, <1>5 DEF ListsKept

\* A field that is shown follows its value or has a timer that runs.
LEMMA ListsFollowed ==
  ASSUME NEW u0 \in Lists!Params, NEW r0 \in ListsAbsent(Lists!Text), NEW u \in Lists!Params,
         NEW r \in ListsAbsent(Lists!Text),
         NEW l, NEW o, \A f \in Lists!Field : ListsKept(listsField[f])
  PROVE  LET new == Lists!Follow(u0, r0, u, r, l, o)
         IN /\ new \in [Lists!Field -> Lists!Draft]
            /\ \A f \in Lists!Field :
                 /\ ListsKept(new[f])
                 /\ listsField[f].on /\ new[f].on /\ Lists!value(f, u, r) # Lists!value(f, u0, r0)
                      => new[f].draft = Lists!value(f, u, r) \/ new[f].timer
  <1> DEFINE is(f) ==
               IF ~Lists!Mounted(f, u, l, o) THEN Lists!Off
               ELSE IF ~listsField[f].on THEN Lists!Seeded(Lists!value(f, u, r))
               ELSE Lists!Adopt(listsField[f], Lists!value(f, u0, r0), Lists!value(f, u, r))
  <1>1. Lists!Follow(u0, r0, u, r, l, o) = [f \in Lists!Field |-> is(f)]
    BY DEF Lists!Follow
  <1>2. ASSUME NEW f \in Lists!Field
        PROVE  /\ ListsKept(is(f))
               /\ listsField[f].on /\ is(f).on /\ Lists!value(f, u, r) # Lists!value(f, u0, r0)
                    => is(f).draft = Lists!value(f, u, r) \/ is(f).timer
    <2>1. Lists!value(f, u, r) \in ListsAbsent(Lists!Text)
          /\ Lists!value(f, u0, r0) \in ListsAbsent(Lists!Text)
      BY ListsValues
    <2>2. CASE ~Lists!Mounted(f, u, l, o)
      BY <2>2, ListsOffKept
    <2>3. CASE Lists!Mounted(f, u, l, o) /\ ~listsField[f].on
      <3>1. is(f) = Lists!Seeded(Lists!value(f, u, r))
        BY <2>3
      <3> HIDE DEF is
      <3> QED
        BY <2>1, <2>3, <3>1, ListsSeededDraft DEF ListsKept
    <2>4. CASE Lists!Mounted(f, u, l, o) /\ listsField[f].on
      <3>1. is(f) = Lists!Adopt(listsField[f], Lists!value(f, u0, r0), Lists!value(f, u, r))
        BY <2>4
      <3> HIDE DEF is
      <3> QED
        BY <2>1, <2>4, <3>1, ListsAdopted
    <2> QED
      BY <2>2, <2>3, <2>4
  <1> HIDE DEF is
  <1> QED
    BY <1>1, <1>2 DEF ListsKept

\* The URL after the effects of a render is one.
LEMMA ListsEffectsTypes ==
  ASSUME Lists!ListPagesAssumption, NEW cur \in Lists!Params, NEW p \in BOOLEAN,
         NEW u \in Lists!Params,
         NEW l \in Lists!DefaultsLatch, NEW n \in 0..MaxPages, Lists!Effects(cur, p, u, l, n)
  PROVE  listsUrl' \in Lists!Params /\ listsPending' \in BOOLEAN
  <1>1. listsPending' \in BOOLEAN
    BY Zenon DEF Lists!Effects
  <1>2. Lists!updateParams(u, [page |-> 1]) \in Lists!Params
    <2> DEFINE patch == [page |-> 1]
    <2>1. DOMAIN patch = {"page"} /\ patch["page"] = 1 /\ 1 \in 1..MaxPages
      BY DEF Lists!ListPagesAssumption
    <2> HIDE DEF patch
    <2>2. Lists!updateParams(u, patch) \in Lists!Params
      BY <2>1, ListsUpdate
    <2> QED
      BY <2>2 DEF patch
  <1>3. Lists!Materialize(u, l) \in Lists!Params
    <2> DEFINE range == IF l.range # None THEN l.range ELSE u.range
               view == l.view \/ u.view
               patch == [range |-> range, view |-> view]
    <2>1. view \in BOOLEAN
      BY Zenon
    <2>2. range \in {None, "month", "custom"}
      BY DEF Lists!Params, Lists!DefaultsLatch
    <2> HIDE DEF range, view
    <2>3. DOMAIN patch = {"range", "view"} /\ patch["range"] = range /\ patch["view"] = view
      OBVIOUS
    <2> HIDE DEF patch
    <2>4. Lists!updateParams(u, patch) \in Lists!Params
      BY <2>1, <2>2, <2>3, ListsUpdate
    <2> QED
      BY <2>4 DEF Lists!Materialize, patch, range, view
  <1> QED
    BY <1>1, <1>2, <1>3 DEF Lists!Effects

-----------------------------------------------------------------------------
(* The inductive invariant.                                                *)

\* A page that is not open has no fields.
ListsNoFields == listsGate # "open" => \A f \in Lists!Field : ~listsField[f].on

\* What the URL has had is not left to be defaulted.
ListsLatchSpent ==
  listsGate = "open" =>
    (listsSeen.range # None => listsLatch.range = None) /\ (listsSeen.view => ~listsLatch.view)

\* The clicks are some of what the user did.
ListsFewClicks == listsClicks.asked <= listsEdits /\ listsClicks.consumed <= listsEdits

ListsInv == Lists!TypeOK /\ (\A f \in Lists!Field : ListsKept(listsField[f])) /\ ListsNoFields
  /\ ListsLatchSpent /\ ListsFewClicks

\* The page that mounts.
LEMMA ListsMounts ==
  ASSUME Lists!ListPagesAssumption, ListsInv, NEW s \in Lists!PageSettings, NEW u \in Lists!Params,
         Lists!Mount(s, u)
  PROVE  /\ listsGate' = "open" /\ listsUrl' \in Lists!Params /\ listsPending' \in BOOLEAN
         /\ listsSeen' \in Lists!Params
         /\ listsLatch' \in Lists!DefaultsLatch /\ listsRestored' \in ListsAbsent(Lists!Text)
         /\ listsField' \in [Lists!Field -> Lists!Draft] /\ listsFiltersOpen' = FALSE
         /\ listsPages' = 0 /\ listsFormOpen' = FALSE
         /\ (\A f \in Lists!Field : ListsKept(listsField'[f])) /\ ListsLatchSpent'
  <1> DEFINE l == Lists!buildDefaultsLatch(s, u)
             r == IF listsKind # "transfers" /\ u.search = None THEN listsStored ELSE None
             is(f) == IF Lists!Mounted(f, u, l, FALSE) THEN Lists!Seeded(Lists!value(f, u, r)) ELSE Lists!Off
             no == FALSE
             zero == 0
  <1>1. /\ listsGate' = "open" /\ listsSeen' = u /\ listsLatch' = l /\ listsRestored' = r
        /\ listsField' = [f \in Lists!Field |-> is(f)]
        /\ listsFiltersOpen' = FALSE /\ listsPages' = 0 /\ listsFormOpen' = FALSE
        /\ Lists!Effects(u, no, u, l, zero)
    BY DEF Lists!Mount
  <1>2. r \in ListsAbsent(Lists!Text)
    BY DEF ListsInv, Lists!TypeOK, ListsAbsent
  <1>3. /\ l \in Lists!DefaultsLatch
        /\ u.range # None => l.range = None
        /\ u.view => ~l.view
    <2> DEFINE view == listsKind # "transfers" /\ s.view /\ ~u.view
    <2>1. view \in BOOLEAN /\ (u.view => ~view)
      BY Zenon
    <2>2. Lists!rangeLatch(s, u) \in {None, "month"}
          /\ (u.range # None => Lists!rangeLatch(s, u) = None)
      BY DEF Lists!rangeLatch, Lists!builtinRange, Lists!PageSettings
    <2>3. l = [range |-> Lists!rangeLatch(s, u), view |-> view]
      BY DEF Lists!buildDefaultsLatch
    <2> HIDE DEF view, l
    <2> QED
      BY <2>1, <2>2, <2>3 DEF Lists!DefaultsLatch
  <1>4. no \in BOOLEAN /\ zero \in 0..MaxPages
    BY DEF Lists!ListPagesAssumption
  <1> HIDE DEF l, r, no, zero
  <1>5. listsUrl' \in Lists!Params /\ listsPending' \in BOOLEAN
    BY <1>1, <1>3, <1>4, ListsEffectsTypes
  <1>6. \A f \in Lists!Field : ListsKept(is(f))
    <2> TAKE f \in Lists!Field
    <2>1. Lists!value(f, u, r) \in ListsAbsent(Lists!Text)
      BY <1>2, ListsValues
    <2>2. ListsKept(Lists!Seeded(Lists!value(f, u, r))) /\ ListsKept(Lists!Off)
      BY <2>1, ListsSeededDraft, ListsOffKept DEF ListsKept
    <2> QED
      BY <2>2
  <1> HIDE DEF is
  <1>7. listsField' \in [Lists!Field -> Lists!Draft]
        /\ \A f \in Lists!Field : ListsKept(listsField'[f])
    BY <1>1, <1>6 DEF ListsKept
  <1>8. ListsLatchSpent'
    BY <1>1, <1>3 DEF ListsLatchSpent
  <1> QED
    BY <1>1, <1>2, <1>3, <1>5, <1>7, <1>8

\* The content is left alone, but for what fits its types.
LEMMA ListsContentKept ==
  ASSUME ListsInv, UNCHANGED <<listsKind, listsGate, listsField, listsLatch>>,
         listsSaved' \in Lists!PageSettings, listsSettings' \in Lists!PageSettings \cup {None},
         listsUrl' \in Lists!Params, listsPending' \in BOOLEAN,
         listsStored' \in ListsAbsent(Lists!Text),
         listsSeen' = listsSeen, listsRestored' = listsRestored, listsFiltersOpen' \in BOOLEAN,
         listsPages' \in 0..MaxPages,
         listsClicks' \in Lists!ClickCount, listsFormOpen' \in BOOLEAN,
         listsEdits' \in 0..MaxEdits, ListsFewClicks'
  PROVE  ListsInv'
  <1>1. Lists!TypeOK'
    BY DEF ListsInv, Lists!TypeOK, ListsAbsent
  <1> QED
    BY <1>1 DEF ListsInv, ListsKept, ListsNoFields, ListsLatchSpent

\* The user's part is counted.
LEMMA ListsCounted ==
  ASSUME Lists!ListPagesAssumption, ListsInv, Lists!Did
  PROVE  listsEdits' \in 0..MaxEdits /\ listsEdits' = listsEdits + 1
         /\ (UNCHANGED listsClicks => ListsFewClicks')
  BY DEF Lists!ListPagesAssumption, ListsInv, Lists!TypeOK, Lists!ClickCount, ListsFewClicks,
    Lists!Did

\* A patch of the parameters keeps the invariant of the lists.
LEMMA ListsPatched ==
  ASSUME Lists!ListPagesAssumption, ListsInv, NEW patch, Lists!Patch(patch),
         "search" \in DOMAIN patch => patch["search"] \in ListsAbsent(Lists!Text),
         "amount" \in DOMAIN patch => patch["amount"] \in ListsAbsent(Lists!Text),
         "range" \in DOMAIN patch => patch["range"] \in {None, "month", "custom"},
         "view" \in DOMAIN patch => patch["view"] \in BOOLEAN,
         "page" \in DOMAIN patch => patch["page"] \in 1..MaxPages
  PROVE  ListsInv'
  <1>1. listsSeen \in Lists!Params
    BY DEF ListsInv, Lists!TypeOK
  <1>2. listsUrl' \in Lists!Params
    BY <1>1, ListsUpdate DEF Lists!Patch
  <1>3. listsEdits' \in 0..MaxEdits /\ ListsFewClicks'
    BY ListsCounted DEF Lists!Patch
  <1> QED
    BY <1>2, <1>3, ListsContentKept DEF Lists!Patch, Lists!content, ListsInv, Lists!TypeOK,
      ListsAbsent

\* The patches of the controls.
LEMMA ListsControls ==
  ASSUME Lists!ListPagesAssumption, ListsInv
  PROVE  /\ \A r \in {None, "month", "custom"} : Lists!Patch([range |-> r]) => ListsInv'
         /\ \A v \in BOOLEAN : Lists!Patch([view |-> v]) => ListsInv'
         /\ \A p \in 1..MaxPages : Lists!Patch([page |-> p]) => ListsInv'
         /\ Lists!clearFilters => ListsInv'
  <1>1. ASSUME NEW r \in {None, "month", "custom"}, Lists!Patch([range |-> r])
        PROVE  ListsInv'
    <2> DEFINE patch == [range |-> r]
    <2>1. DOMAIN patch = {"range"} /\ patch["range"] = r /\ Lists!Patch(patch)
      BY <1>1
    <2> HIDE DEF patch
    <2> QED
      BY <2>1, ListsPatched
  <1>2. ASSUME NEW v \in BOOLEAN, Lists!Patch([view |-> v])
        PROVE  ListsInv'
    <2> DEFINE patch == [view |-> v]
    <2>1. DOMAIN patch = {"view"} /\ patch["view"] = v /\ Lists!Patch(patch)
      BY <1>2
    <2> HIDE DEF patch
    <2> QED
      BY <2>1, ListsPatched
  <1>3. ASSUME NEW p \in 1..MaxPages, Lists!Patch([page |-> p])
        PROVE  ListsInv'
    <2> DEFINE patch == [page |-> p]
    <2>1. DOMAIN patch = {"page"} /\ patch["page"] = p /\ Lists!Patch(patch)
      BY <1>3
    <2> HIDE DEF patch
    <2> QED
      BY <2>1, ListsPatched
  <1>4. ASSUME Lists!clearFilters
        PROVE  ListsInv'
    <2> DEFINE v == listsKind = "planned" /\ listsSeen.view
               patch == [amount |-> None, range |-> None, view |-> v]
    <2>1. v \in BOOLEAN
      BY Zenon
    <2>2. Lists!Patch(patch)
      BY <1>4 DEF Lists!clearFilters
    <2> HIDE DEF v
    <2>3. /\ DOMAIN patch = {"amount", "range", "view"}
          /\ patch["amount"] = None /\ patch["range"] = None /\ patch["view"] = v
      OBVIOUS
    <2> HIDE DEF patch
    <2>4. None \in ListsAbsent(Lists!Text)
      BY DEF ListsAbsent
    <2> QED
      BY <2>1, <2>2, <2>3, <2>4, ListsPatched
  <1> QED
    BY <1>1, <1>2, <1>3, <1>4

\* The invariant of the lists holds as a page is entered.
LEMMA ListsInitInv ==
  ASSUME Lists!ListPagesAssumption, Lists!Init
  PROVE  ListsInv
  <1>1. Lists!NoParams \in Lists!Params
    BY DEF Lists!NoParams, Lists!Params, Lists!ListPagesAssumption
  <1>2. Lists!Spent \in Lists!DefaultsLatch
    BY DEF Lists!Spent, Lists!DefaultsLatch
  <1>3. listsField = [f \in Lists!Field |-> Lists!Off]
    BY DEF Lists!Init
  <1>4. /\ listsField \in [Lists!Field -> Lists!Draft]
        /\ \A f \in Lists!Field : ListsKept(listsField[f]) /\ ~listsField[f].on
    BY <1>3, ListsOffKept DEF ListsKept
  <1>5. listsClicks \in Lists!ClickCount /\ listsEdits \in 0..MaxEdits /\ ListsFewClicks
    BY DEF Lists!Init, Lists!ClickCount, Lists!ListPagesAssumption, ListsFewClicks
  <1>6. listsPages \in 0..MaxPages /\ listsStored \in Lists!Text \cup {None}
    BY DEF Lists!Init, Lists!ListPagesAssumption, Lists!Text
  <1>7. Lists!TypeOK
    BY <1>1, <1>2, <1>4, <1>5, <1>6 DEF Lists!Init, Lists!TypeOK
  <1>8. ListsNoFields /\ ListsLatchSpent
    BY <1>4 DEF Lists!Init, ListsNoFields, ListsLatchSpent
  <1> QED
    BY <1>4, <1>5, <1>7, <1>8 DEF ListsInv

\* What a link carries are parameters.
LEMMA ListsLinkParams ==
  ASSUME Lists!ListPagesAssumption
  PROVE  \A u \in Lists!Links : u \in Lists!Params
  <1> DEFINE v == listsKind # "transfers"
  <1>1. v \in BOOLEAN
    BY Zenon
  <1>2. Lists!NoParams \in Lists!Params
    BY DEF Lists!NoParams, Lists!Params, Lists!ListPagesAssumption
  <1>3. [Lists!NoParams EXCEPT !.range = "custom"] \in Lists!Params
    BY <1>2 DEF Lists!Params
  <1>4. [Lists!NoParams EXCEPT !.search = Plain, !.view = v, !.page = MaxPages] \in Lists!Params
    <2> HIDE DEF v
    <2>1. MaxPages \in 1..MaxPages /\ Plain \in Lists!Text
      BY DEF Lists!ListPagesAssumption, Lists!Text
    <2>2. [Lists!NoParams EXCEPT !.search = Plain] \in Lists!Params
      BY <1>2, <2>1 DEF Lists!Params
    <2>3. [[Lists!NoParams EXCEPT !.search = Plain] EXCEPT !.view = v] \in Lists!Params
      BY <1>1, <2>2 DEF Lists!Params
    <2>4. [[[Lists!NoParams EXCEPT !.search = Plain] EXCEPT !.view = v] EXCEPT !.page = MaxPages] \in Lists!Params
      BY <2>1, <2>3 DEF Lists!Params
    <2> QED
      BY <2>4
  <1> QED
    BY <1>2, <1>3, <1>4 DEF Lists!Links

\* Every step of a list page keeps the invariant.
LEMMA ListsStepInv ==
  ASSUME Lists!ListPagesAssumption, ListsInv, Lists!Next \/ UNCHANGED Lists!vars
  PROVE  ListsInv'
  <1>1. /\ listsSeen \in Lists!Params /\ listsUrl \in Lists!Params
        /\ listsLatch \in Lists!DefaultsLatch /\ listsPending \in BOOLEAN
        /\ listsRestored \in ListsAbsent(Lists!Text) /\ listsStored \in ListsAbsent(Lists!Text)
        /\ listsPages \in 0..MaxPages
        /\ \A f \in Lists!Field : ListsKept(listsField[f])
        /\ listsSaved \in Lists!PageSettings /\ listsSettings \in Lists!PageSettings \cup {None}
    BY DEF ListsInv, Lists!TypeOK, ListsAbsent
  <1>2. ASSUME NEW s \in Lists!PageSettings, NEW u \in Lists!Params, Lists!Mount(s, u),
               UNCHANGED <<listsKind, listsSaved,
                           listsStored>>, listsSettings' \in Lists!PageSettings \cup {None},
               listsClicks' \in Lists!ClickCount, listsEdits' \in 0..MaxEdits, ListsFewClicks'
        PROVE  ListsInv'
    <2>1. /\ listsGate' = "open" /\ listsUrl' \in Lists!Params /\ listsPending' \in BOOLEAN
          /\ listsSeen' \in Lists!Params
          /\ listsLatch' \in Lists!DefaultsLatch /\ listsRestored' \in ListsAbsent(Lists!Text)
          /\ listsField' \in [Lists!Field -> Lists!Draft] /\ listsFiltersOpen' = FALSE
          /\ listsPages' = 0 /\ listsFormOpen' = FALSE
          /\ (\A f \in Lists!Field : ListsKept(listsField'[f])) /\ ListsLatchSpent'
      BY <1>2, ListsMounts
    <2>2. listsFiltersOpen' \in BOOLEAN /\ listsFormOpen' \in BOOLEAN
      BY <2>1
    <2>3. listsPages' \in 0..MaxPages
      <3>1. 0 \in 0..MaxPages
        BY DEF Lists!ListPagesAssumption
      <3> QED
        BY <2>1, <3>1
    <2>4. listsKind' \in Kinds /\ listsSaved' \in Lists!PageSettings
          /\ listsStored' \in Lists!Text \cup {None}
      BY <1>2 DEF ListsInv, Lists!TypeOK
    <2>5. Lists!TypeOK'
      BY <1>2, <2>1, <2>2, <2>3, <2>4 DEF Lists!TypeOK, ListsAbsent
    <2>6. ListsNoFields'
      BY <2>1 DEF ListsNoFields
    <2> QED
      BY <1>2, <2>1, <2>5, <2>6 DEF ListsInv
  <1>3. ASSUME NEW u \in Lists!Links, Lists!arrive(u)
        PROVE  ListsInv'
    <2>1. u \in Lists!Params
      BY ListsLinkParams
    <2>2. listsEdits' \in 0..MaxEdits /\ listsClicks' \in Lists!ClickCount /\ ListsFewClicks'
      BY <1>3, ListsCounted DEF Lists!arrive, Lists!ClickCount, ListsFewClicks,
        Lists!ListPagesAssumption
    <2>3. CASE listsSettings = None
      <3>1. UNCHANGED <<listsKind, listsSaved, listsSettings, listsStored, listsPending,
                        Lists!content>> /\ listsGate' = "loading" /\ listsUrl' = u /\ listsGate = "away"
        BY <1>3, <2>3 DEF Lists!arrive
      <3>2. Lists!TypeOK'
        BY <2>1, <2>2, <3>1 DEF ListsInv, Lists!TypeOK, Lists!content
      <3> QED
        BY <2>2, <3>1, <3>2 DEF ListsInv, ListsKept, ListsNoFields, ListsLatchSpent, Lists!content
    <2>4. CASE listsSettings # None
      <3>1. UNCHANGED <<listsKind, listsSaved, listsSettings,
                        listsStored>> /\ listsSettings \in Lists!PageSettings /\ Lists!Mount(listsSettings, u)
        BY <1>1, <1>3, <2>4 DEF Lists!arrive
      <3> QED
        BY <1>2, <2>1, <2>2, <3>1
    <2> QED
      BY <2>3, <2>4
  <1>4. CASE Lists!SettingsArrive
    <2>1. CASE listsGate = "loading"
      <3>1. /\ Lists!Mount(listsSaved, listsUrl)
            /\ listsClicks' = [listsClicks EXCEPT !.consumed = listsClicks.asked]
            /\ listsSettings' = listsSaved /\ UNCHANGED <<listsKind, listsSaved, listsStored,
                                                          listsEdits>>
        BY <1>4, <2>1 DEF Lists!SettingsArrive
      <3>2. listsClicks' \in Lists!ClickCount /\ ListsFewClicks' /\ listsEdits' \in 0..MaxEdits
        BY <3>1 DEF ListsInv, Lists!TypeOK, Lists!ClickCount, ListsFewClicks
      <3> QED
        BY <1>1, <1>2, <3>1, <3>2
    <2>2. CASE listsGate # "loading"
      <3>1. listsSettings' = listsSaved /\ UNCHANGED <<listsKind, listsSaved, listsStored,
                                                       listsEdits, listsGate, listsUrl, listsPending,
                                                       Lists!content, listsClicks>>
        BY <1>4, <2>2 DEF Lists!SettingsArrive
      <3> QED
        BY <1>1, <3>1, ListsContentKept DEF ListsInv, Lists!TypeOK, ListsFewClicks, Lists!content
    <2> QED
      BY <2>1, <2>2
  <1>5. CASE Lists!leave
    <2>1. Lists!NoParams \in Lists!Params /\ Lists!Spent \in Lists!DefaultsLatch
      BY DEF Lists!NoParams, Lists!Params, Lists!Spent, Lists!DefaultsLatch,
        Lists!ListPagesAssumption
    <2>2. listsField' = [f \in Lists!Field |-> Lists!Off]
      BY <1>5 DEF Lists!leave, Lists!Unmounted
    <2>3. /\ listsField' \in [Lists!Field -> Lists!Draft]
          /\ \A f \in Lists!Field : ListsKept(listsField'[f]) /\ ~listsField'[f].on
      BY <2>2, ListsOffKept DEF ListsKept
    <2>4. listsClicks' \in Lists!ClickCount /\ ListsFewClicks'
      BY <1>5 DEF Lists!leave, Lists!ClickCount, ListsFewClicks, ListsInv, Lists!TypeOK,
        Lists!ListPagesAssumption
    <2>5. /\ listsGate' = "away" /\ listsUrl' \in Lists!Params /\ listsPending' \in BOOLEAN
          /\ listsSeen' \in Lists!Params
          /\ listsLatch' \in Lists!DefaultsLatch /\ listsRestored' = None
          /\ listsFiltersOpen' \in BOOLEAN /\ listsPages' = 0 /\ listsFormOpen' \in BOOLEAN
          /\ UNCHANGED <<listsKind, listsSaved, listsSettings, listsStored, listsEdits>>
      BY <1>5, <2>1 DEF Lists!leave, Lists!Unmounted
    <2>6. listsPages' \in 0..MaxPages
      BY <2>5 DEF Lists!ListPagesAssumption
    <2>7. Lists!TypeOK'
      BY <2>3, <2>4, <2>5, <2>6 DEF ListsInv, Lists!TypeOK
    <2>8. ListsNoFields' /\ ListsLatchSpent'
      BY <1>5, <2>3 DEF Lists!leave, ListsNoFields, ListsLatchSpent
    <2> QED
      BY <2>3, <2>4, <2>7, <2>8 DEF ListsInv
  <1>6. CASE Lists!setCreateRequest
    <2>1. listsEdits' \in 0..MaxEdits /\ listsEdits' = listsEdits + 1
      BY <1>6, ListsCounted DEF Lists!setCreateRequest
    <2>2. listsClicks' \in Lists!ClickCount /\ ListsFewClicks'
      BY <1>6, <2>1 DEF Lists!setCreateRequest, ListsInv, Lists!TypeOK, Lists!ClickCount,
        ListsFewClicks, Lists!ListPagesAssumption
    <2>3. listsFormOpen' \in BOOLEAN
      BY <1>6, Zenon DEF Lists!setCreateRequest
    <2> QED
      BY <1>1, <1>6, <2>1, <2>2, <2>3, ListsContentKept DEF Lists!setCreateRequest, ListsInv,
        Lists!TypeOK
  <1>7. CASE Lists!closeForm
    BY <1>1, <1>7, ListsContentKept DEF Lists!closeForm, ListsInv, Lists!TypeOK, ListsFewClicks
  <1>8. CASE Lists!Render
    <2> DEFINE l == Lists!Consumed(listsLatch, listsUrl)
               no == FALSE
               view == listsLatch.view /\ ~listsUrl.view
               new == Lists!Follow(listsSeen, listsRestored, listsUrl, listsRestored, l, listsFiltersOpen)
    <2>1. /\ listsLatch' = l /\ listsField' = new /\ listsSeen' = listsUrl
          /\ Lists!Effects(listsUrl, no, listsUrl, l, listsPages) /\ listsGate = "open"
          /\ UNCHANGED <<listsKind, listsGate, listsSaved, listsSettings, listsStored, listsClicks,
                         listsEdits, listsRestored, listsFiltersOpen, listsPages, listsFormOpen>>
      BY <1>8 DEF Lists!Render
    <2>2. view \in BOOLEAN /\ (listsUrl.view => ~view)
      BY Zenon
    <2>3. l = [range |-> IF listsUrl.range # None THEN None ELSE listsLatch.range, view |-> view]
      BY DEF Lists!Consumed
    <2> HIDE DEF view, l
    <2>4. l \in Lists!DefaultsLatch
          /\ (listsUrl.range # None => l.range = None) /\ (listsUrl.view => ~l.view)
      BY <1>1, <2>2, <2>3 DEF Lists!DefaultsLatch
    <2>5. new \in [Lists!Field -> Lists!Draft] /\ \A f \in Lists!Field : ListsKept(new[f])
      BY <1>1, ListsFollowed
    <2>6. no \in BOOLEAN
      OBVIOUS
    <2> HIDE DEF no, new
    <2>7. listsUrl' \in Lists!Params /\ listsPending' \in BOOLEAN
      BY <1>1, <2>1, <2>4, <2>6, ListsEffectsTypes
    <2>8. Lists!TypeOK'
      BY <1>1, <2>1, <2>4, <2>5, <2>7 DEF ListsInv, Lists!TypeOK
    <2>9. ListsNoFields' /\ ListsLatchSpent' /\ ListsFewClicks'
      BY <2>1, <2>4 DEF ListsInv, ListsNoFields, ListsLatchSpent, ListsFewClicks
    <2> QED
      BY <2>1, <2>5, <2>8, <2>9 DEF ListsInv
  <1>9. ASSUME NEW n \in 1..MaxPages, Lists!ListArrives(n)
        PROVE  ListsInv'
    <2>1. listsUrl' \in Lists!Params /\ listsPending' \in BOOLEAN
      BY <1>1, <1>9, ListsEffectsTypes DEF Lists!ListArrives
    <2> QED
      BY <1>1, <1>9, <2>1, ListsContentKept DEF Lists!ListArrives, ListsInv, Lists!TypeOK,
        ListsFewClicks
  <1>10. CASE \/ \E n \in 1..MaxPages : Lists!onPageChange(n)
              \/ \E r \in {None, "month", "custom"} : Lists!setRange(r)
              \/ \E r \in {None, "custom"} : Lists!handleMonthShift(r)
              \/ \E v \in BOOLEAN : Lists!setView(v)
              \/ Lists!clearFilters
    BY <1>10, ListsControls DEF Lists!onPageChange, Lists!setRange, Lists!handleMonthShift,
      Lists!setView
  <1>11. ASSUME NEW u \in Lists!Links, Lists!goTo(u)
         PROVE  ListsInv'
    <2>1. u \in Lists!Params
      BY ListsLinkParams
    <2>2. listsEdits' \in 0..MaxEdits /\ ListsFewClicks'
      BY <1>11, ListsCounted DEF Lists!goTo
    <2> QED
      BY <1>1, <1>11, <2>1, <2>2, ListsContentKept DEF Lists!goTo, Lists!content, ListsInv,
        Lists!TypeOK
  <1>12. CASE Lists!handleSaveDefaults
    <2>1. listsSaved' \in Lists!PageSettings
      BY <1>1, <1>12 DEF Lists!handleSaveDefaults, Lists!capturePageDefaults,
        Lists!reverseResolveRange, Lists!PageSettings, Lists!Params
    <2>2. listsEdits' \in 0..MaxEdits /\ ListsFewClicks'
      BY <1>12, ListsCounted DEF Lists!handleSaveDefaults
    <2> QED
      BY <1>1, <1>12, <2>1, <2>2, ListsContentKept DEF Lists!handleSaveDefaults, Lists!content,
        ListsInv, Lists!TypeOK
  \* The fields of the page that is open change.
  <1>13. ASSUME UNCHANGED <<listsKind, listsGate, listsSaved, listsSettings, listsClicks, listsSeen, listsLatch, listsPages, listsFormOpen>>,
                listsUrl' \in Lists!Params, listsPending' \in BOOLEAN,
                listsStored' \in ListsAbsent(Lists!Text), listsRestored' \in ListsAbsent(Lists!Text),
                listsField' \in [Lists!Field -> Lists!Draft], \A f \in Lists!Field : ListsKept(listsField'[f]), listsGate = "open",
                listsFiltersOpen' \in BOOLEAN, listsEdits' \in 0..MaxEdits, ListsFewClicks'
         PROVE  ListsInv'
    <2>1. Lists!TypeOK'
      BY <1>13 DEF ListsInv, Lists!TypeOK, ListsAbsent
    <2> QED
      BY <1>13, <2>1 DEF ListsInv, ListsNoFields, ListsLatchSpent
  <1>14. CASE Lists!setFiltersOpen
    <2> DEFINE new == Lists!Follow(listsSeen, listsRestored, listsSeen, listsRestored, listsLatch, ~listsFiltersOpen)
    <2>1. new \in [Lists!Field -> Lists!Draft] /\ \A f \in Lists!Field : ListsKept(new[f])
      BY <1>1, ListsFollowed
    <2>2. listsField' = new
      BY <1>14 DEF Lists!setFiltersOpen
    <2> HIDE DEF new
    <2>3. listsEdits' \in 0..MaxEdits /\ ListsFewClicks'
      BY <1>14, ListsCounted DEF Lists!setFiltersOpen
    <2>4. listsFiltersOpen' \in BOOLEAN
      BY <1>14 DEF Lists!setFiltersOpen, ListsInv, Lists!TypeOK
    <2> QED
      BY <1>1, <1>13, <1>14, <2>1, <2>2, <2>3, <2>4 DEF Lists!setFiltersOpen
  <1>15. ASSUME NEW f \in Lists!Field, NEW t \in Lists!Text \cup {None}, Lists!type(f, t)
         PROVE  ListsInv'
    <2> DEFINE late == t # listsField[f].committed
               x == [listsField[f] EXCEPT !.draft = t, !.timer = late]
    <2>1. late \in BOOLEAN /\ (~late => t = listsField[f].committed)
      BY Zenon
    <2>2. listsField' = [listsField EXCEPT ![f] = x] /\ listsField[f].on
      BY <1>15 DEF Lists!type
    <2> HIDE DEF late
    <2>3. listsField[f] \in Lists!Draft
      BY <1>1 DEF ListsKept
    <2>4. x \in Lists!Draft /\ x.on /\ (x.draft = x.committed \/ x.timer)
      BY <2>1, <2>2, <2>3 DEF Lists!Draft
    <2> HIDE DEF x
    <2>5. listsField' \in [Lists!Field -> Lists!Draft]
          /\ \A g \in Lists!Field : ListsKept(listsField'[g])
      BY <1>1, <2>2, <2>4 DEF ListsInv, Lists!TypeOK, ListsKept
    <2>6. listsGate = "open"
      BY <2>2 DEF ListsInv, ListsNoFields
    <2>7. listsEdits' \in 0..MaxEdits /\ ListsFewClicks'
      BY <1>15, ListsCounted DEF Lists!type
    <2> QED
      BY <1>1, <1>13, <1>15, <2>5, <2>6, <2>7 DEF Lists!type, ListsInv, Lists!TypeOK
  <1>16. ASSUME NEW t \in ListsAbsent(Lists!Text), NEW x, Lists!handleSearchChange(t, x),
                ListsKept(x), x.on, listsGate = "open",
                UNCHANGED <<listsKind, listsGate, listsSaved, listsSettings, listsClicks, listsSeen,
                            listsLatch, listsFiltersOpen, listsPages, listsFormOpen>>,
                listsEdits' \in 0..MaxEdits, ListsFewClicks'
         PROVE  ListsInv'
    <2> DEFINE none == None
               new == Lists!Follow(listsSeen, listsRestored, listsSeen, none, listsLatch, listsFiltersOpen)
               old == Lists!value("search", listsSeen, listsRestored)
               v == Lists!value("search", listsSeen, none)
               patch == [search |-> t]
               u == Lists!updateParams(listsSeen, patch)
               yes == TRUE
    <2>1. /\ listsRestored' = none /\ listsStored' = t
          /\ listsField' = [new EXCEPT !["search"] = Lists!Adopt(x, old, v)]
          /\ Lists!Effects(u, yes, listsSeen, listsLatch, listsPages)
               \/ (listsUrl' = u /\ listsPending' = yes)
      BY <1>16 DEF Lists!handleSearchChange
    <2>2. none \in ListsAbsent(Lists!Text) /\ "search" \in Lists!Field /\ yes \in BOOLEAN
      BY DEF ListsAbsent, Lists!Field
    <2>3. DOMAIN patch = {"search"} /\ patch["search"] = t
      OBVIOUS
    <2> HIDE DEF none, new, old, patch, u, yes
    <2>4. u \in Lists!Params
      BY <1>1, <1>16, <2>3, ListsUpdate DEF u
    <2>5. listsUrl' \in Lists!Params /\ listsPending' \in BOOLEAN
      BY <1>1, <2>1, <2>2, <2>4, ListsEffectsTypes
    <2>6. new \in [Lists!Field -> Lists!Draft] /\ \A f \in Lists!Field : ListsKept(new[f])
      BY <1>1, <2>2, ListsFollowed DEF new
    <2>7. v \in ListsAbsent(Lists!Text)
      BY <1>1, <2>2, ListsValues
    <2> HIDE DEF v
    <2>8. ListsKept(Lists!Adopt(x, old, v))
      BY <1>16, <2>7, ListsAdopted
    <2>9. listsField' \in [Lists!Field -> Lists!Draft]
          /\ \A f \in Lists!Field : ListsKept(listsField'[f])
      BY <2>1, <2>2, <2>6, <2>8 DEF ListsKept
    <2> QED
      BY <1>13, <1>16, <2>1, <2>2, <2>5, <2>9 DEF ListsInv, Lists!TypeOK
  <1>17. ASSUME NEW f \in Lists!Field, Lists!Commit(f)
         PROVE  ListsInv'
    <2> DEFINE t == listsField[f].draft
               x == [listsField[f] EXCEPT !.committed = t, !.timer = FALSE]
    <2>1. listsField[f] \in Lists!Draft /\ listsField[f].timer
      BY <1>1, <1>17 DEF ListsKept, Lists!Commit
    <2>2. listsGate = "open"
      BY <1>1, <2>1 DEF ListsKept, ListsInv, ListsNoFields
    <2>3. t \in ListsAbsent(Lists!Text) /\ ListsKept(x) /\ x.on
      BY <1>1, <2>1 DEF Lists!Draft, ListsKept, ListsAbsent
    <2>4. /\ UNCHANGED <<listsKind, listsGate, listsSaved, listsSettings, listsClicks, listsEdits,
                         listsSeen, listsLatch, listsFiltersOpen, listsPages, listsFormOpen>>
          /\ f = "search" => Lists!handleSearchChange(t, x)
          /\ f # "search" =>
               /\ listsField' = [listsField EXCEPT ![f] = x]
               /\ listsUrl' =
                    Lists!updateParams(listsSeen, [amount |-> Lists!normalizeAmountInput(f, t)])
                    /\ listsPending' = TRUE
               /\ UNCHANGED <<listsRestored, listsStored>>
      BY <1>17 DEF Lists!Commit
    <2>5. listsEdits' \in 0..MaxEdits /\ ListsFewClicks'
      BY <2>4 DEF ListsInv, Lists!TypeOK, ListsFewClicks
    <2> HIDE DEF t, x
    <2>6. CASE f # "search"
      <3> DEFINE a == Lists!normalizeAmountInput(f, t)
                 patch == [amount |-> a]
      <3>1. a \in ListsAbsent(Lists!Text)
        BY <2>3 DEF Lists!normalizeAmountInput, ListsAbsent, Lists!Text
      <3> HIDE DEF a
      <3>2. DOMAIN patch = {"amount"} /\ patch["amount"] = a
        OBVIOUS
      <3>3. listsUrl' = Lists!updateParams(listsSeen, patch)
        BY <2>4, <2>6 DEF a
      <3> HIDE DEF patch
      <3>4. listsUrl' \in Lists!Params
        BY <1>1, <3>1, <3>2, <3>3, ListsUpdate
      <3>5. listsField' \in [Lists!Field -> Lists!Draft]
            /\ \A g \in Lists!Field : ListsKept(listsField'[g])
        BY <1>1, <2>3, <2>4, <2>6 DEF ListsInv, Lists!TypeOK, ListsKept
      <3> QED
        BY <1>1, <1>13, <2>2, <2>4, <2>5, <2>6, <3>4, <3>5 DEF ListsInv, Lists!TypeOK
    <2>7. CASE f = "search"
      BY <1>16, <2>2, <2>3, <2>4, <2>5, <2>7
    <2> QED
      BY <2>6, <2>7
  <1>18. CASE Lists!clearSearch
    <2> DEFINE s == listsField["search"]
               none == None
               late == s.committed # None
               x == [s EXCEPT !.draft = none, !.timer = late]
    <2>1. "search" \in Lists!Field
      BY DEF Lists!Field
    <2>2. s \in Lists!Draft /\ s.on
      BY <1>1, <1>18, <2>1 DEF Lists!clearSearch, ListsKept
    <2>3. late \in BOOLEAN /\ (~late => s.committed = none)
      BY Zenon
    <2>4. Lists!handleSearchChange(none, x)
          /\ UNCHANGED <<listsKind, listsGate, listsSaved, listsSettings, listsClicks, listsSeen,
                         listsLatch, listsFiltersOpen, listsPages, listsFormOpen>>
      BY <1>18 DEF Lists!clearSearch
    <2>5. listsEdits' \in 0..MaxEdits /\ ListsFewClicks'
      BY <1>18, ListsCounted DEF Lists!clearSearch
    <2>6. none \in ListsAbsent(Lists!Text)
      BY DEF ListsAbsent
    <2>7. listsGate = "open"
      BY <2>1, <2>2 DEF ListsInv, ListsNoFields
    <2> HIDE DEF s, none, late
    <2>8. x \in Lists!Draft /\ x.on /\ (x.draft = x.committed \/ x.timer)
      BY <2>2, <2>3, <2>6 DEF Lists!Draft, ListsAbsent
    <2> HIDE DEF x
    <2> QED
      BY <1>16, <2>4, <2>5, <2>6, <2>7, <2>8 DEF ListsKept
  <1>19. CASE UNCHANGED Lists!vars
    BY <1>1, <1>19, ListsContentKept DEF Lists!vars, Lists!content, ListsInv, Lists!TypeOK,
      ListsFewClicks
  <1> QED
    BY <1>3, <1>4, <1>5, <1>6, <1>7, <1>8, <1>9, <1>10, <1>11, <1>12, <1>14, <1>15,
       <1>17, <1>18, <1>19 DEF Lists!Next

-----------------------------------------------------------------------------
(* What follows.                                                           *)

\* Only a render, a mount and leaving change the URL that was rendered.
LEMMA ListsSeenBy ==
  ASSUME Lists!Next \/ UNCHANGED Lists!vars
  PROVE  UNCHANGED listsSeen \/ Lists!Render \/ listsGate # "open" \/ listsGate' # "open"
  <1>1. CASE \E u \in Lists!Links : Lists!arrive(u) \/ Lists!goTo(u)
    BY <1>1 DEF Lists!arrive, Lists!goTo, Lists!content
  <1>2. CASE Lists!SettingsArrive
    BY <1>2 DEF Lists!SettingsArrive, Lists!content
  <1>3. CASE Lists!leave \/ Lists!setCreateRequest \/ Lists!closeForm \/ Lists!Render
    BY <1>3 DEF Lists!leave, Lists!setCreateRequest, Lists!closeForm
  <1>4. CASE \E n \in 1..MaxPages : Lists!ListArrives(n) \/ Lists!onPageChange(n)
    BY <1>4 DEF Lists!ListArrives, Lists!onPageChange, Lists!Patch, Lists!content
  <1>5. CASE \/ \E r \in {None, "month", "custom"} : Lists!setRange(r)
             \/ \E r \in {None, "custom"} : Lists!handleMonthShift(r)
             \/ \E v \in BOOLEAN : Lists!setView(v)
             \/ Lists!clearFilters
    BY <1>5 DEF Lists!setRange, Lists!handleMonthShift, Lists!setView, Lists!clearFilters,
      Lists!Patch, Lists!content
  <1>6. CASE Lists!setFiltersOpen \/ Lists!clearSearch \/ Lists!handleSaveDefaults
    BY <1>6 DEF Lists!setFiltersOpen, Lists!clearSearch, Lists!handleSaveDefaults, Lists!content
  <1>7. CASE \E f \in Lists!Field : Lists!Commit(f)
          \/ \E t \in Lists!Text \cup {None} : Lists!type(f, t)
    BY <1>7 DEF Lists!Commit, Lists!type
  <1>8. CASE UNCHANGED Lists!vars
    BY <1>8 DEF Lists!vars, Lists!content
  <1> QED
    BY <1>1, <1>2, <1>3, <1>4, <1>5, <1>6, <1>7, <1>8 DEF Lists!Next

\* What the latch lost is not written into the URL by the effects of a render.
LEMMA ListsNotDefaulted ==
  ASSUME Lists!ListPagesAssumption, NEW cur \in Lists!Params, NEW p, NEW l \in Lists!DefaultsLatch,
         NEW n,
         Lists!Effects(cur, p, cur, l, n)
  PROVE  /\ cur.range = None /\ l.range = None => listsUrl'.range = None
         /\ ~cur.view /\ ~l.view => ~listsUrl'.view
  <1> DEFINE patch1 == [page |-> 1]
             range == IF l.range # None THEN l.range ELSE cur.range
             view == l.view \/ cur.view
             patch2 == [range |-> range, view |-> view]
  <1>1. /\ DOMAIN patch1 = {"page"} /\ patch1["page"] \in 1..MaxPages
        /\ DOMAIN patch2 = {"range", "view"} /\ patch2["range"] = range /\ patch2["view"] = view
    BY DEF Lists!ListPagesAssumption
  <1>2. range \in {None, "month", "custom"} /\ (cur.range = None /\ l.range = None => range = None)
    BY DEF Lists!Params, Lists!DefaultsLatch
  <1>3. view \in BOOLEAN /\ (~cur.view /\ ~l.view => ~view)
    BY Zenon
  <1>4. listsUrl' \in {Lists!updateParams(cur, patch1), Lists!updateParams(cur, patch2), cur}
    BY DEF Lists!Effects, Lists!Materialize
  <1> HIDE DEF range, view, patch1, patch2
  <1>5. /\ Lists!updateParams(cur, patch1).range = cur.range
        /\ Lists!updateParams(cur, patch1).view = cur.view
    BY <1>1, ListsUpdate
  <1>6. /\ Lists!updateParams(cur, patch2).range = range
        /\ Lists!updateParams(cur, patch2).view = view
    BY <1>1, <1>2, <1>3, ListsUpdate
  <1> QED
    BY <1>2, <1>3, <1>4, <1>5, <1>6

\* What was cleared is not filled in again.
LEMMA ListsCleared ==
  ASSUME Lists!ListPagesAssumption, ListsInv, Lists!Next \/ UNCHANGED Lists!vars
  PROVE  Lists!ClearedStays
  <1> SUFFICES ASSUME listsGate = "open", listsGate' = "open", listsSeen' = listsUrl,
                      listsSeen' # listsSeen
               PROVE  /\ listsSeen.range # None /\ listsUrl.range = None => listsUrl'.range = None
                      /\ listsSeen.view /\ ~listsUrl.view => ~listsUrl'.view
    BY DEF Lists!ClearedStays
  <1> DEFINE l == Lists!Consumed(listsLatch, listsUrl)
             view == listsLatch.view /\ ~listsUrl.view
             no == FALSE
  <1>1. Lists!Render
    BY ListsSeenBy
  <1>2. Lists!Effects(listsUrl, no, listsUrl, l, listsPages)
    BY <1>1 DEF Lists!Render
  <1>3. listsUrl \in Lists!Params /\ listsLatch \in Lists!DefaultsLatch
    BY DEF ListsInv, Lists!TypeOK
  <1>4. view \in BOOLEAN /\ (~listsLatch.view => ~view)
    BY Zenon
  <1>5. l = [range |-> IF listsUrl.range # None THEN None ELSE listsLatch.range, view |-> view]
    BY DEF Lists!Consumed
  <1> HIDE DEF l, view, no
  <1>6. l \in Lists!DefaultsLatch
        /\ (listsLatch.range = None => l.range = None) /\ (~listsLatch.view => ~l.view)
    BY <1>3, <1>4, <1>5 DEF Lists!DefaultsLatch
  <1>7. /\ listsSeen.range # None => listsLatch.range = None
        /\ listsSeen.view => ~listsLatch.view
    BY DEF ListsInv, ListsLatchSpent
  <1>8. /\ listsUrl.range = None /\ l.range = None => listsUrl'.range = None
        /\ ~listsUrl.view /\ ~l.view => ~listsUrl'.view
    BY <1>2, <1>3, <1>6, ListsNotDefaulted
  <1> QED
    BY <1>6, <1>7, <1>8

\* The values of the fields change by a render, or as a restored search is dropped.
LEMMA ListsFollows ==
  ASSUME Lists!ListPagesAssumption, ListsInv, Lists!Next \/ UNCHANGED Lists!vars
  PROVE  Lists!FieldFollows
  <1> SUFFICES ASSUME NEW f \in Lists!Field, listsField[f].on, listsField'[f].on,
                      Lists!value(f, listsSeen', listsRestored') # Lists!value(f, listsSeen, listsRestored)
               PROVE  listsField'[f].draft = Lists!value(f, listsSeen', listsRestored')
                        \/ listsField'[f].timer
    BY DEF Lists!FieldFollows
  <1>1. listsGate = "open"
    BY DEF ListsInv, ListsNoFields
  <1>2. listsSeen' # listsSeen \/ listsRestored' # listsRestored
    OBVIOUS
  <1>3. /\ listsSeen \in Lists!Params /\ listsUrl \in Lists!Params
        /\ listsRestored \in ListsAbsent(Lists!Text)
        /\ \A g \in Lists!Field : ListsKept(listsField[g])
    BY DEF ListsInv, Lists!TypeOK, ListsAbsent
  <1>4. ASSUME NEW t, NEW x, Lists!handleSearchChange(t, x), ListsKept(x), x.on,
               listsSeen' = listsSeen
        PROVE  listsField'[f].draft = Lists!value(f, listsSeen', listsRestored') \/ listsField'[f].timer
    <2> DEFINE none == None
               new == Lists!Follow(listsSeen, listsRestored, listsSeen, none, listsLatch, listsFiltersOpen)
               old == Lists!value("search", listsSeen, listsRestored)
               v == Lists!value("search", listsSeen, none)
    <2>1. listsRestored' = none /\ listsField' = [new EXCEPT !["search"] = Lists!Adopt(x, old, v)]
      BY <1>4 DEF Lists!handleSearchChange
    <2>2. none \in ListsAbsent(Lists!Text) /\ "search" \in Lists!Field
      BY DEF ListsAbsent, Lists!Field
    <2> HIDE DEF none, new
    <2>3. new \in [Lists!Field -> Lists!Draft]
      BY <1>3, <2>2, ListsFollowed DEF new
    <2>4. CASE f = "search"
      <3>1. v \in ListsAbsent(Lists!Text) /\ v # old
        BY <1>3, <1>4, <2>1, <2>2, <2>4, ListsValues
      <3>2. listsField'[f] = Lists!Adopt(x, old, v)
            /\ Lists!value(f, listsSeen', listsRestored') = v
        BY <1>4, <2>1, <2>2, <2>3, <2>4
      <3> HIDE DEF v, old
      <3> QED
        BY <1>4, <3>1, <3>2, ListsAdopted
    <2>5. CASE f # "search"
      BY <1>4, <2>5 DEF Lists!value, Lists!Field
    <2> QED
      BY <2>4, <2>5
  <1>5. CASE Lists!Render
    <2> DEFINE l == Lists!Consumed(listsLatch, listsUrl)
               new == Lists!Follow(listsSeen, listsRestored, listsUrl, listsRestored, l, listsFiltersOpen)
    <2>1. listsSeen' = listsUrl /\ listsRestored' = listsRestored /\ listsField' = new
      BY <1>5 DEF Lists!Render
    <2> HIDE DEF l
    <2>2. listsField[f].on /\ new[f].on
          /\ Lists!value(f, listsUrl, listsRestored) # Lists!value(f, listsSeen, listsRestored)
             => new[f].draft = Lists!value(f, listsUrl, listsRestored) \/ new[f].timer
      BY <1>3, ListsFollowed
    <2> HIDE DEF new
    <2> QED
      BY <2>1, <2>2
  <1>6. CASE Lists!leave
    <2>1. listsField' = [g \in Lists!Field |-> Lists!Off]
      BY <1>6 DEF Lists!leave, Lists!Unmounted
    <2> QED
      BY <2>1, ListsOffKept
  <1>7. ASSUME NEW g \in Lists!Field, Lists!Commit(g)
        PROVE  listsField'[f].draft = Lists!value(f, listsSeen', listsRestored') \/ listsField'[f].timer
    <2> DEFINE t == listsField[g].draft
               x == [listsField[g] EXCEPT !.committed = t, !.timer = FALSE]
    <2>1. listsField[g].timer /\ listsSeen' = listsSeen
      BY <1>7 DEF Lists!Commit
    <2>2. listsField[g] \in Lists!Draft /\ listsField[g].on
      BY <1>3, <2>1 DEF ListsKept
    <2>3. ListsKept(x) /\ x.on
      BY <2>2 DEF Lists!Draft, ListsKept
    <2>4. g = "search" /\ Lists!handleSearchChange(t, x)
      BY <1>2, <1>7, <2>1 DEF Lists!Commit
    <2> HIDE DEF t, x
    <2> QED
      BY <1>4, <2>1, <2>3, <2>4
  <1>8. CASE Lists!clearSearch
    <2> DEFINE s == listsField["search"]
               none == None
               late == s.committed # None
               x == [s EXCEPT !.draft = none, !.timer = late]
    <2>1. s \in Lists!Draft /\ s.on
      BY <1>3, <1>8 DEF Lists!clearSearch, ListsKept, Lists!Field
    <2>2. late \in BOOLEAN /\ (~late => s.committed = none)
      BY Zenon
    <2>3. Lists!handleSearchChange(none, x) /\ listsSeen' = listsSeen
      BY <1>8 DEF Lists!clearSearch
    <2>4. none \in ListsAbsent(Lists!Text)
      BY DEF ListsAbsent
    <2> HIDE DEF s, none, late
    <2>5. x \in Lists!Draft /\ x.on /\ (x.draft = x.committed \/ x.timer)
      BY <2>1, <2>2, <2>4 DEF Lists!Draft, ListsAbsent
    <2> HIDE DEF x
    <2> QED
      BY <1>4, <2>3, <2>5 DEF ListsKept
  <1>9. UNCHANGED <<listsSeen,
                    listsRestored>> \/ Lists!Render \/ Lists!leave \/ Lists!clearSearch \/ (\E g \in Lists!Field : Lists!Commit(g))
    <2>1. CASE \E u \in Lists!Links : Lists!arrive(u) \/ Lists!goTo(u)
      BY <1>1, <2>1 DEF Lists!arrive, Lists!goTo, Lists!content
    <2>2. CASE Lists!SettingsArrive
      BY <1>1, <2>2 DEF Lists!SettingsArrive, Lists!content
    <2>3. CASE Lists!setCreateRequest \/ Lists!closeForm
      BY <2>3 DEF Lists!setCreateRequest, Lists!closeForm
    <2>4. CASE \E n \in 1..MaxPages : Lists!ListArrives(n) \/ Lists!onPageChange(n)
      BY <2>4 DEF Lists!ListArrives, Lists!onPageChange, Lists!Patch, Lists!content
    <2>5. CASE \/ \E r \in {None, "month", "custom"} : Lists!setRange(r)
               \/ \E r \in {None, "custom"} : Lists!handleMonthShift(r)
               \/ \E v \in BOOLEAN : Lists!setView(v)
               \/ Lists!clearFilters
      BY <2>5 DEF Lists!setRange, Lists!handleMonthShift, Lists!setView, Lists!clearFilters,
        Lists!Patch, Lists!content
    <2>6. CASE Lists!setFiltersOpen \/ Lists!handleSaveDefaults
      BY <2>6 DEF Lists!setFiltersOpen, Lists!handleSaveDefaults, Lists!content
    <2>7. CASE \E g \in Lists!Field : \E t \in Lists!Text \cup {None} : Lists!type(g, t)
      BY <2>7 DEF Lists!type
    <2>8. CASE UNCHANGED Lists!vars
      BY <2>8 DEF Lists!vars, Lists!content
    <2> QED
      BY <2>1, <2>2, <2>3, <2>4, <2>5, <2>6, <2>7, <2>8 DEF Lists!Next
  <1> QED
    BY <1>2, <1>5, <1>6, <1>7, <1>8, <1>9

\* A step while this page is followed is a step of the page, or leaves it alone.
LEMMA ListsFrame ==
  ASSUME page = "lists", Next \/ UNCHANGED vars
  PROVE  page' = "lists" /\ (Lists!Next \/ UNCHANGED Lists!vars)
  BY DEF Next, vars, EntryNext, ItemsNext, BoardNext, RowsNext, TransfersNext,
    MembersNext, FormNext, ListsNext, PanelNext, MarksNext, DefaultsNext, listsVars,
    Lists!vars, Lists!content

-----------------------------------------------------------------------------
(***************************************************************************)
(* All pages together.                                                     *)
(***************************************************************************)

\* What the steps of the page that is followed rely on.
PagesInv ==
  /\ page = "sign-in" => EntryInv
  /\ page = "items" => ItemsInv
  /\ page = "budget" => BoardInv
  /\ page = "planned" => RowsInv
  /\ page = "transfers" => TransfersInv
  /\ page = "members" => MembersInv
  /\ page = "form" => FormInv
  /\ page = "lists" => ListsInv
  /\ page = "listbox" => Panel!TypeOK /\ PanelFocusOwned
  /\ page = "bookmarks" => MarksInv
  /\ page = "settings" => DefaultsInv

\* It holds of every page as it is entered.
LEMMA PagesInitInv ==
  ASSUME PagesAssumption, Init
  PROVE  PagesInv
  <1>1. ASSUME page = "sign-in" PROVE EntryInv
    BY <1>1, EntryInitInv DEF PagesAssumption, Init, EntryInit
  <1>2. ASSUME page = "items" PROVE ItemsInv
    BY <1>2, ItemsInitInv DEF PagesAssumption, Init, ItemsInit
  <1>3. ASSUME page = "budget" PROVE BoardInv
    BY <1>3, BoardInitInv DEF PagesAssumption, Init, BoardInit
  <1>4. ASSUME page = "planned" PROVE RowsInv
    BY <1>4, RowsInitInv DEF PagesAssumption, Init, RowsInit
  <1>5. ASSUME page = "transfers" PROVE TransfersInv
    BY <1>5, TransfersInitInv DEF PagesAssumption, Init, TransfersInit
  <1>6. ASSUME page = "members" PROVE MembersInv
    BY <1>6, MembersInitInv DEF PagesAssumption, Init, MembersInit
  <1>7. ASSUME page = "form" PROVE FormInv
    BY <1>7, FormInitInv DEF PagesAssumption, Init, FormInit
  <1>8. ASSUME page = "lists" PROVE ListsInv
    BY <1>8, ListsInitInv DEF PagesAssumption, Init, ListsInit
  <1>9. ASSUME page = "listbox" PROVE Panel!TypeOK /\ PanelFocusOwned
    BY <1>9, PanelInitTypes, PanelInitFocus DEF PagesAssumption, Init, PanelInit
  <1>10. ASSUME page = "bookmarks" PROVE MarksInv
    BY <1>10, MarksInitInv DEF PagesAssumption, Init, MarksInit
  <1>11. ASSUME page = "settings" PROVE DefaultsInv
    BY <1>11, DefaultsInitInv DEF PagesAssumption, Init, DefaultsInit
  <1> QED
    BY <1>1, <1>2, <1>3, <1>4, <1>5, <1>6, <1>7, <1>8, <1>9, <1>10, <1>11 DEF PagesInv

\* Every step keeps it.
LEMMA PagesStepInv ==
  ASSUME PagesAssumption, PagesInv, Next \/ UNCHANGED vars
  PROVE  PagesInv'
  <1>1. ASSUME page = "sign-in" PROVE page' = "sign-in" /\ EntryInv'
    BY <1>1, EntryFrame, EntryStepInv DEF PagesAssumption, PagesInv
  <1>2. ASSUME page = "items" PROVE page' = "items" /\ ItemsInv'
    BY <1>2, ItemsFrame, ItemsStepInv DEF PagesAssumption, PagesInv
  <1>3. ASSUME page = "budget" PROVE page' = "budget" /\ BoardInv'
    BY <1>3, BoardFrame, BoardStepInv DEF PagesAssumption, PagesInv
  <1>4. ASSUME page = "planned" PROVE page' = "planned" /\ RowsInv'
    BY <1>4, RowsFrame, RowsStepInv DEF PagesAssumption, PagesInv
  <1>5. ASSUME page = "transfers" PROVE page' = "transfers" /\ TransfersInv'
    BY <1>5, TransfersFrame, TransfersStepInv DEF PagesAssumption, PagesInv
  <1>6. ASSUME page = "members" PROVE page' = "members" /\ MembersInv'
    BY <1>6, MembersFrame, MembersNextKeepsInv DEF PagesAssumption, PagesInv
  <1>7. ASSUME page = "form" PROVE page' = "form" /\ FormInv'
    BY <1>7, FormFrame, FormStepInv DEF PagesAssumption, PagesInv
  <1>8. ASSUME page = "lists" PROVE page' = "lists" /\ ListsInv'
    BY <1>8, ListsFrame, ListsStepInv DEF PagesAssumption, PagesInv
  <1>9. ASSUME page = "listbox" PROVE page' = "listbox" /\ (Panel!TypeOK /\ PanelFocusOwned)'
    BY <1>9, PanelFrame, PanelStepTypes, PanelStepFocus DEF PagesAssumption, PagesInv
  <1>10. ASSUME page = "bookmarks" PROVE page' = "bookmarks" /\ MarksInv'
    BY <1>10, MarksFrame, MarksStepInv DEF PagesAssumption, PagesInv
  <1>11. ASSUME page = "settings" PROVE page' = "settings" /\ DefaultsInv'
    BY <1>11, DefaultsFrame, DefaultsStepInv DEF PagesAssumption, PagesInv
  <1>12. page' = page
    BY DEF Next, vars, EntryNext, ItemsNext, BoardNext, RowsNext, TransfersNext, MembersNext,
      FormNext, ListsNext, PanelNext, MarksNext, DefaultsNext
  <1> QED
    BY <1>1, <1>2, <1>3, <1>4, <1>5, <1>6, <1>7, <1>8, <1>9, <1>10, <1>11, <1>12 DEF PagesInv

\* What the theorems below rest on.
THEOREM Invariant ==
  ASSUME PagesAssumption
  PROVE  Spec => []PagesInv
  <1>1. Init => PagesInv
    BY PagesInitInv
  <1>2. PagesInv /\ [Next]_vars => PagesInv'
    BY PagesStepInv
  <1> QED
    BY <1>1, <1>2, PTL DEF Spec

\* The variables of the page that is followed keep their types.
THEOREM TypeCorrect ==
  ASSUME PagesAssumption
  PROVE  Spec => []TypeOK
  <1>1. PagesInv => TypeOK
    BY DEF PagesInv, TypeOK, EntryInv, ItemsInv, BoardInv, RowsInv, TransfersInv, MembersInv,
      FormInv, ListsInv, MarksInv, DefaultsInv
  <1> QED
    BY <1>1, Invariant, PTL

\* However often the form of a transaction is saved, and whatever became of the answers,
\* one session of it books one transaction.
THEOREM BooksOnce ==
  ASSUME PagesAssumption
  PROVE  Spec => []OneBooking
  <1>1. PagesInv => OneBooking
    BY FormBookedOnce DEF PagesInv, OneBooking
  <1> QED
    BY <1>1, Invariant, PTL

\* A receipt fills a form only at the answer to its own reading: what filled one form and
\* was dropped with it never comes back.  A reading that outlives its form may still fill
\* the next one (Form!ReadsStayHome does not hold).
THEOREM Forgotten ==
  ASSUME PagesAssumption
  PROVE  Spec => DroppedStaysOut
  <1>1. PagesInv /\ [Next]_vars => [page = "form" => Form!DroppedStaysOut]_vars
    BY FormFrame, FormStaysOut DEF PagesAssumption, PagesInv
  <1> QED
    BY <1>1, Invariant, PTL DEF Spec, DroppedStaysOut

\* The rules of the members page and of the server agree: what was offered is refused
\* only when a role has changed since.
THEOREM OfferedGranted ==
  ASSUME PagesAssumption
  PROVE  Spec => []OfferedIsGranted
  <1>1. PagesInv => OfferedIsGranted
    BY MembersPermitted DEF PagesInv, OfferedIsGranted
  <1> QED
    BY <1>1, Invariant, PTL

\* The creator of a workspace is its owner and nobody else is, though the role of the
\* caller is read before the member's, and offers are made from old lists.
THEOREM OneOwner ==
  ASSUME PagesAssumption
  PROVE  Spec => [](page = "members" => MembersCreatorOwns)
  <1>1. PagesInv => (page = "members" => MembersCreatorOwns)
    BY DEF PagesInv, MembersInv
  <1> QED
    BY <1>1, Invariant, PTL

\* The form that asks for consents again opens the app only when nothing is outdated but
\* what was published since the form was told which documents to ask for.
THEOREM GateKept ==
  ASSUME PagesAssumption
  PROVE  Spec => GateOpens
  <1>1. PagesInv /\ [Next]_vars => [page = "sign-in" => Entry!GateOpens]_vars
    BY EntryFrame, EntryOpened DEF PagesAssumption, PagesInv
  <1> QED
    BY <1>1, Invariant, PTL DEF Spec, GateOpens

\* A rule is deleted with its pending rows only where this dialog was told so: the
\* switch of an earlier one does not last.
THEOREM SwitchOwned ==
  ASSUME PagesAssumption
  PROVE  Spec => []SwitchIsOwn
  <1>1. PagesInv => SwitchIsOwn
    BY DEF PagesInv, RowsInv, SwitchIsOwn
  <1> QED
    BY <1>1, Invariant, PTL

\* Once the planned page waits for nothing it shows the rows as they are, unless an
\* answer was lost.
THEOREM CaughtUp ==
  ASSUME PagesAssumption
  PROVE  Spec => []RowsCaughtUp
  <1>1. PagesInv => RowsCaughtUp
    BY RowsShowLatest DEF PagesInv, RowsCaughtUp
  <1> QED
    BY <1>1, Invariant, PTL

\* Once nothing is on its way, the section of the default views offers to save exactly
\* what differs from the server, unless since the last fetch an answer was lost or a save
\* was answered before the query knew anything.
THEOREM Told ==
  ASSUME PagesAssumption
  PROVE  Spec => []ButtonTells
  <1>1. PagesInv => ButtonTells
    BY DefaultsTells DEF PagesAssumption, PagesInv, ButtonTells
  <1> QED
    BY <1>1, Invariant, PTL

\* Moves lock their rows in the order of the ids, so no two wait for each other, for any
\* number of rows and requests.
THEOREM LocksInOrder ==
  ASSUME PagesAssumption
  PROVE  Spec => []MovesNeverDeadlock
  <1>1. PagesInv => MovesNeverDeadlock
    BY MarksNeverDeadlock DEF PagesAssumption, PagesInv, MovesNeverDeadlock
  <1> QED
    BY <1>1, Invariant, PTL

\* An items table that was not edited shows the items as they were fetched last, unless
\* the transaction is an adjustment that lost its items.
THEOREM Unedited ==
  ASSUME PagesAssumption
  PROVE  Spec => []PristineShows
  <1>1. PagesInv => PristineShows
    BY ItemsPristine DEF PagesInv, PristineShows
  <1> QED
    BY <1>1, Invariant, PTL

\* A refetch takes no rows out of an items table that was edited.
THEOREM Edited ==
  ASSUME PagesAssumption
  PROVE  Spec => EditedRowsStay
  <1>1. PagesInv /\ [Next]_vars => [page = "items" => Items!EditedRowsStay]_vars
    BY ItemsFrame, ItemsRowsStay DEF PagesAssumption, PagesInv
  <1> QED
    BY <1>1, Invariant, PTL DEF Spec, EditedRowsStay

\* The page of a budget that clears its selection after a deletion, once the refetch it
\* waited for has succeeded, picks a period that is there.  After a failed refetch it may
\* pick the one that is gone (Board!PicksFresh does not hold).
THEOREM PicksExisting ==
  ASSUME PagesAssumption
  PROVE  Spec => NeverPicksDeleted
  <1>1. PagesInv /\ [Next]_vars => [page = "budget" => Board!NeverPicksDeleted]_vars
    BY BoardFrame, BoardPickedIsThere DEF PagesAssumption, PagesInv
  <1> QED
    BY <1>1, Invariant, PTL DEF Spec, NeverPicksDeleted

\* Accounts that arrive late replace nothing the user chose for a transfer.
THEOREM TypedStays ==
  ASSUME PagesAssumption
  PROVE  Spec => TypedSurvives
  <1>1. PagesInv /\ [Next]_vars => [page = "transfers" => Transfers!TypedSurvives]_vars
    BY TransfersFrame, TransfersTyping DEF PagesAssumption, PagesInv
  <1> QED
    BY <1>1, Invariant, PTL DEF Spec, TypedSurvives

\* What was cleared from the filters of a list is not filled in again by its defaults.
THEOREM StaysCleared ==
  ASSUME PagesAssumption
  PROVE  Spec => ClearedStays
  <1>1. PagesInv /\ [Next]_vars => [page = "lists" => Lists!ClearedStays]_vars
    BY ListsFrame, ListsCleared DEF PagesAssumption, PagesInv
  <1> QED
    BY <1>1, Invariant, PTL DEF Spec, ClearedStays

\* A search field follows the URL unless something was typed since.
THEOREM Followed ==
  ASSUME PagesAssumption
  PROVE  Spec => FieldFollows
  <1>1. PagesInv /\ [Next]_vars => [page = "lists" => Lists!FieldFollows]_vars
    BY ListsFrame, ListsFollows DEF PagesAssumption, PagesInv
  <1> QED
    BY <1>1, Invariant, PTL DEF Spec, FieldFollows

\* Escape closes the panel of a select, never the dialog around it.
THEOREM DialogKept ==
  ASSUME PagesAssumption
  PROVE  Spec => SelectKeepsDialog
  <1>1. PagesInv /\ [Next]_vars => [page = "listbox" => Panel!SelectKeepsDialog]_vars
    BY PanelFrame, PanelKeepsDialog DEF PagesAssumption, PagesInv
  <1> QED
    BY <1>1, Invariant, PTL DEF Spec, SelectKeepsDialog
=============================================================================
