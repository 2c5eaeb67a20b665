------------------------ MODULE TokenRenewal_proofs ------------------------
(***************************************************************************)
(* Theorems about TokenRenewal for any number of tabs, requests, tokens    *)
(* and expiries: the types, what ends a session, and that the interceptor  *)
(* of each tab implements SingleRenewal (all but its fairness).            *)
(***************************************************************************)
EXTENDS TokenRenewal, TLAPS

\* A tab that is not loaded has no requests.
Quiet == \A t \in Tabs : page[t] \in {"closed", "leaving"} => req[t] = AllIdle

\* Nobody waits for a refresh that does not run.
WaitsForRefresh ==
  \A t \in Tabs, s \in Slots : ~isRefreshing(t) => req[t][s].state \notin {"parked", "renewing"}

\* A refresh under way carries a token.
HasToken == \A t \in Tabs : refresh[t].state \in {"sent", "renewed"} => refresh[t].token \in Tokens

TypeInv == TypeOK /\ Quiet /\ WaitsForRefresh /\ HasToken

\* Until something happens that may end a session: the tabs that show the app have
\* tokens, one tab refreshes at a time, its token is good, and so is the stored one
\* unless its successor is on the way.
Kept ==
  /\ \A t \in Tabs : page[t] # "leaving"
  /\ \A t \in Tabs : page[t] \in {"splash", "app"} => storage # NoPair
  /\ \A t, u \in Tabs : isRefreshing(t) /\ isRefreshing(u) => t = u
  /\ \A t \in Tabs : refresh[t].state # "denied"
  /\ \A t \in Tabs : isRefreshing(t) => refresh[t].token \notin used
  /\ storage.refresh \in used => \E t \in Tabs : refresh[t].state = "renewed"

IInv == TypeInv /\ (~excused => Kept)

-----------------------------------------------------------------------------
(* Types.                                                                  *)

LEMMA PairFacts ==
  /\ NoPair \in Pair /\ NoPair.refresh = None /\ NoPair.live = FALSE
  /\ \A p \in Pair : p # NoPair => p.refresh \in Tokens
  /\ \A p \in Pair : p.refresh \in Tokens \cup {None} /\ p.live \in BOOLEAN
  /\ \A k \in Tokens, l \in BOOLEAN :
       [refresh |-> k, live |-> l] \in Pair /\ [refresh |-> k, live |-> l] # NoPair
  <1>1. NoPair \in Pair /\ NoPair.refresh = None /\ NoPair.live = FALSE
    BY DEF Pair, NoPair
  <1>2. \A p \in Pair : p = NoPair \/ p \in [refresh : Tokens, live : BOOLEAN]
    BY DEF Pair
  <1>3. \A k \in Tokens, l \in BOOLEAN : [refresh |-> k, live |-> l] \in Pair
    BY DEF Pair
  <1>4. \A k \in Tokens, l \in BOOLEAN : [refresh |-> k, live |-> l] # NoPair
    <2> SUFFICES ASSUME NEW k \in Tokens, NEW l \in BOOLEAN PROVE [refresh |-> k, live |-> l] # NoPair
      OBVIOUS
    <2>1. [refresh |-> k, live |-> l].refresh = k /\ k # None
      BY RenewalAssumption
    <2> QED
      BY <2>1, <1>1
  <1> QED
    BY <1>1, <1>2, <1>3, <1>4

LEMMA RequestFacts ==
  /\ Idle \in Request /\ Idle.state = "idle"
  /\ \A p, l \in BOOLEAN : Sending(p, l) \in Request /\ Sending(p, l).state = "sent"
  /\ \A r \in Request : r.state \in {"idle", "sent", "refused", "parked", "renewing"}
                        /\ r.live \in BOOLEAN /\ r.wrong \in BOOLEAN
  /\ AllIdle \in [Slots -> Request]
  /\ \A s \in Slots : AllIdle[s] = Idle
  BY DEF Idle, Sending, Request, AllIdle

LEMMA IdleFacts == Idle \in Request /\ Idle.state = "idle"
  BY RequestFacts

LEMMA RefreshFacts ==
  /\ NoRefresh \in Refresh /\ NoRefresh.state = "none"
  /\ Denied \in Refresh /\ Denied.state = "denied"
  /\ \A k \in Tokens, x \in {"sent", "renewed"} : [state |-> x, token |-> k] \in Refresh
  /\ \A r \in Refresh : /\ r.state \in {"none", "sent", "renewed", "denied"}
                        /\ r.token \in Tokens \cup {None}
  BY DEF NoRefresh, Denied, Refresh

LEMMA IssuedIsNew ==
  ASSUME CanIssue
  PROVE  Issued \in Tokens /\ Issued \notin Held
  BY DEF CanIssue, Issued

\* The actions that change requests of one tab, slot by slot.
LEMMA OneTabTyped ==
  ASSUME req \in [Tabs -> [Slots -> Request]], NEW t \in Tabs, NEW f \in [Slots -> Request]
  PROVE  [req EXCEPT ![t] = f] \in [Tabs -> [Slots -> Request]]
  OBVIOUS

LEMMA InitType == Init => TypeInv
  <1> SUFFICES ASSUME Init PROVE TypeInv
    OBVIOUS
  <1>1. storage \in Pair
    <2>1. (CHOOSE k \in Tokens : TRUE) \in Tokens
      BY RenewalAssumption
    <2> QED
      BY <2>1, PairFacts DEF Init, Pair, NoPair
  <1>2. TypeOK
    <2>1. /\ page \in [Tabs -> Pages] /\ header \in [Tabs -> BOOLEAN]
          /\ used \subseteq Tokens /\ excused \in BOOLEAN
      BY DEF Init, Pages
    <2>2. expiries \in 0..MaxExpiries
      BY RenewalAssumption DEF Init
    <2>3. req \in [Tabs -> [Slots -> Request]] /\ refresh \in [Tabs -> Refresh]
      BY RequestFacts, RefreshFacts DEF Init
    <2> QED
      BY <1>1, <2>1, <2>2, <2>3 DEF TypeOK
  <1>3. Quiet /\ WaitsForRefresh /\ HasToken
    BY RequestFacts, RefreshFacts DEF Init, Quiet, WaitsForRefresh, HasToken
  <1> QED
    BY <1>2, <1>3 DEF TypeInv

\* What a step has to show beside the types.
LEMMA TypeFrame ==
  ASSUME TypeInv, TypeOK',
         \A t \in Tabs : page'[t] \in {"closed", "leaving"} =>
           req'[t] = AllIdle \/ (page[t] \in {"closed", "leaving"} /\ req'[t] = req[t]),
         \A t \in Tabs, s \in Slots : req'[t][s].state \in {"parked", "renewing"} =>
           \/ refresh'[t].state # "none"
           \/ req[t][s].state \in {"parked", "renewing"} /\ refresh'[t].state = refresh[t].state,
         \A t \in Tabs : refresh'[t].state \in {"sent", "renewed"} =>
           refresh'[t].token \in Tokens \/ refresh'[t] = refresh[t]
  PROVE  TypeInv'
  <1>1. Quiet'
    BY DEF TypeInv, Quiet, AllIdle, Idle
  <1>2. WaitsForRefresh'
    BY DEF TypeInv, WaitsForRefresh, isRefreshing
  <1>3. HasToken'
    BY DEF TypeInv, HasToken
  <1> QED
    BY <1>1, <1>2, <1>3 DEF TypeInv

\* A request in one slot of one tab changes.
LEMMA OneSlot ==
  ASSUME TypeInv, NEW t \in Tabs, NEW s \in Slots, NEW r \in Request,
         req' = [req EXCEPT ![t][s] = r]
  PROVE  /\ req' \in [Tabs -> [Slots -> Request]]
         /\ req'[t][s] = r
         /\ \A u \in Tabs : u # t => req'[u] = req[u]
         /\ \A x \in Slots : x # s => req'[t][x] = req[t][x]
  BY DEF TypeInv, TypeOK

LEMMA LoadKeepsType ==
  ASSUME TypeInv, NEW t \in Tabs, loadUser(t)
  PROVE  TypeInv'
  <1> DEFINE first == CHOOSE s \in Slots : TRUE
  <1>1. first \in Slots
    BY RenewalAssumption
  <1>2. storage.live \in BOOLEAN /\ Sending(FALSE, storage.live) \in Request
    BY PairFacts, RequestFacts DEF TypeInv, TypeOK
  <1> HIDE DEF first
  <1>3. CASE storage = NoPair
    <2>1. TypeOK'
      BY <1>2, <1>3 DEF loadUser, TypeInv, TypeOK, Pages
    <2>2. req' = req /\ \A u \in Tabs : page'[u] = page[u] \/ page'[u] = "login"
      BY <1>3 DEF loadUser, TypeInv, TypeOK
    <2> QED
      BY <2>1, <2>2, TypeFrame DEF loadUser
  <1>4. CASE storage # NoPair
    <2>1. req' = [req EXCEPT ![t][first] = Sending(FALSE, storage.live)]
      BY <1>4 DEF loadUser, first
    <2>2. /\ req' \in [Tabs -> [Slots -> Request]]
          /\ req'[t][first] = Sending(FALSE, storage.live)
          /\ \A u \in Tabs : u # t => req'[u] = req[u]
          /\ \A x \in Slots : x # first => req'[t][x] = req[t][x]
      BY <1>1, <1>2, <2>1, OneSlot
    <2>3. TypeOK'
      BY <1>2, <1>4, <2>2 DEF loadUser, TypeInv, TypeOK, Pages
    <2>4. /\ \A u \in Tabs : u # t => page'[u] = page[u]
          /\ page'[t] = "splash"
      BY <1>4 DEF loadUser, TypeInv, TypeOK
    <2>5. Sending(FALSE, storage.live).state = "sent"
      BY DEF Sending
    <2> QED
      BY <2>2, <2>3, <2>4, <2>5, TypeFrame DEF loadUser
  <1> QED
    BY <1>3, <1>4

LEMMA ReloadKeepsType ==
  ASSUME TypeInv, NEW t \in Tabs, Reload(t)
  PROVE  TypeInv'
  <1>1. req' = [req EXCEPT ![t] = AllIdle] /\ req' \in [Tabs -> [Slots -> Request]]
    BY RequestFacts DEF Reload, TypeInv, TypeOK
  <1>2. used' \subseteq Tokens
    BY DEF Reload, TypeInv, TypeOK, HasToken, Remembered
  <1>3. TypeOK'
    BY <1>1, <1>2, RefreshFacts DEF Reload, TypeInv, TypeOK, Pages, isRefreshing
  <1>4. /\ \A u \in Tabs : u # t => req'[u] = req[u] /\ page'[u] = page[u] /\ refresh'[u] = refresh[u]
        /\ req'[t] = AllIdle /\ refresh'[t] = NoRefresh
    BY DEF Reload, TypeInv, TypeOK
  <1>5. \A s \in Slots : req'[t][s].state = "idle"
    BY <1>4, RequestFacts
  <1>6. refresh'[t].state = "none"
    BY <1>4, RefreshFacts
  <1>7. \A u \in Tabs : page'[u] \in {"closed", "leaving"} =>
          req'[u] = AllIdle \/ (page[u] \in {"closed", "leaving"} /\ req'[u] = req[u])
    BY <1>4
  <1>8. \A u \in Tabs, s \in Slots : req'[u][s].state \in {"parked", "renewing"} =>
          req[u][s].state \in {"parked", "renewing"} /\ refresh'[u].state = refresh[u].state
    BY <1>4, <1>5
  <1>9. \A u \in Tabs : refresh'[u].state \in {"sent", "renewed"} => refresh'[u] = refresh[u]
    BY <1>4, <1>6
  <1> QED
    BY <1>3, <1>7, <1>8, <1>9, TypeFrame

LEMMA SendKeepsType ==
  ASSUME TypeInv, NEW t \in Tabs, NEW s \in Slots, Send(t, s)
  PROVE  TypeInv'
  <1>1. PICK p \in {FALSE, WrongPasswords} : req' = [req EXCEPT ![t][s] = Sending(p, header[t])]
    BY DEF Send
  <1>2. Sending(p, header[t]) \in Request /\ Sending(p, header[t]).state = "sent"
    BY RequestFacts, RenewalAssumption DEF TypeInv, TypeOK
  <1>3. /\ req' \in [Tabs -> [Slots -> Request]]
        /\ req'[t][s] = Sending(p, header[t])
        /\ \A u \in Tabs : u # t => req'[u] = req[u]
        /\ \A x \in Slots : x # s => req'[t][x] = req[t][x]
    BY <1>1, <1>2, OneSlot
  <1>4. TypeOK'
    BY <1>3 DEF Send, TypeInv, TypeOK
  <1>5. \A u \in Tabs, x \in Slots : req'[u][x].state = "sent" \/ req'[u][x] = req[u][x]
    BY <1>2, <1>3
  <1>6. \A u \in Tabs : page'[u] \in {"closed", "leaving"} =>
          page[u] \in {"closed", "leaving"} /\ req'[u] = req[u]
    BY <1>3 DEF Send
  <1> QED
    BY <1>4, <1>5, <1>6, TypeFrame DEF Send

LEMMA SignInKeepsType ==
  ASSUME TypeInv, NEW t \in Tabs, signIn(t)
  PROVE  TypeInv'
  <1>1. Issued \in Tokens
    BY IssuedIsNew DEF signIn
  <1>2. TypeOK'
    BY <1>1, PairFacts DEF signIn, TypeInv, TypeOK, Pages, Remembered
  <1>3. \A u \in Tabs : page'[u] = page[u] \/ page'[u] = "app"
    BY DEF signIn, TypeInv, TypeOK
  <1> QED
    BY <1>2, <1>3, TypeFrame DEF signIn

LEMMA LogoutKeepsType ==
  ASSUME TypeInv, NEW t \in Tabs, logout(t)
  PROVE  TypeInv'
  <1>1. TypeOK'
    BY PairFacts DEF logout, clearAuthToken, TypeInv, TypeOK, Pages, Remembered
  <1>2. \A u \in Tabs : page'[u] = page[u] \/ page'[u] = "login"
    BY DEF logout, TypeInv, TypeOK
  <1> QED
    BY <1>1, <1>2, TypeFrame DEF logout

LEMMA ServeKeepsType ==
  ASSUME TypeInv, NEW t \in Tabs, NEW s \in Slots, Answered(t, s), page[t] \notin {"closed", "leaving"},
         refresh' = refresh, used' \subseteq Tokens, excused' \in BOOLEAN,
         UNCHANGED <<storage, header, expiries>>
  PROVE  TypeInv'
  <1>1. /\ req' \in [Tabs -> [Slots -> Request]]
        /\ req'[t][s] = Idle
        /\ \A u \in Tabs : u # t => req'[u] = req[u]
        /\ \A x \in Slots : x # s => req'[t][x] = req[t][x]
    BY IdleFacts, OneSlot DEF Answered
  <1>2. /\ page' \in [Tabs -> Pages]
        /\ \A u \in Tabs : page'[u] = page[u] \/ (u = t /\ page'[u] = "app")
    <2>1. CASE page[t] = "splash"
      BY <2>1 DEF Answered, TypeInv, TypeOK, Pages
    <2>2. CASE page[t] # "splash"
      BY <2>2 DEF Answered, TypeInv, TypeOK, Pages
    <2> QED
      BY <2>1, <2>2
  <1>3. TypeOK'
    BY <1>1, <1>2 DEF TypeInv, TypeOK
  <1>4. \A u \in Tabs, x \in Slots : req'[u][x].state = "idle" \/ req'[u][x] = req[u][x]
    BY <1>1, IdleFacts
  <1>5. \A u \in Tabs : page'[u] \in {"closed", "leaving"} =>
          page[u] \in {"closed", "leaving"} /\ req'[u] = req[u]
    BY <1>1, <1>2
  <1> QED
    BY <1>3, <1>4, <1>5, TypeFrame

\* A tab without requests sent none.
LEMMA BusyTabs ==
  ASSUME TypeInv, NEW t \in Tabs, NEW s \in Slots, req[t][s].state # "idle"
  PROVE  page[t] \notin {"closed", "leaving"}
  BY RequestFacts DEF TypeInv, Quiet

LEMMA RefuseKeepsType ==
  ASSUME TypeInv, NEW t \in Tabs, NEW s \in Slots, Refuse(t, s)
  PROVE  TypeInv'
  <1> DEFINE r == [req[t][s] EXCEPT !.state = "refused", !.live = FALSE]
  <1>1. r \in Request /\ r.state = "refused"
    <2>1. req[t][s] \in Request
      BY DEF TypeInv, TypeOK
    <2> QED
      BY <2>1 DEF Request
  <1>2. req' = [req EXCEPT ![t][s] = r]
    BY DEF Refuse, TypeInv, TypeOK
  <1> HIDE DEF r
  <1>3. /\ req' \in [Tabs -> [Slots -> Request]]
        /\ req'[t][s] = r
        /\ \A u \in Tabs : u # t => req'[u] = req[u]
        /\ \A x \in Slots : x # s => req'[t][x] = req[t][x]
    BY <1>1, <1>2, OneSlot
  <1>4. TypeOK'
    BY <1>3 DEF Refuse, TypeInv, TypeOK
  <1>5. \A u \in Tabs, x \in Slots : req'[u][x].state = "refused" \/ req'[u][x] = req[u][x]
    BY <1>1, <1>3
  <1>6. \A u \in Tabs : page'[u] \in {"closed", "leaving"} =>
          page[u] \in {"closed", "leaving"} /\ req'[u] = req[u]
    BY <1>3, BusyTabs DEF Refuse
  <1> QED
    BY <1>4, <1>5, <1>6, TypeFrame DEF Refuse

LEMMA LoadFailsKeepsType ==
  ASSUME TypeInv, NEW t \in Tabs, NEW s \in Slots, LoadFails(t, s)
  PROVE  TypeInv'
  <1>1. /\ req' \in [Tabs -> [Slots -> Request]]
        /\ req'[t][s] = Idle
        /\ \A u \in Tabs : u # t => req'[u] = req[u]
        /\ \A x \in Slots : x # s => req'[t][x] = req[t][x]
    BY IdleFacts, OneSlot DEF LoadFails
  <1>2. TypeOK'
    BY <1>1, PairFacts DEF LoadFails, clearAuthToken, TypeInv, TypeOK, Pages, Remembered
  <1>3. \A u \in Tabs, x \in Slots : req'[u][x].state = "idle" \/ req'[u][x] = req[u][x]
    BY <1>1, IdleFacts
  <1>4. \A u \in Tabs : page'[u] \in {"closed", "leaving"} =>
          page[u] \in {"closed", "leaving"} /\ req'[u] = req[u]
    BY <1>1 DEF LoadFails, TypeInv, TypeOK
  <1> QED
    BY <1>2, <1>3, <1>4, TypeFrame DEF LoadFails

LEMMA ServeRefreshKeepsType ==
  ASSUME TypeInv, NEW t \in Tabs, ServeRefresh(t) \/ LoseRefresh(t)
  PROVE  TypeInv'
  <1>1. refresh[t].state \in {"sent", "renewed"} /\ refresh[t].token \in Tokens
    BY DEF ServeRefresh, LoseRefresh, TypeInv, HasToken
  <1>2. PICK r \in Refresh :
          /\ refresh' = [refresh EXCEPT ![t] = r]
          /\ r.state # "none" /\ (r.state # "denied" => r.token \in Tokens)
    <2>1. CASE refresh' = [refresh EXCEPT ![t] = Denied]
      BY <2>1, RefreshFacts
    <2>2. CASE refresh' = [refresh EXCEPT ![t] = [state |-> "renewed", token |-> Issued]] /\ CanIssue
      BY <2>2, RefreshFacts, IssuedIsNew
    <2> QED
      BY <2>1, <2>2 DEF ServeRefresh, LoseRefresh
  <1>3. used' \subseteq Tokens /\ excused' \in BOOLEAN
    BY <1>1 DEF ServeRefresh, LoseRefresh, TypeInv, TypeOK, Remembered
  <1>4. TypeOK'
    BY <1>2, <1>3 DEF ServeRefresh, LoseRefresh, TypeInv, TypeOK
  <1>5. refresh'[t] = r /\ \A u \in Tabs : u # t => refresh'[u] = refresh[u]
    BY <1>2 DEF TypeInv, TypeOK
  <1> QED
    BY <1>2, <1>4, <1>5, TypeFrame DEF ServeRefresh, LoseRefresh

LEMMA ExpireKeepsType ==
  ASSUME TypeInv, Expire
  PROVE  TypeInv'
  <1>1. /\ req' \in [Tabs -> [Slots -> Request]]
        /\ \A t \in Tabs, s \in Slots : /\ req'[t][s] = [req[t][s] EXCEPT !.live = FALSE]
                                        /\ req'[t][s].state = req[t][s].state
    <2>1. req' = [t \in Tabs |-> [s \in Slots |-> [req[t][s] EXCEPT !.live = FALSE]]]
      BY DEF Expire
    <2>2. ASSUME NEW r \in Request
          PROVE  [r EXCEPT !.live = FALSE] \in Request /\ [r EXCEPT !.live = FALSE].state = r.state
      BY DEF Request
    <2>3. \A t \in Tabs, s \in Slots : req[t][s] \in Request
      BY DEF TypeInv, TypeOK
    <2>4. \A t \in Tabs, s \in Slots : req'[t][s] = [req[t][s] EXCEPT !.live = FALSE]
      BY <2>1
    <2>5. \A t \in Tabs, s \in Slots :
            [req[t][s] EXCEPT !.live = FALSE] \in Request /\ [req[t][s] EXCEPT !.live = FALSE].state = req[t][s].state
      BY <2>2, <2>3, Zenon
    <2>6. \A t \in Tabs, s \in Slots : req'[t][s] \in Request /\ req'[t][s].state = req[t][s].state
      BY <2>4, <2>5, Zenon
    <2>7. req' \in [Tabs -> [Slots -> Request]]
      <3> DEFINE g == [t \in Tabs |-> [s \in Slots |-> [req[t][s] EXCEPT !.live = FALSE]]]
      <3>1. \A t \in Tabs : g[t] \in [Slots -> Request]
        <4> SUFFICES ASSUME NEW t \in Tabs PROVE g[t] \in [Slots -> Request]
          OBVIOUS
        <4>1. g[t] = [s \in Slots |-> [req[t][s] EXCEPT !.live = FALSE]]
          BY Zenon
        <4>2. \A s \in Slots : [req[t][s] EXCEPT !.live = FALSE] \in Request
          BY <2>5, Zenon
        <4> QED
          BY <4>1, <4>2, Zenon
      <3>2. g = [t \in Tabs |-> g[t]]
        BY Zenon
      <3> HIDE DEF g
      <3>3. g \in [Tabs -> [Slots -> Request]]
        BY <3>1, <3>2, Zenon
      <3> QED
        BY <2>1, <3>3, Zenon DEF g
    <2> QED
      BY <2>4, <2>6, <2>7, Zenon
  <1>2. storage' \in Pair
    <2>1. storage' = [storage EXCEPT !.live = FALSE]
      BY DEF Expire
    <2>2. storage = NoPair \/ storage \in [refresh : Tokens, live : BOOLEAN]
      BY DEF TypeInv, TypeOK, Pair
    <2>3. CASE storage = NoPair
      BY <2>1, <2>3 DEF NoPair, Pair
    <2>4. CASE storage \in [refresh : Tokens, live : BOOLEAN]
      <3>1. storage' \in [refresh : Tokens, live : BOOLEAN]
        BY <2>1, <2>4
      <3> QED
        BY <3>1 DEF Pair
    <2> QED
      BY <2>2, <2>3, <2>4
  <1>3. expiries' \in 0..MaxExpiries
    BY RenewalAssumption DEF Expire, TypeInv, TypeOK
  <1>4. TypeOK'
    BY <1>1, <1>2, <1>3 DEF Expire, TypeInv, TypeOK
  <1>5. ASSUME NEW t \in Tabs, req[t] = AllIdle PROVE req'[t] = AllIdle
    <2>1. \A s \in Slots : req[t][s] = Idle
      BY <1>5, RequestFacts
    <2>2. [Idle EXCEPT !.live = FALSE] = Idle
      <3>1. [Idle EXCEPT !.live = FALSE] \in Request
        BY IdleFacts DEF Request
      <3>2. /\ [Idle EXCEPT !.live = FALSE].state = Idle.state
            /\ [Idle EXCEPT !.live = FALSE].live = Idle.live
            /\ [Idle EXCEPT !.live = FALSE].wrong = Idle.wrong
        BY DEF Idle
      <3>3. \A r, q \in Request : r.state = q.state /\ r.live = q.live /\ r.wrong = q.wrong => r = q
        BY DEF Request
      <3> QED
        BY <3>1, <3>2, <3>3, IdleFacts
    <2>3. req'[t] \in [Slots -> Request] /\ \A s \in Slots : req'[t][s] = Idle
      BY <1>1, <2>1, <2>2
    <2> QED
      BY <2>3 DEF AllIdle
  <1> QED
    BY <1>1, <1>4, <1>5, TypeFrame DEF Expire, TypeInv, Quiet

LEMMA Rejects ==
  ASSUME TypeInv, NEW t \in Tabs, NEW S, Reject(t, S)
  PROVE  /\ req' \in [Tabs -> [Slots -> Request]] /\ page' \in [Tabs -> Pages]
         /\ \A u \in Tabs : u # t => req'[u] = req[u] /\ page'[u] = page[u]
         /\ \A s \in Slots : req'[t][s] = Idle \/ (s \notin S /\ page[t] = "login" /\ req'[t][s] = req[t][s])
         /\ page[t] = "login" => page'[t] = "login"
         /\ page[t] # "login" => page'[t] = "leaving" /\ req'[t] = AllIdle
  <1>1. CASE page[t] = "login"
    <2> DEFINE f == [s \in Slots |-> IF s \in S THEN Idle ELSE req[t][s]]
    <2>1. f \in [Slots -> Request] /\ \A s \in Slots : f[s] = Idle \/ (s \notin S /\ f[s] = req[t][s])
      BY IdleFacts DEF TypeInv, TypeOK
    <2>2. req' = [req EXCEPT ![t] = f] /\ page' = page
      BY <1>1 DEF Reject, TypeInv, TypeOK
    <2> HIDE DEF f
    <2> QED
      BY <1>1, <2>1, <2>2 DEF TypeInv, TypeOK
  <1>2. CASE page[t] # "login"
    <2>1. req' = [req EXCEPT ![t] = AllIdle] /\ page' = [page EXCEPT ![t] = "leaving"]
      BY <1>2 DEF Reject
    <2> QED
      BY <1>2, <2>1, RequestFacts DEF TypeInv, TypeOK, Pages
  <1> QED
    BY <1>1, <1>2

LEMMA NoRefreshTokenKeepsType ==
  ASSUME TypeInv, NEW t \in Tabs, NEW s \in Slots, NoRefreshToken(t, s)
  PROVE  TypeInv'
  <1>1. Reject(t, {s}) /\ req[t][s].state = "refused"
    BY DEF NoRefreshToken, Refused
  <1>2. /\ req' \in [Tabs -> [Slots -> Request]] /\ page' \in [Tabs -> Pages]
        /\ \A u \in Tabs : u # t => req'[u] = req[u] /\ page'[u] = page[u]
        /\ \A x \in Slots : req'[t][x] = Idle \/ (page[t] = "login" /\ req'[t][x] = req[t][x])
        /\ page[t] = "login" => page'[t] = "login"
        /\ page[t] # "login" => page'[t] = "leaving" /\ req'[t] = AllIdle
    BY <1>1, Rejects
  <1>3. /\ refresh' \in [Tabs -> Refresh]
        /\ \A u \in Tabs : refresh'[u] = refresh[u] \/ (u = t /\ page[t] # "login" /\ refresh'[u] = NoRefresh)
    BY RefreshFacts DEF NoRefreshToken, TypeInv, TypeOK
  <1>4. TypeOK'
    BY <1>2, <1>3, PairFacts DEF NoRefreshToken, clearAuthToken, TypeInv, TypeOK, Remembered
  <1>5. \A u \in Tabs : page'[u] \in {"closed", "leaving"} =>
          req'[u] = AllIdle \/ (page[u] \in {"closed", "leaving"} /\ req'[u] = req[u])
    BY <1>2
  <1>6. \A u \in Tabs, x \in Slots : req'[u][x].state \in {"parked", "renewing"} =>
          req[u][x].state \in {"parked", "renewing"} /\ refresh'[u].state = refresh[u].state
    BY <1>2, <1>3, IdleFacts
  <1>7. \A u \in Tabs : refresh'[u].state \in {"sent", "renewed"} => refresh'[u] = refresh[u]
    BY <1>3, RefreshFacts
  <1> QED
    BY <1>4, <1>5, <1>6, <1>7, TypeFrame

\* A refused request waits.
LEMMA Waits ==
  \A t \in Tabs, s \in Slots, x \in {"parked", "renewing"} :
    TypeInv /\ req' = [req EXCEPT ![t][s].state = x] =>
      /\ req' \in [Tabs -> [Slots -> Request]]
      /\ \A u \in Tabs : u # t => req'[u] = req[u]
      /\ \A y \in Slots : y # s => req'[t][y] = req[t][y]
      /\ req'[t][s].state = x
  <1> TAKE t \in Tabs, s \in Slots, x \in {"parked", "renewing"}
  <1>1. HAVE TypeInv /\ req' = [req EXCEPT ![t][s].state = x]
  <1>2. req \in [Tabs -> [Slots -> Request]] /\ req[t][s] \in Request
    BY <1>1 DEF TypeInv, TypeOK
  <1>3. PICK r \in Request : r = [req[t][s] EXCEPT !.state = x]
    BY <1>2 DEF Request
  <1>4. r.state = x
    BY <1>2, <1>3 DEF Request
  <1>5. req' = [req EXCEPT ![t][s] = r]
    BY <1>1, <1>2, <1>3
  <1> QED
    BY <1>2, <1>4, <1>5

LEMMA ParkKeepsType ==
  ASSUME TypeInv, NEW t \in Tabs, NEW s \in Slots, Park(t, s)
  PROVE  TypeInv'
  <1>1. req' = [req EXCEPT ![t][s].state = "parked"] /\ req[t][s].state = "refused"
    BY DEF Park, Refused
  <1>2. /\ req' \in [Tabs -> [Slots -> Request]]
        /\ \A u \in Tabs : u # t => req'[u] = req[u]
        /\ \A y \in Slots : y # s => req'[t][y] = req[t][y]
    <2>1. "renewing" \in {"parked", "renewing"}
      OBVIOUS
    <2> QED
      BY <1>1, <2>1, Waits
  <1>3. TypeOK'
    BY <1>2 DEF Park, TypeInv, TypeOK
  <1>4. page[t] \notin {"closed", "leaving"}
    BY <1>1, BusyTabs
  <1>5. \A u \in Tabs : page'[u] \in {"closed", "leaving"} =>
          page[u] \in {"closed", "leaving"} /\ req'[u] = req[u]
    BY <1>2, <1>4 DEF Park
  <1>6. \A u \in Tabs, y \in Slots : req'[u][y].state \in {"parked", "renewing"} =>
          \/ refresh'[u].state # "none"
          \/ req[u][y].state \in {"parked", "renewing"} /\ refresh'[u].state = refresh[u].state
    BY <1>2 DEF Park, isRefreshing
  <1> QED
    BY <1>3, <1>5, <1>6, TypeFrame DEF Park

LEMMA BeginRefreshKeepsType ==
  ASSUME TypeInv, NEW t \in Tabs, NEW s \in Slots, BeginRefresh(t, s)
  PROVE  TypeInv'
  <1>1. /\ req' = [req EXCEPT ![t][s].state = "renewing"] /\ req[t][s].state = "refused"
        /\ storage.refresh \in Tokens
    BY PairFacts DEF BeginRefresh, Refused, TypeInv, TypeOK
  <1>2. /\ req' \in [Tabs -> [Slots -> Request]]
        /\ \A u \in Tabs : u # t => req'[u] = req[u]
        /\ \A y \in Slots : y # s => req'[t][y] = req[t][y]
    <2>1. "renewing" \in {"parked", "renewing"}
      OBVIOUS
    <2> QED
      BY <1>1, <2>1, Waits
  <1> DEFINE r == [state |-> "sent", token |-> storage.refresh]
  <1>3. r \in Refresh /\ r.state = "sent" /\ r.token \in Tokens
    BY <1>1, RefreshFacts
  <1>4. refresh' = [refresh EXCEPT ![t] = r]
    BY DEF BeginRefresh
  <1> HIDE DEF r
  <1>5. /\ refresh' \in [Tabs -> Refresh] /\ refresh'[t] = r
        /\ \A u \in Tabs : u # t => refresh'[u] = refresh[u]
    BY <1>3, <1>4 DEF TypeInv, TypeOK
  <1>6. TypeOK'
    BY <1>2, <1>5 DEF BeginRefresh, TypeInv, TypeOK
  <1>7. page[t] \notin {"closed", "leaving"}
    BY <1>1, BusyTabs
  <1>8. \A u \in Tabs : page'[u] \in {"closed", "leaving"} =>
          page[u] \in {"closed", "leaving"} /\ req'[u] = req[u]
    BY <1>2, <1>7 DEF BeginRefresh
  <1>9. \A u \in Tabs, y \in Slots : req'[u][y].state \in {"parked", "renewing"} =>
          \/ refresh'[u].state # "none"
          \/ req[u][y].state \in {"parked", "renewing"} /\ refresh'[u].state = refresh[u].state
    BY <1>2, <1>3, <1>5
  <1> QED
    BY <1>3, <1>5, <1>6, <1>8, <1>9, TypeFrame

LEMMA RenewedKeepsType ==
  ASSUME TypeInv, NEW t \in Tabs, Renewed(t)
  PROVE  TypeInv'
  <1> DEFINE f == [s \in Slots |-> IF s \in Waiting(t) THEN Sending(req[t][s].wrong, TRUE) ELSE req[t][s]]
  <1>1. /\ f \in [Slots -> Request]
        /\ \A s \in Slots : f[s].state = "sent" \/ (s \notin Waiting(t) /\ f[s] = req[t][s])
    <2>1. \A s \in Slots : req[t][s] \in Request /\ req[t][s].wrong \in BOOLEAN
      BY RequestFacts DEF TypeInv, TypeOK
    <2>2. \A s \in Slots : /\ Sending(req[t][s].wrong, TRUE) \in Request
                           /\ Sending(req[t][s].wrong, TRUE).state = "sent"
      BY <2>1, RequestFacts
    <2> QED
      BY <2>1, <2>2
  <1>2. req' = [req EXCEPT ![t] = f]
    BY DEF Renewed, TypeInv, TypeOK
  <1>3. page[t] \in {"closed", "leaving"} => f = req[t]
    <2> SUFFICES ASSUME page[t] \in {"closed", "leaving"} PROVE f = req[t]
      OBVIOUS
    <2>1. \A s \in Slots : req[t][s].state = "idle"
      BY RequestFacts DEF TypeInv, Quiet
    <2>2. Waiting(t) = {}
      BY <2>1 DEF Waiting
    <2> QED
      BY <2>2 DEF TypeInv, TypeOK
  <1> HIDE DEF f
  <1>4. /\ req' \in [Tabs -> [Slots -> Request]] /\ req'[t] = f
        /\ \A u \in Tabs : u # t => req'[u] = req[u]
    BY <1>1, <1>2 DEF TypeInv, TypeOK
  <1>5. /\ refresh' \in [Tabs -> Refresh] /\ refresh'[t] = NoRefresh
        /\ \A u \in Tabs : u # t => refresh'[u] = refresh[u]
    BY RefreshFacts DEF Renewed, TypeInv, TypeOK
  <1>6. storage' \in Pair /\ header' \in [Tabs -> BOOLEAN]
    BY PairFacts DEF Renewed, TypeInv, TypeOK, HasToken
  <1>7. TypeOK'
    BY <1>4, <1>5, <1>6 DEF Renewed, TypeInv, TypeOK, Remembered
  <1>8. \A s \in Slots : req'[t][s].state \notin {"parked", "renewing"}
    BY <1>1, <1>4 DEF Waiting
  <1>9. \A u \in Tabs : page'[u] \in {"closed", "leaving"} =>
          page[u] \in {"closed", "leaving"} /\ req'[u] = req[u]
    BY <1>3, <1>4 DEF Renewed
  <1> QED
    BY <1>4, <1>5, <1>7, <1>8, <1>9, RefreshFacts, TypeFrame

LEMMA RefreshFailedKeepsType ==
  ASSUME TypeInv, NEW t \in Tabs, RefreshFailed(t)
  PROVE  TypeInv'
  <1>1. Reject(t, Waiting(t))
    BY DEF RefreshFailed
  <1>2. /\ req' \in [Tabs -> [Slots -> Request]] /\ page' \in [Tabs -> Pages]
        /\ \A u \in Tabs : u # t => req'[u] = req[u] /\ page'[u] = page[u]
        /\ \A x \in Slots : req'[t][x] = Idle \/ (x \notin Waiting(t) /\ req'[t][x] = req[t][x])
        /\ page[t] = "login" => page'[t] = "login"
        /\ page[t] # "login" => page'[t] = "leaving" /\ req'[t] = AllIdle
    BY <1>1, Rejects
  <1>3. /\ refresh' \in [Tabs -> Refresh] /\ refresh'[t] = NoRefresh
        /\ \A u \in Tabs : u # t => refresh'[u] = refresh[u]
    BY RefreshFacts DEF RefreshFailed, TypeInv, TypeOK
  <1>4. TypeOK'
    BY <1>2, <1>3, PairFacts DEF RefreshFailed, clearAuthToken, TypeInv, TypeOK, Remembered
  <1>5. \A s \in Slots : req'[t][s].state \notin {"parked", "renewing"}
    BY <1>2, IdleFacts DEF Waiting
  <1>6. \A u \in Tabs : page'[u] \in {"closed", "leaving"} =>
          req'[u] = AllIdle \/ (page[u] \in {"closed", "leaving"} /\ req'[u] = req[u])
    BY <1>2
  <1> QED
    BY <1>2, <1>3, <1>4, <1>5, <1>6, RefreshFacts, TypeFrame

LEMMA NextKeepsType == TypeInv /\ [Next]_vars => TypeInv'
  <1> SUFFICES ASSUME TypeInv, [Next]_vars PROVE TypeInv'
    OBVIOUS
  <1>1. CASE UNCHANGED vars
    BY <1>1 DEF vars, TypeInv, TypeOK, Quiet, WaitsForRefresh, HasToken, isRefreshing
  <1>2. CASE Expire
    BY <1>2, ExpireKeepsType
  <1>3. ASSUME NEW t \in Tabs, loadUser(t) \/ Reload(t) \/ signIn(t) \/ logout(t)
        PROVE  TypeInv'
    BY <1>3, LoadKeepsType, ReloadKeepsType, SignInKeepsType, LogoutKeepsType
  <1>4. ASSUME NEW t \in Tabs, ServeRefresh(t) \/ LoseRefresh(t) \/ Conclude(t)
        PROVE  TypeInv'
    BY <1>4, ServeRefreshKeepsType, RenewedKeepsType, RefreshFailedKeepsType DEF Conclude
  <1>5. ASSUME NEW t \in Tabs, NEW s \in Slots, Serve(t, s) \/ ServePassword(t, s)
        PROVE  TypeInv'
    <2>1. page[t] \notin {"closed", "leaving"}
      BY <1>5, BusyTabs DEF Serve, ServePassword
    <2>2. used' \subseteq Tokens /\ excused' \in BOOLEAN
      BY <1>5 DEF Serve, ServePassword, TypeInv, TypeOK
    <2> QED
      BY <1>5, <2>1, <2>2, ServeKeepsType DEF Serve, ServePassword
  <1>6. ASSUME NEW t \in Tabs, NEW s \in Slots, Send(t, s) \/ LoadFails(t, s) \/ Refuse(t, s)
        PROVE  TypeInv'
    BY <1>6, SendKeepsType, LoadFailsKeepsType, RefuseKeepsType
  <1>7. ASSUME NEW t \in Tabs, NEW s \in Slots, Handle(t, s)
        PROVE  TypeInv'
    BY <1>7, NoRefreshTokenKeepsType, ParkKeepsType, BeginRefreshKeepsType DEF Handle
  <1> QED
    BY <1>1, <1>2, <1>3, <1>4, <1>5, <1>6, <1>7 DEF Next, Answer

\* Every variable keeps its type: for any number of tabs, requests and tokens.
THEOREM TypeCorrect == Spec => []TypeOK
  <1>1. TypeInv => TypeOK
    BY DEF TypeInv
  <1> QED
    BY <1>1, InitType, NextKeepsType, PTL DEF Spec

-----------------------------------------------------------------------------
(* What ends a session.                                                    *)

LEMMA InitKept == Init => Kept
  BY RefreshFacts DEF Init, Kept, isRefreshing

\* The tokens and the refreshes stay as they are.
LEMMA KeptFrame ==
  ASSUME Kept, storage' = storage, refresh' = refresh, used' \subseteq used,
         \A t \in Tabs : /\ page'[t] # "leaving"
                         /\ page'[t] \in {"splash", "app"} =>
                              page[t] \in {"splash", "app"} \/ storage # NoPair
  PROVE  Kept'
  BY DEF Kept, isRefreshing

LEMMA LoadKept ==
  ASSUME TypeInv, Kept, NEW t \in Tabs, loadUser(t)
  PROVE  Kept'
  <1>1. \A u \in Tabs : \/ page'[u] = page[u]
                        \/ page'[u] = "login"
                        \/ page'[u] = "splash" /\ storage # NoPair
    BY DEF loadUser, TypeInv, TypeOK
  <1>2. \A u \in Tabs : page[u] # "leaving"
    BY DEF Kept
  <1> QED
    BY <1>1, <1>2, KeptFrame DEF loadUser

LEMMA ReloadKept ==
  ASSUME TypeInv, Kept, NEW t \in Tabs, Reload(t), ~excused'
  PROVE  Kept'
  <1>1. refresh[t].state = "none" /\ used' \subseteq used
    BY DEF Reload, isRefreshing, Remembered
  <1>2. /\ refresh'[t].state = "none"
        /\ \A u \in Tabs : u # t => refresh'[u] = refresh[u]
    BY RefreshFacts DEF Reload, TypeInv, TypeOK
  <1>3. \A u \in Tabs : page'[u] = page[u] \/ page'[u] = "closed"
    BY DEF Reload, TypeInv, TypeOK
  <1>4. storage' = storage
    BY DEF Reload
  <1> QED
    BY <1>1, <1>2, <1>3, <1>4 DEF Kept, isRefreshing

LEMMA SignInKept ==
  ASSUME TypeInv, Kept, NEW t \in Tabs, signIn(t)
  PROVE  Kept'
  <1>1. /\ storage' = [refresh |-> Issued, live |-> TRUE] /\ storage' # NoPair
        /\ storage'.refresh = Issued
    BY IssuedIsNew, PairFacts DEF signIn
  <1>2. used' \subseteq used \ {Issued} /\ refresh' = refresh
    BY DEF signIn, Remembered
  <1>3. \A u \in Tabs : page'[u] = page[u] \/ page'[u] = "app"
    BY DEF signIn, TypeInv, TypeOK
  <1> QED
    BY <1>1, <1>2, <1>3 DEF Kept, isRefreshing

\* A token that was good before is answered with another one.
LEMMA ServeRefreshKept ==
  ASSUME TypeInv, Kept, NEW t \in Tabs, ServeRefresh(t)
  PROVE  Kept'
  <1>1. refresh[t].state = "sent" /\ refresh[t].token \notin used
    BY DEF ServeRefresh, Kept, isRefreshing
  <1>2. /\ CanIssue
        /\ refresh' = [refresh EXCEPT ![t] = [state |-> "renewed", token |-> Issued]]
        /\ used' \subseteq (used \cup {refresh[t].token}) \ {Issued}
    BY <1>1 DEF ServeRefresh, Remembered
  <1>3. /\ refresh'[t].state = "renewed" /\ refresh'[t].token = Issued
        /\ \A u \in Tabs : u # t => refresh'[u] = refresh[u]
    BY <1>2 DEF TypeInv, TypeOK
  <1>4. Issued \notin used'
    BY <1>2, IssuedIsNew
  <1>5. \A u \in Tabs : u # t => refresh[u].state = "none"
    BY <1>1 DEF Kept, isRefreshing
  <1>6. storage' = storage /\ page' = page
    BY DEF ServeRefresh
  <1> QED
    BY <1>3, <1>4, <1>5, <1>6 DEF Kept, isRefreshing

LEMMA ExpireKept ==
  ASSUME TypeInv, Kept, Expire
  PROVE  Kept'
  <1>1. storage' = [storage EXCEPT !.live = FALSE]
    BY DEF Expire
  <1>2. storage'.refresh = storage.refresh /\ (storage # NoPair => storage' # NoPair)
    <2>1. CASE storage = NoPair
      BY <1>1, <2>1 DEF NoPair
    <2>2. CASE storage \in [refresh : Tokens, live : BOOLEAN]
      <3>1. storage'.refresh = storage.refresh /\ storage.refresh \in Tokens
        BY <1>1, <2>2
      <3> QED
        BY <3>1, PairFacts, RenewalAssumption
    <2> QED
      BY <2>1, <2>2 DEF TypeInv, TypeOK, Pair
  <1>3. refresh' = refresh /\ used' = used /\ page' = page
    BY DEF Expire
  <1> QED
    BY <1>2, <1>3 DEF Kept, isRefreshing

\* Only a tab at the login still has a request refused when there are no tokens.
LEMMA NoRefreshTokenKept ==
  ASSUME TypeInv, Kept, NEW t \in Tabs, NEW s \in Slots, NoRefreshToken(t, s)
  PROVE  Kept'
  <1>1. storage = NoPair /\ req[t][s].state = "refused" /\ Reject(t, {s})
    BY DEF NoRefreshToken, Refused
  <1>2. page[t] \notin {"closed", "leaving"}
    BY <1>1, BusyTabs
  <1>3. page[t] = "login"
    BY <1>1, <1>2 DEF Kept, TypeInv, TypeOK, Pages
  <1>4. page' = page /\ refresh' = refresh /\ used' \subseteq used /\ storage' = storage
    BY <1>1, <1>3 DEF NoRefreshToken, clearAuthToken, Reject, Remembered
  <1> QED
    BY <1>4, KeptFrame DEF Kept

\* The stored token is good unless a refresh runs, and then it is another tab's.
LEMMA BeginRefreshKept ==
  ASSUME TypeInv, Kept, NEW t \in Tabs, NEW s \in Slots, BeginRefresh(t, s), ~excused'
  PROVE  Kept'
  <1>1. \A u \in Tabs : refresh[u].state = "none"
    BY DEF BeginRefresh, isRefreshing
  <1>2. storage.refresh \notin used
    BY <1>1 DEF Kept
  <1>3. /\ refresh'[t].token = storage.refresh /\ refresh'[t].state = "sent"
        /\ \A u \in Tabs : u # t => refresh'[u] = refresh[u]
    BY DEF BeginRefresh, TypeInv, TypeOK
  <1>4. page' = page /\ used' = used /\ storage' = storage
    BY DEF BeginRefresh
  <1> QED
    BY <1>1, <1>2, <1>3, <1>4 DEF Kept, isRefreshing

LEMMA RenewedKept ==
  ASSUME TypeInv, Kept, NEW t \in Tabs, Renewed(t)
  PROVE  Kept'
  <1>1. refresh[t].state = "renewed" /\ refresh[t].token \in Tokens /\ refresh[t].token \notin used
    BY DEF Renewed, Kept, isRefreshing, TypeInv, HasToken
  <1>2. /\ storage' = [refresh |-> refresh[t].token, live |-> TRUE] /\ storage' # NoPair
        /\ storage'.refresh = refresh[t].token
    BY <1>1, PairFacts DEF Renewed
  <1>3. /\ refresh'[t].state = "none"
        /\ \A u \in Tabs : u # t => refresh'[u] = refresh[u]
    BY RefreshFacts DEF Renewed, TypeInv, TypeOK
  <1>4. page' = page /\ used' \subseteq used
    BY DEF Renewed, Remembered
  <1> QED
    BY <1>1, <1>2, <1>3, <1>4 DEF Kept, isRefreshing

LEMMA NextKept == IInv /\ [Next]_vars => IInv'
  <1> SUFFICES ASSUME IInv, [Next]_vars PROVE IInv'
    OBVIOUS
  <1>1. TypeInv /\ TypeInv'
    BY NextKeepsType DEF IInv
  <1> SUFFICES ASSUME ~excused' PROVE Kept'
    BY <1>1 DEF IInv
  <1>2. ~excused /\ Kept
    <2>1. excused => excused'
      <3>1. UNCHANGED vars \/ Expire => excused' = excused
        BY DEF vars, Expire
      <3>2. ASSUME NEW t \in Tabs, loadUser(t) \/ signIn(t) \/ ServeRefresh(t) \/ Conclude(t)
            PROVE  excused' = excused
        BY <3>2 DEF loadUser, signIn, ServeRefresh, Conclude, Renewed, RefreshFailed
      <3>3. ASSUME NEW t \in Tabs, Reload(t) \/ logout(t) \/ LoseRefresh(t), excused
            PROVE  excused'
        BY <3>3, Zenon DEF Reload, logout, LoseRefresh
      <3>4. ASSUME NEW t \in Tabs, NEW s \in Slots, Send(t, s) \/ LoadFails(t, s) \/ Answer(t, s), excused
            PROVE  excused'
        BY <3>4, Zenon DEF Send, LoadFails, Answer, Serve, Refuse, ServePassword
      <3>5. ASSUME NEW t \in Tabs, NEW s \in Slots, Handle(t, s), excused
            PROVE  excused'
        BY <3>5, Zenon DEF Handle, NoRefreshToken, Park, BeginRefresh
      <3> QED
        BY <3>1, <3>2, <3>3, <3>4, <3>5 DEF Next
    <2> QED
      BY <2>1 DEF IInv
  <1>3. CASE UNCHANGED vars
    BY <1>2, <1>3, KeptFrame DEF vars, Kept
  <1>4. CASE Expire
    BY <1>1, <1>2, <1>4, ExpireKept
  <1>5. ASSUME NEW t \in Tabs, loadUser(t) \/ Reload(t) \/ signIn(t) \/ logout(t)
        PROVE  Kept'
    BY <1>1, <1>2, <1>5, LoadKept, ReloadKept, SignInKept DEF logout
  <1>6. ASSUME NEW t \in Tabs, ServeRefresh(t) \/ LoseRefresh(t) \/ Conclude(t)
        PROVE  Kept'
    <2>1. ~RefreshFailed(t)
      BY <1>2 DEF RefreshFailed, Kept
    <2> QED
      BY <1>1, <1>2, <1>6, <2>1, ServeRefreshKept, RenewedKept DEF LoseRefresh, Conclude
  <1>7. ASSUME NEW t \in Tabs, NEW s \in Slots, Send(t, s) \/ LoadFails(t, s) \/ Answer(t, s)
        PROVE  Kept'
    <2>1. storage' = storage /\ refresh' = refresh /\ used' = used
      BY <1>7 DEF Send, LoadFails, Answer, Serve, Refuse, ServePassword
    <2>2. page' = page \/ (page[t] = "splash" /\ page' = [page EXCEPT ![t] = "app"])
      BY <1>7 DEF Send, LoadFails, Answer, Serve, Refuse, ServePassword, Answered
    <2>3. \A u \in Tabs : page'[u] = page[u] \/ (page[u] = "splash" /\ page'[u] = "app")
      BY <1>1, <2>2 DEF TypeInv, TypeOK
    <2> QED
      BY <1>2, <2>1, <2>3, KeptFrame DEF Kept
  <1>8. ASSUME NEW t \in Tabs, NEW s \in Slots, Handle(t, s)
        PROVE  Kept'
    <2>1. CASE Park(t, s)
      BY <1>2, <2>1, KeptFrame DEF Park, Kept
    <2> QED
      BY <1>1, <1>2, <1>8, <2>1, NoRefreshTokenKept, BeginRefreshKept DEF Handle
  <1> QED
    BY <1>3, <1>4, <1>5, <1>6, <1>7, <1>8 DEF Next

\* A tab is sent to the login only after a logout, a change of the password, a lost
\* answer, a reload during a refresh, or refreshes of two tabs at once, however many
\* tabs, requests and expiries there are; and with wrong passwords, too.
THEOREM SessionKept == Spec => []ThrownOut
  <1>1. Init => IInv
    BY InitType, InitKept DEF IInv
  <1>2. IInv => ThrownOut
    BY DEF IInv, Kept, ThrownOut
  <1> QED
    BY <1>1, <1>2, NextKept, PTL DEF Spec

-----------------------------------------------------------------------------
(* The refinement.                                                         *)

\* What a step has to show of each tab: nothing changes, or the renewal begins, is
\* joined or ends.
Same(t) == isRefreshing(t)' = isRefreshing(t) /\ Waiting(t)' = Waiting(t)

LEMMA SameAll ==
  ASSUME \A t \in Tabs : Same(t)
  PROVE  UNCHANGED Renewal!renewal
  BY DEF Same, Renewal!renewal, running, waiting

LEMMA Ends ==
  ASSUME NEW t \in Tabs, isRefreshing(t), ~isRefreshing(t)', Waiting(t)' = {},
         \A u \in Tabs : u # t => Same(u)
  PROVE  Renewal!Finish(t)
  BY DEF Same, Renewal!Finish, running, waiting, isRefreshing

LEMMA Begins ==
  ASSUME NEW t \in Tabs, NEW s \in Slots, ~isRefreshing(t), isRefreshing(t)', Waiting(t)' = {s},
         \A u \in Tabs : u # t => Same(u)
  PROVE  Renewal!Begin(t, s)
  BY DEF Same, Renewal!Begin, running, waiting, isRefreshing

LEMMA Joins ==
  ASSUME NEW t \in Tabs, NEW s \in Slots, isRefreshing(t), isRefreshing(t)',
         s \notin Waiting(t), Waiting(t)' = Waiting(t) \cup {s},
         \A u \in Tabs : u # t => Same(u)
  PROVE  Renewal!Join(t, s)
  BY DEF Same, Renewal!Join, running, waiting, isRefreshing

\* Requests that do not wait change, and the refreshes do not.
LEMMA SameFrame ==
  ASSUME NEW t \in Tabs, refresh'[t].state = refresh[t].state \/ (isRefreshing(t) /\ isRefreshing(t)'),
         \A s \in Slots : req'[t][s].state \in {"parked", "renewing"} <=> req[t][s].state \in {"parked", "renewing"}
  PROVE  Same(t)
  BY DEF Same, isRefreshing, Waiting

LEMMA TabSteps ==
  ASSUME TypeInv, NEW t \in Tabs, loadUser(t) \/ Reload(t) \/ signIn(t) \/ logout(t)
  PROVE  [Renewal!Next]_Renewal!renewal
  <1>1. CASE loadUser(t)
    <2>1. refresh' = refresh
      BY <1>1 DEF loadUser
    <2>2. \A u \in Tabs, x \in Slots : req'[u][x] = req[u][x] \/ (req[u][x] = Idle /\ req'[u][x].state = "sent")
      <3>1. CASE storage = NoPair
        BY <1>1, <3>1 DEF loadUser
      <3>2. CASE storage # NoPair
        <4> DEFINE first == CHOOSE s \in Slots : TRUE
        <4>1. req' = [req EXCEPT ![t][first] = Sending(FALSE, storage.live)]
          BY <1>1, <3>2 DEF loadUser
        <4>2. \A x \in Slots : req[t][x] = Idle
          BY <1>1, RequestFacts DEF loadUser, TypeInv, Quiet
        <4>3. Sending(FALSE, storage.live).state = "sent"
          BY DEF Sending
        <4> HIDE DEF first
        <4> QED
          BY <4>1, <4>2, <4>3 DEF TypeInv, TypeOK
      <3> QED
        BY <3>1, <3>2
    <2>3. \A u \in Tabs : Same(u)
      BY <2>1, <2>2, IdleFacts, SameFrame
    <2> QED
      BY <2>3, SameAll
  <1>2. CASE Reload(t)
    <2>1. /\ \A u \in Tabs : u # t => req'[u] = req[u] /\ refresh'[u] = refresh[u]
          /\ req'[t] = AllIdle /\ refresh'[t].state = "none"
      BY <1>2, RefreshFacts DEF Reload, TypeInv, TypeOK
    <2>2. \A u \in Tabs : u # t => Same(u)
      BY <2>1, SameFrame
    <2>3. ~isRefreshing(t)' /\ Waiting(t)' = {}
      BY <2>1, RequestFacts DEF isRefreshing, Waiting
    <2>4. CASE isRefreshing(t)
      BY <2>2, <2>3, <2>4, Ends DEF Renewal!Next
    <2>5. CASE ~isRefreshing(t)
      <3>1. Waiting(t) = {}
        BY <2>5 DEF TypeInv, WaitsForRefresh, Waiting
      <3>2. Same(t)
        BY <2>3, <2>5, <3>1 DEF Same, isRefreshing
      <3> QED
        BY <2>2, <3>2, SameAll
    <2> QED
      BY <2>4, <2>5
  <1>3. CASE signIn(t) \/ logout(t)
    <2>1. \A u \in Tabs : Same(u)
      BY <1>3, SameFrame DEF signIn, logout
    <2> QED
      BY <2>1, SameAll
  <1> QED
    BY <1>1, <1>2, <1>3

LEMMA ServerSteps ==
  ASSUME TypeInv, NEW t \in Tabs, ServeRefresh(t) \/ LoseRefresh(t)
  PROVE  UNCHANGED Renewal!renewal
  <1>1. PICK r \in Refresh : refresh' = [refresh EXCEPT ![t] = r] /\ r.state # "none"
    BY RefreshFacts, IssuedIsNew DEF ServeRefresh, LoseRefresh
  <1>2. refresh[t].state # "none" /\ req' = req
    BY DEF ServeRefresh, LoseRefresh
  <1>3. refresh'[t] = r /\ \A u \in Tabs : u # t => refresh'[u] = refresh[u]
    BY <1>1 DEF TypeInv, TypeOK
  <1>4. \A u \in Tabs : Same(u)
    BY <1>1, <1>2, <1>3, SameFrame DEF isRefreshing
  <1> QED
    BY <1>4, SameAll

LEMMA RequestSteps ==
  ASSUME TypeInv, NEW t \in Tabs, NEW s \in Slots, Send(t, s) \/ LoadFails(t, s) \/ Answer(t, s)
  PROVE  UNCHANGED Renewal!renewal
  <1>1. refresh' = refresh
    BY DEF Send, LoadFails, Answer, Serve, Refuse, ServePassword
  <1>2. req[t][s].state \in {"idle", "sent"}
    BY IdleFacts DEF Send, LoadFails, Answer, Serve, Refuse, ServePassword
  <1>3. /\ req'[t][s].state \in {"idle", "sent", "refused"}
        /\ \A u \in Tabs : u # t => req'[u] = req[u]
        /\ \A x \in Slots : x # s => req'[t][x] = req[t][x]
    <2>1. CASE Send(t, s)
      <3>1. PICK p \in {FALSE, WrongPasswords} : req' = [req EXCEPT ![t][s] = Sending(p, header[t])]
        BY <2>1 DEF Send
      <3>2. Sending(p, header[t]).state = "sent"
        BY DEF Sending
      <3> QED
        BY <3>1, <3>2 DEF TypeInv, TypeOK
    <2>2. CASE LoadFails(t, s) \/ Serve(t, s) \/ ServePassword(t, s)
      <3>1. req' = [req EXCEPT ![t][s] = Idle]
        BY <2>2 DEF LoadFails, Serve, ServePassword, Answered
      <3> QED
        BY <3>1, IdleFacts DEF TypeInv, TypeOK
    <2>3. CASE Refuse(t, s)
      <3>1. req' = [req EXCEPT ![t][s].state = "refused", ![t][s].live = FALSE]
        BY <2>3 DEF Refuse
      <3>2. req[t][s] \in Request
        BY DEF TypeInv, TypeOK
      <3> QED
        BY <3>1, <3>2 DEF TypeInv, TypeOK, Request
    <2> QED
      BY <2>1, <2>2, <2>3 DEF Answer
  <1>4. \A u \in Tabs : Same(u)
    BY <1>1, <1>2, <1>3, SameFrame
  <1> QED
    BY <1>4, SameAll

\* Without tokens a request is rejected: at the login only that request, elsewhere
\* the tab forgets what it waits for.
LEMMA NoRefreshTokenStep ==
  ASSUME TypeInv, NEW t \in Tabs, NEW s \in Slots, NoRefreshToken(t, s)
  PROVE  [Renewal!Next]_Renewal!renewal
  <1>1. Reject(t, {s}) /\ req[t][s].state = "refused"
    BY DEF NoRefreshToken, Refused
  <1>2. /\ \A u \in Tabs : u # t => req'[u] = req[u]
        /\ \A x \in Slots : req'[t][x] = Idle \/ (x \notin {s} /\ page[t] = "login" /\ req'[t][x] = req[t][x])
        /\ page[t] # "login" => req'[t] = AllIdle
    BY <1>1, Rejects
  <1>3. /\ \A u \in Tabs : u # t => refresh'[u] = refresh[u]
        /\ page[t] = "login" => refresh' = refresh
        /\ page[t] # "login" => refresh'[t].state = "none"
    BY RefreshFacts DEF NoRefreshToken, TypeInv, TypeOK
  <1>4. \A u \in Tabs : u # t => Same(u)
    BY <1>2, <1>3, SameFrame
  <1>5. CASE page[t] = "login"
    <2>1. req' = [req EXCEPT ![t] = [x \in Slots |-> IF x \in {s} THEN Idle ELSE req[t][x]]]
      BY <1>1, <1>5 DEF Reject
    <2>2. \A x \in Slots : x # s => req'[t][x] = req[t][x]
      BY <2>1 DEF TypeInv, TypeOK
    <2>3. req'[t][s] = Idle
      BY <1>2
    <2>4. Same(t)
      BY <1>1, <1>3, <1>5, <2>2, <2>3, IdleFacts, SameFrame
    <2> QED
      BY <1>4, <2>4, SameAll
  <1>6. CASE page[t] # "login"
    <2>1. ~isRefreshing(t)' /\ Waiting(t)' = {}
      BY <1>2, <1>3, <1>6, RequestFacts DEF isRefreshing, Waiting
    <2>2. CASE isRefreshing(t)
      BY <1>4, <2>1, <2>2, Ends DEF Renewal!Next
    <2>3. CASE ~isRefreshing(t)
      <3>1. Waiting(t) = {}
        BY <2>3 DEF TypeInv, WaitsForRefresh, Waiting
      <3>2. Same(t)
        BY <2>1, <2>3, <3>1 DEF Same, isRefreshing
      <3> QED
        BY <1>4, <3>2, SameAll
    <2> QED
      BY <2>2, <2>3
  <1> QED
    BY <1>5, <1>6

\* A refused request joins the renewal of its tab, or begins it.
LEMMA ParkStep ==
  ASSUME TypeInv, NEW t \in Tabs, NEW s \in Slots, Park(t, s)
  PROVE  Renewal!Join(t, s)
  <1>1. /\ req' = [req EXCEPT ![t][s].state = "parked"] /\ req[t][s].state = "refused"
        /\ isRefreshing(t) /\ refresh' = refresh
    BY DEF Park, Refused
  <1>2. /\ \A u \in Tabs : u # t => req'[u] = req[u]
        /\ \A y \in Slots : y # s => req'[t][y] = req[t][y]
        /\ req'[t][s].state = "parked"
    BY <1>1, Waits
  <1>3. \A u \in Tabs : u # t => Same(u)
    BY <1>1, <1>2, SameFrame
  <1>4. isRefreshing(t)' /\ s \notin Waiting(t) /\ Waiting(t)' = Waiting(t) \cup {s}
    BY <1>1, <1>2 DEF isRefreshing, Waiting
  <1> QED
    BY <1>1, <1>3, <1>4, Joins

LEMMA BeginRefreshStep ==
  ASSUME TypeInv, NEW t \in Tabs, NEW s \in Slots, BeginRefresh(t, s)
  PROVE  Renewal!Begin(t, s)
  <1>1. req' = [req EXCEPT ![t][s].state = "renewing"] /\ ~isRefreshing(t)
    BY DEF BeginRefresh
  <1>2. /\ \A u \in Tabs : u # t => req'[u] = req[u]
        /\ \A y \in Slots : y # s => req'[t][y] = req[t][y]
        /\ req'[t][s].state = "renewing"
    BY <1>1, Waits
  <1>3. /\ refresh'[t].state = "sent"
        /\ \A u \in Tabs : u # t => refresh'[u] = refresh[u]
    BY DEF BeginRefresh, TypeInv, TypeOK
  <1>4. \A u \in Tabs : u # t => Same(u)
    BY <1>2, <1>3, SameFrame
  <1>5. Waiting(t) = {}
    BY <1>1 DEF TypeInv, WaitsForRefresh, Waiting
  <1>6. isRefreshing(t)' /\ Waiting(t)' = {s}
    BY <1>2, <1>3, <1>5 DEF isRefreshing, Waiting
  <1> QED
    BY <1>1, <1>4, <1>6, Begins

\* The renewal leaves no request behind, whether it succeeds or fails.
LEMMA ConcludeStep ==
  ASSUME TypeInv, NEW t \in Tabs, Conclude(t)
  PROVE  Renewal!Finish(t)
  <1>1. /\ isRefreshing(t) /\ refresh'[t].state = "none"
        /\ \A u \in Tabs : u # t => refresh'[u] = refresh[u]
    BY RefreshFacts DEF Conclude, Renewed, RefreshFailed, isRefreshing, TypeInv, TypeOK
  <1>2. /\ \A u \in Tabs : u # t => req'[u] = req[u]
        /\ \A x \in Slots : req'[t][x].state \notin {"parked", "renewing"}
    <2>1. CASE Renewed(t)
      <3>1. req' = [req EXCEPT ![t] = [s \in Slots |->
                      IF s \in Waiting(t) THEN Sending(req[t][s].wrong, TRUE) ELSE req[t][s]]]
        BY <2>1 DEF Renewed
      <3>2. \A s \in Slots : Sending(req[t][s].wrong, TRUE).state = "sent"
        BY DEF Sending
      <3> QED
        BY <3>1, <3>2 DEF TypeInv, TypeOK, Waiting
    <2>2. CASE RefreshFailed(t)
      <3>1. Reject(t, Waiting(t))
        BY <2>2 DEF RefreshFailed
      <3>2. /\ \A u \in Tabs : u # t => req'[u] = req[u]
            /\ \A x \in Slots : req'[t][x] = Idle \/ (x \notin Waiting(t) /\ req'[t][x] = req[t][x])
        BY <3>1, Rejects
      <3> QED
        BY <3>2, IdleFacts DEF Waiting
    <2> QED
      BY <2>1, <2>2 DEF Conclude
  <1>3. \A u \in Tabs : u # t => Same(u)
    BY <1>1, <1>2, SameFrame
  <1>4. ~isRefreshing(t)' /\ Waiting(t)' = {}
    BY <1>1, <1>2 DEF isRefreshing, Waiting
  <1> QED
    BY <1>1, <1>3, <1>4, Ends

LEMMA InitRefines == Init => Renewal!Init
  <1> SUFFICES ASSUME Init PROVE Renewal!Init
    OBVIOUS
  <1>1. \A t \in Tabs : isRefreshing(t) = FALSE
    BY RefreshFacts DEF Init, isRefreshing
  <1>2. ASSUME NEW t \in Tabs PROVE Waiting(t) = {}
    <2>1. \A s \in Slots : req[t][s].state = "idle"
      BY RequestFacts DEF Init
    <2> QED
      BY <2>1 DEF Waiting
  <1>3. running = [t \in Tabs |-> FALSE]
    BY <1>1 DEF running
  <1>4. waiting = [t \in Tabs |-> {}]
    BY <1>2 DEF waiting
  <1> QED
    BY <1>3, <1>4 DEF Renewal!Init

LEMMA NextRefines == TypeInv /\ [Next]_vars => [Renewal!Next]_Renewal!renewal
  <1> SUFFICES ASSUME TypeInv, [Next]_vars PROVE [Renewal!Next]_Renewal!renewal
    OBVIOUS
  <1>1. CASE UNCHANGED vars
    <2>1. \A u \in Tabs : Same(u)
      BY <1>1, SameFrame DEF vars
    <2> QED
      BY <2>1, SameAll
  <1>2. CASE Expire
    <2>1. \A u \in Tabs, s \in Slots : req'[u][s].state = req[u][s].state
      <3>1. \A u \in Tabs, s \in Slots : req'[u][s] = [req[u][s] EXCEPT !.live = FALSE]
        BY <1>2 DEF Expire
      <3>2. \A r \in Request : [r EXCEPT !.live = FALSE].state = r.state
        BY DEF Request
      <3>3. \A u \in Tabs, s \in Slots : req[u][s] \in Request
        BY DEF TypeInv, TypeOK
      <3> QED
        BY <3>1, <3>2, <3>3, Zenon
    <2>2. \A u \in Tabs : Same(u)
      BY <1>2, <2>1, SameFrame DEF Expire
    <2> QED
      BY <2>2, SameAll
  <1>3. ASSUME NEW t \in Tabs, loadUser(t) \/ Reload(t) \/ signIn(t) \/ logout(t)
        PROVE  [Renewal!Next]_Renewal!renewal
    BY <1>3, TabSteps
  <1>4. ASSUME NEW t \in Tabs, ServeRefresh(t) \/ LoseRefresh(t)
        PROVE  [Renewal!Next]_Renewal!renewal
    BY <1>4, ServerSteps
  <1>5. ASSUME NEW t \in Tabs, Conclude(t)
        PROVE  [Renewal!Next]_Renewal!renewal
    BY <1>5, ConcludeStep DEF Renewal!Next
  <1>6. ASSUME NEW t \in Tabs, NEW s \in Slots, Send(t, s) \/ LoadFails(t, s) \/ Answer(t, s)
        PROVE  [Renewal!Next]_Renewal!renewal
    BY <1>6, RequestSteps
  <1>7. ASSUME NEW t \in Tabs, NEW s \in Slots, Handle(t, s)
        PROVE  [Renewal!Next]_Renewal!renewal
    BY <1>7, NoRefreshTokenStep, ParkStep, BeginRefreshStep DEF Handle, Renewal!Next
  <1> QED
    BY <1>1, <1>2, <1>3, <1>4, <1>5, <1>6, <1>7 DEF Next

\* The interceptors implement SingleRenewal: in each tab one renewal at a time, which
\* all requests refused meanwhile join and none outlives.
THEOREM OneRenewal == Spec => Renewal!Spec
  BY InitType, NextKeepsType, InitRefines, NextRefines, PTL DEF Spec, Renewal!Spec
=============================================================================
