---------------------------- MODULE TokenRenewal ----------------------------
(***************************************************************************)
(* The tokens of a session in several tabs of one browser, and the         *)
(* requests of each tab (src/frontend/src/api/client.ts, with the parts of *)
(* contexts/AuthContext.tsx that set and clear tokens).                    *)
(*                                                                         *)
(* The tabs share the pair of tokens in localStorage and nothing else: the *)
(* default Authorization header, the flag isRefreshing and the queue of    *)
(* parked requests are each tab's own.  Of an access token only its age    *)
(* matters, of a refresh token which one it is: it can be used once.  The  *)
(* name of a refresh token nobody holds is issued again.                   *)
(***************************************************************************)
EXTENDS Naturals, FiniteSets

CONSTANTS
  Tabs,
  Slots,         \* requests a tab may have under way
  MaxRequests,   \* bound on the requests under way at once
  Tokens,        \* names of refresh tokens, more than can be held at once
  MaxExpiries,   \* bound on how often access tokens expire
  WrongPasswords, \* whether wrong passwords are typed into the forms that ask
  None

ASSUME RenewalAssumption ==
  /\ MaxExpiries \in Nat /\ MaxRequests \in Nat
  /\ WrongPasswords \in BOOLEAN
  /\ None \notin Tokens /\ Tokens # {}
  /\ Slots # {}

VARIABLES
  storage,    \* localStorage: a refresh token or None, and an access token
  page,       \* page[t]: what tab t shows
  header,     \* header[t]: the default Authorization header is accepted
  req,        \* req[t][s]: a request
  refresh,    \* refresh[t]: the call of authApi.refresh
  used,       \* server: the refresh tokens of no more use
  expiries,
  excused     \* history: something happened that may end a session

vars == <<storage, page, header, req, refresh, used, expiries, excused>>

-----------------------------------------------------------------------------
\* closed: not loaded.  leaving: window.location was set to /login.
Pages == {"closed", "splash", "login", "app", "leaving"}

\* live: its access token is accepted.
NoPair == [refresh |-> None, live |-> FALSE]
Pair   == {NoPair} \cup [refresh : Tokens, live : BOOLEAN]

\* refused: a 401 is on its way.  parked: in failedQueue.  renewing: it waits
\* for the refresh it asked for itself.  live: sent with a live access token.
\* wrong: it carries a wrong password.
Request == [state : {"idle", "sent", "refused", "parked", "renewing"},
            live  : BOOLEAN,
            wrong : BOOLEAN]

Idle == [state |-> "idle", live |-> FALSE, wrong |-> FALSE]

Sending(p, l) == [state |-> "sent", live |-> l, wrong |-> p]

AllIdle == [s \in Slots |-> Idle]

Refresh   == [state : {"none", "sent", "renewed", "denied"}, token : Tokens \cup {None}]
NoRefresh == [state |-> "none", token |-> None]
Denied    == [state |-> "denied", token |-> None]

isRefreshing(t) == refresh[t].state # "none"

\* The requests that wait for the refresh.
Waiting(t) == {s \in Slots : req[t][s].state \in {"parked", "renewing"}}

\* Refresh tokens somebody holds; the next one issued is another one.
Held   == {storage.refresh} \cup {refresh[t].token : t \in Tabs}
Issued == CHOOSE k \in Tokens : k \notin Held

CanIssue == Tokens \ Held # {}

\* The cache keeps the used tokens until they expire; one that nobody holds is not
\* asked for again, and its name is free.
Remembered(S) == S \cap Held'

Init ==
  /\ storage \in {NoPair} \cup [refresh : {CHOOSE k \in Tokens : TRUE}, live : BOOLEAN]
  /\ page = [t \in Tabs |-> "closed"]
  /\ header = [t \in Tabs |-> FALSE]
  /\ req = [t \in Tabs |-> AllIdle]
  /\ refresh = [t \in Tabs |-> NoRefresh]
  /\ used = {}
  /\ expiries = 0
  /\ excused = FALSE

-----------------------------------------------------------------------------
(* The tab.                                                                *)

clearAuthToken(t) == /\ storage' = NoPair
                     /\ header' = [header EXCEPT ![t] = FALSE]

\* The module reads the stored token, AuthProvider asks for the user.
loadUser(t) ==
  /\ page[t] \in {"closed", "leaving"}
  /\ header' = [header EXCEPT ![t] = storage.live]
  /\ page' = [page EXCEPT ![t] = IF storage = NoPair THEN "login" ELSE "splash"]
  /\ req' = IF storage = NoPair THEN req
            ELSE [req EXCEPT ![t][CHOOSE s \in Slots : TRUE] = Sending(FALSE, storage.live)]
  /\ UNCHANGED <<storage, refresh, used, expiries, excused>>

\* The tab is reloaded: it forgets everything but localStorage.  The server may
\* still serve a refresh whose answer nobody waits for.
Reload(t) ==
  /\ page[t] \notin {"closed", "leaving"}
  /\ page' = [page EXCEPT ![t] = "closed"]
  /\ header' = [header EXCEPT ![t] = FALSE]
  /\ req' = [req EXCEPT ![t] = AllIdle]
  /\ refresh' = [refresh EXCEPT ![t] = NoRefresh]
  /\ excused' = (excused \/ isRefreshing(t))
  /\ UNCHANGED <<storage, expiries>>
  /\ used' \in {Remembered(used)}
                \cup IF refresh[t].state = "sent" THEN {Remembered(used \cup {refresh[t].token})} ELSE {}

\* A component asks for data, or submits a form that asks for the password:
\* change it, reset the account, disable 2FA.
Send(t, s) ==
  /\ page[t] = "app"
  /\ req[t][s] = Idle
  /\ Cardinality({c \in Tabs \X Slots : req[c[1]][c[2]] # Idle}) < MaxRequests
  /\ \E p \in {FALSE, WrongPasswords} :
       req' = [req EXCEPT ![t][s] = Sending(p, header[t])]
  /\ UNCHANGED <<storage, page, header, refresh, used, expiries, excused>>

\* login, register, verify2FA: the pair is stored; the app follows (SignIn.tla).
signIn(t) ==
  /\ page[t] = "login"
  /\ CanIssue
  /\ storage' = [refresh |-> Issued, live |-> TRUE]
  /\ header' = [header EXCEPT ![t] = TRUE]
  /\ page' = [page EXCEPT ![t] = "app"]
  /\ UNCHANGED <<req, refresh, expiries, excused>>
  /\ used' = Remembered(used \ {Issued})

\* Requests and a refresh under way go on.
logout(t) ==
  /\ page[t] = "app"
  /\ clearAuthToken(t)
  /\ page' = [page EXCEPT ![t] = "login"]
  /\ excused' = TRUE
  /\ UNCHANGED <<req, refresh, expiries>>
  /\ used' = Remembered(used)

-----------------------------------------------------------------------------
(* The server and the network.                                             *)

\* The caller of a request gets an answer that is no 401; the user of a tab
\* that loads is known now.
Answered(t, s) ==
  /\ req' = [req EXCEPT ![t][s] = Idle]
  /\ page' = IF page[t] = "splash" THEN [page EXCEPT ![t] = "app"] ELSE page

\* The endpoints behind JWTAuth.
Serve(t, s) ==
  /\ req[t][s].state = "sent" /\ ~req[t][s].wrong
  /\ req[t][s].live
  /\ Answered(t, s)
  /\ UNCHANGED <<storage, header, refresh, used, expiries, excused>>

\* A wrong password is answered 401, too.
Refuse(t, s) ==
  /\ req[t][s].state = "sent"
  /\ ~req[t][s].live \/ req[t][s].wrong
  /\ req' = [req EXCEPT ![t][s].state = "refused", ![t][s].live = FALSE]
  /\ UNCHANGED <<storage, page, header, refresh, used, expiries, excused>>

\* It was a new password: the refresh tokens issued are of no more use.
ServePassword(t, s) ==
  /\ req[t][s].state = "sent" /\ ~req[t][s].wrong /\ page[t] = "app"
  /\ req[t][s].live
  /\ Answered(t, s)
  /\ used' = Held \cap Tokens
  /\ excused' = TRUE
  /\ UNCHANGED <<storage, header, refresh, expiries>>

\* The request or its answer is lost, or the server fails: the tab that loads
\* drops its tokens for any error, other callers take it for an answer.
LoadFails(t, s) ==
  /\ req[t][s].state = "sent" /\ page[t] = "splash"
  /\ req' = [req EXCEPT ![t][s] = Idle]
  /\ clearAuthToken(t)
  /\ page' = [page EXCEPT ![t] = "login"]
  /\ excused' = TRUE
  /\ UNCHANGED <<refresh, expiries>>
  /\ used' = Remembered(used)

ServeRefresh(t) ==
  /\ refresh[t].state = "sent"
  /\ UNCHANGED <<storage, page, header, req, expiries, excused>>
  /\ IF refresh[t].token \in used
     THEN refresh' = [refresh EXCEPT ![t] = Denied] /\ used' = Remembered(used)
     ELSE /\ CanIssue
          /\ refresh' = [refresh EXCEPT ![t] = [state |-> "renewed", token |-> Issued]]
          /\ used' = Remembered((used \cup {refresh[t].token}) \ {Issued})

\* The refresh or its answer is lost.
LoseRefresh(t) ==
  /\ refresh[t].state \in {"sent", "renewed"}
  /\ refresh' = [refresh EXCEPT ![t] = Denied]
  /\ excused' = TRUE
  /\ UNCHANGED <<storage, page, header, req, expiries>>
  /\ used' \in {Remembered(used)}
                \cup IF refresh[t].state = "sent" THEN {Remembered(used \cup {refresh[t].token})} ELSE {}

\* The access tokens issued so far get too old.
Expire ==
  /\ expiries < MaxExpiries
  /\ storage' = [storage EXCEPT !.live = FALSE]
  /\ header' = [t \in Tabs |-> FALSE]
  /\ req' = [t \in Tabs |-> [s \in Slots |-> [req[t][s] EXCEPT !.live = FALSE]]]
  /\ expiries' = expiries + 1
  /\ UNCHANGED <<page, refresh, used, excused>>

-----------------------------------------------------------------------------
(* The response interceptor.                                               *)

Refused(t, s) == req[t][s].state = "refused"

\* The requests in S are rejected.  A tab that is not on the login goes there,
\* and forgets everything.
Reject(t, S) ==
  IF page[t] = "login"
  THEN /\ req' = [req EXCEPT ![t] = [s \in Slots |-> IF s \in S THEN Idle ELSE @[s]]]
       /\ UNCHANGED page
  ELSE /\ page' = [page EXCEPT ![t] = "leaving"]
       /\ req' = [req EXCEPT ![t] = AllIdle]

NoRefreshToken(t, s) ==
  /\ Refused(t, s)
  /\ storage = NoPair
  /\ clearAuthToken(t)
  /\ Reject(t, {s})
  /\ refresh' = IF page[t] = "login" THEN refresh ELSE [refresh EXCEPT ![t] = NoRefresh]
  /\ UNCHANGED <<expiries, excused>>
  /\ used' = Remembered(used)

Park(t, s) ==
  /\ Refused(t, s)
  /\ storage # NoPair
  /\ isRefreshing(t)
  /\ req' = [req EXCEPT ![t][s].state = "parked"]
  /\ UNCHANGED <<storage, page, header, refresh, used, expiries, excused>>

\* Mutant: every refused request refreshes on its own.
RefreshEach(t, s) ==
  /\ Refused(t, s)
  /\ storage # NoPair
  /\ refresh' = [refresh EXCEPT ![t] = [state |-> "sent", token |-> storage.refresh]]
  /\ req' = [req EXCEPT ![t][s].state = "renewing"]
  /\ excused' = (excused \/ \E t2 \in Tabs \ {t} : isRefreshing(t2))
  /\ UNCHANGED <<storage, page, header, used, expiries>>

\* Another tab may have sent the same refresh token.
BeginRefresh(t, s) ==
  /\ Refused(t, s)
  /\ storage # NoPair
  /\ ~isRefreshing(t)
  /\ refresh' = [refresh EXCEPT ![t] = [state |-> "sent", token |-> storage.refresh]]
  /\ req' = [req EXCEPT ![t][s].state = "renewing"]
  /\ excused' = (excused \/ \E t2 \in Tabs \ {t} : isRefreshing(t2))
  /\ UNCHANGED <<storage, page, header, used, expiries>>

\* Mutant: forgets the requests parked meanwhile.
RenewedAlone(t) ==
  /\ refresh[t].state = "renewed"
  /\ storage' = [refresh |-> refresh[t].token, live |-> TRUE]
  /\ header' = [header EXCEPT ![t] = TRUE]
  /\ req' = [req EXCEPT ![t] = [s \in Slots |->
               IF @[s].state = "renewing" THEN Sending(@[s].wrong, TRUE) ELSE @[s]]]
  /\ refresh' = [refresh EXCEPT ![t] = NoRefresh]
  /\ UNCHANGED <<page, expiries, excused>>
  /\ used' = Remembered(used)

\* processQueue(null): the requests are sent again with the new token.
Renewed(t) ==
  /\ refresh[t].state = "renewed"
  /\ storage' = [refresh |-> refresh[t].token, live |-> TRUE]
  /\ header' = [header EXCEPT ![t] = TRUE]
  /\ req' = [req EXCEPT ![t] = [s \in Slots |->
               IF s \in Waiting(t) THEN Sending(@[s].wrong, TRUE) ELSE @[s]]]
  /\ refresh' = [refresh EXCEPT ![t] = NoRefresh]
  /\ UNCHANGED <<page, expiries, excused>>
  /\ used' = Remembered(used)

\* processQueue(error).
RefreshFailed(t) ==
  /\ refresh[t].state = "denied"
  /\ clearAuthToken(t)
  /\ Reject(t, Waiting(t))
  /\ refresh' = [refresh EXCEPT ![t] = NoRefresh]
  /\ UNCHANGED <<expiries, excused>>
  /\ used' = Remembered(used)

-----------------------------------------------------------------------------
Answer(t, s) == Serve(t, s) \/ Refuse(t, s) \/ ServePassword(t, s)

Handle(t, s) == NoRefreshToken(t, s) \/ Park(t, s) \/ BeginRefresh(t, s)

Conclude(t) == Renewed(t) \/ RefreshFailed(t)

Next ==
  \/ \E t \in Tabs :
       \/ loadUser(t) \/ Reload(t) \/ signIn(t) \/ logout(t)
       \/ ServeRefresh(t) \/ LoseRefresh(t) \/ Conclude(t)
       \/ \E s \in Slots : Send(t, s) \/ LoadFails(t, s) \/ Answer(t, s) \/ Handle(t, s)
  \/ Expire

Spec == Init /\ [][Next]_vars

\* The server answers and the tabs handle what arrives.
Fairness ==
  \A t \in Tabs :
    /\ WF_vars(ServeRefresh(t) \/ Conclude(t))
    /\ \A s \in Slots : WF_vars(Answer(t, s) \/ Handle(t, s))

FairSpec == Spec /\ Fairness

-----------------------------------------------------------------------------
(* Properties.                                                             *)

TypeOK ==
  /\ storage \in Pair
  /\ page \in [Tabs -> Pages]
  /\ header \in [Tabs -> BOOLEAN]
  /\ req \in [Tabs -> [Slots -> Request]]
  /\ refresh \in [Tabs -> Refresh]
  /\ used \subseteq Tokens
  /\ expiries \in 0..MaxExpiries
  /\ excused \in BOOLEAN

\* A tab is sent to the login only after a logout, a change of the password, a
\* lost answer, a reload during a refresh, or two tabs' refreshes at once:
\* access tokens that expire under several requests never end a session.
ThrownOut == \A t \in Tabs : page[t] = "leaving" => excused

\* Every request ends, however many tokens expire and refreshes fail meanwhile.
RequestsEnd == \A t \in Tabs, s \in Slots : req[t][s].state # "idle" ~> req[t][s].state = "idle"

\* Each tab runs one renewal for all its refused requests and leaves none.
running == [t \in Tabs |-> isRefreshing(t)]
waiting == [t \in Tabs |-> Waiting(t)]

Renewal == INSTANCE SingleRenewal

RenewsOnce == Renewal!FairSpec
=============================================================================
