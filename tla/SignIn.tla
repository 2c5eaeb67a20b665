------------------------------- MODULE SignIn -------------------------------
(***************************************************************************)
(* How a tab gets its user: the pages that sign in, sign up, ask for the   *)
(* consents again and follow a link from a mail (src/frontend/src,         *)
(* contexts/AuthContext.tsx, components/ProtectedRoute.tsx and pages/).    *)
(*                                                                         *)
(* Each asynchronous function is a thread that awaits one request after    *)
(* the other, and goes on when its page is gone.  What the interceptor     *)
(* does to the requests is TokenRenewal.tla's; here a request that needs   *)
(* the session is answered, fails, or throws the tab out.                  *)
(***************************************************************************)
EXTENDS Naturals, FiniteSets

CONSTANTS
  twoFactor,      \* whether the account asks for a code
  MaxRunning,     \* bound on the functions under way when a form is submitted
  MaxPublished    \* bound on the documents published while the tab is open

SignInAssumption ==
  /\ twoFactor \in BOOLEAN /\ MaxPublished \in Nat
  /\ MaxRunning \in Nat

VARIABLES
  page,      \* the route
  user,      \* AuthContext has a user
  loading,   \* its isLoading
  stored,    \* localStorage and the default header hold tokens
  run,       \* run[f]: the request that function f awaits
  form,      \* the state of the page's component
  temp,      \* server: whether the token the login answered was consumed
  outdated,  \* server: the documents whose current version is not consented to
  published, \* how often a document was published
  link,      \* server: whether the mailed link is still good
  late       \* the documents published since the form was told which to ask for,
             \* and since the function that grants was

vars == <<page, user, loading, stored, run, form, temp, outdated, published, link, late>>

server == <<temp, outdated, published, link>>

-----------------------------------------------------------------------------
Functions == {"loadUser", "login", "register", "verify2FA", "grantConsents",
              "loadConsentStatus", "loadLegalVersions", "followLink", "resend"}

\* What a function may await; both: the consent to the terms, before the other.
Requests == {"login", "register", "verify2FA", "me", "status", "terms", "privacy", "both",
             "versions", "link", "resend"}

\* auth: it was sent with a token.
Done  == [request |-> "none", auth |-> FALSE]
Await == {Done} \cup [request : Requests, auth : BOOLEAN]

Public    == {"login", "register", "verify"}
Protected == {"app", "reconsent", "confirm"}

Documents == {"terms", "privacy"}

\* waits: the function the page's isSubmitting waits for.  code: requires2FA.
\* ready: the versions or the status have come.  needed: the documents it asks
\* for.  shows: what the page of a mailed link shows.
Form == [waits  : Functions \cup {"none"},
         code   : BOOLEAN,
         ready  : {"no", "yes", "failed"},
         needed : SUBSET Documents,
         shows  : {"loading", "success", "error", "resend", "sent", "unsent"}]

Blank == [waits |-> "none", code |-> FALSE, ready |-> "no", needed |-> {}, shows |-> "loading"]

\* The page shown for p: Login and Register send a user on, ProtectedRoute
\* sends everybody else to the login, once it is known who there is.
ProtectedRoute(p, u, l) ==
  IF l THEN p
  ELSE IF u THEN IF p \in {"login", "register"} THEN "app" ELSE p
  ELSE IF p \in Protected THEN "login" ELSE p

\* Whether the component of p is mounted, and not the splash.
Mounted(p, l) == p \in Public \/ ~l

\* The function a component calls when it appears, and what that awaits.
Effects(p) == CASE p = "register"              -> {<<"loadLegalVersions", "versions">>}
                [] p = "reconsent"             -> {<<"loadConsentStatus", "status">>}
                [] p \in {"verify", "confirm"} -> {<<"followLink", "link">>}
                [] OTHER                       -> {}

\* r with those functions called; they that use a link send no token, nor do
\* they that sign in.
Called(es, r, st) ==
  [g \in Functions |-> IF \E e \in es : e[1] = g
                       THEN [request |-> (CHOOSE e \in es : e[1] = g)[2],
                             auth    |-> st /\ g = "loadConsentStatus"]
                       ELSE r[g]]

\* The tab shows p with user u; r are the functions as they go on, f is the
\* form if its component stays.
Show(p, u, l, st, r, f) ==
  LET q     == ProtectedRoute(p, u, l)
      stays == q = page /\ Mounted(page, loading)
  IN /\ page' = q
     /\ user' = u
     /\ loading' = l
     /\ stored' = st
     /\ form' = IF stays THEN f ELSE Blank
     /\ run' = Called(IF stays \/ ~Mounted(q, l) THEN {} ELSE Effects(q), r, st)

\* A tab is loaded, with tokens or without: AuthProvider asks for the user, a
\* page that is not protected appears at once.
Loaded(p, st) ==
  Called(IF p \in Public THEN Effects(p) ELSE {},
         [g \in Functions |-> IF g = "loadUser" /\ st THEN [request |-> "me", auth |-> TRUE] ELSE Done],
         st)

Init ==
  /\ page \in Public \cup Protected
  /\ user = FALSE
  /\ stored \in BOOLEAN
  /\ loading = stored
  /\ (~stored => page \in Public)
  /\ run = Loaded(page, stored)
  /\ form = Blank
  /\ temp = "none"
  /\ outdated \in SUBSET Documents
  /\ published = 0
  /\ link = IF page \in {"verify", "confirm"} THEN "good" ELSE "used"
  /\ late = [form |-> {}, run |-> {}]

-----------------------------------------------------------------------------
(* The user.                                                               *)

\* What the pages show to act on.  The panel of the registration's stages takes
\* the form's place, and its links', while it is submitted.
LoginForm    == page = "login" /\ ~form.code
CodeForm     == page = "login" /\ form.code
SetupPanel   == page = "register" /\ form.waits # "none"
RegisterForm == page = "register" /\ ~SetupPanel
ConsentForm  == page = "reconsent" /\ Mounted(page, loading) /\ form.ready = "yes"
ErrorCard    == page = "reconsent" /\ Mounted(page, loading) /\ form.ready = "failed"
ResendForm   == page = "verify" /\ form.shows = "resend"
LinkWorked   == page \in {"verify", "confirm"} /\ form.shows = "success"
LinkError    == page = "confirm" /\ form.shows = "error"

Submit(f, request) ==
  /\ form.waits = "none"
  /\ run[f] = Done
  /\ Cardinality({g \in Functions : run[g] # Done}) < MaxRunning
  /\ Show(page, user, loading, stored, [run EXCEPT ![f] = [request |-> request, auth |-> stored /\ request # f]],
          [form EXCEPT !.waits = f])
  /\ UNCHANGED server

\* Login's form.
handleSubmit == LoginForm /\ Submit("login", "login") /\ UNCHANGED late

\* Its second step.
handle2FAVerify == CodeForm /\ Submit("verify2FA", "verify2FA") /\ UNCHANGED late

\* Back to the password, also while a code is being verified.
handleBack ==
  /\ CodeForm
  /\ Show(page, user, loading, stored, run, Blank)
  /\ UNCHANGED <<server, late>>

\* Register's form asks for the versions the user accepts.
submitRegistration ==
  RegisterForm /\ form.ready = "yes" /\ Submit("register", "register") /\ UNCHANGED late

\* ReConsentPage's form: the documents it asks for, one after the other.
NextConsent(needed) == CASE needed = Documents -> "both"
                         [] needed = {}        -> "status"
                         [] OTHER              -> CHOOSE d \in Documents : d \in needed

submitConsents ==
  /\ ConsentForm
  /\ Submit("grantConsents", NextConsent(form.needed))
  /\ late' = [late EXCEPT !.run = late.form]

\* The error card's button; the card stays until the answer.
retryLoad ==
  /\ ErrorCard
  /\ run["loadConsentStatus"] = Done
  /\ Show(page, user, loading, stored,
          [run EXCEPT !["loadConsentStatus"] = [request |-> "status", auth |-> stored]], form)
  /\ UNCHANGED <<server, late>>

\* The links between the pages.
Follow ==
  /\ \E p \in CASE LoginForm              -> {"register"}
                [] RegisterForm           -> {"login"}
                [] LinkWorked \/ LinkError -> {"app"}
                [] OTHER                  -> {} :
       /\ ~\E e \in Effects(p) : run[e[1]] # Done     \* a bound: one call of each
       /\ Show(p, user, loading, stored, run, Blank)
  /\ UNCHANGED <<server, late>>

\* VerifyEmailPage: the form that asks for another mail.
openResend ==
  /\ page = "verify" /\ form.shows \in {"error", "unsent"}
  /\ Show(page, user, loading, stored, run, [form EXCEPT !.shows = "resend"])
  /\ UNCHANGED <<server, late>>

handleResend == ResendForm /\ Submit("resend", "resend") /\ UNCHANGED late

logout ==
  /\ page = "app" /\ Mounted(page, loading)
  /\ Show("login", FALSE, loading, FALSE, run, form)
  /\ UNCHANGED <<server, late>>

\* The tab is loaded again.
Reload ==
  /\ page' = ProtectedRoute(page, FALSE, stored)
  /\ user' = FALSE
  /\ loading' = stored
  /\ form' = Blank
  /\ run' = Loaded(page', stored)
  /\ UNCHANGED <<stored, server, late>>

-----------------------------------------------------------------------------
(* The answers.                                                            *)

\* Function f goes on to another request, or ends; isSubmitting ends with it.
Goes(f, request) == [run EXCEPT ![f] = [request |-> request, auth |-> stored]]
Ends(f)          == [run EXCEPT ![f] = Done]
Released(f)      == IF form.waits = f THEN [form EXCEPT !.waits = "none"] ELSE form

\* The tokens after a request of the session has failed: at the login and the
\* registration the interceptor drops them and the tab stays, if they are refused.
\* Elsewhere it is thrown out.
Kept == IF page \in {"login", "register"} THEN {stored, FALSE} ELSE {stored}

\* With f's request answered as a caller of the session.
Authorized(f) == run[f].auth

\* AuthService.login, register and complete_2fa: a pair.  The functions store
\* it and ask for the user.
SignedIn(f) ==
  /\ run[f].request = f /\ f \in {"login", "register", "verify2FA"}
  /\ (f = "login") => ~twoFactor
  /\ (f = "verify2FA") => temp = "fresh"
  /\ temp' = IF f = "verify2FA" THEN "used" ELSE temp
  /\ outdated' = IF f = "register" THEN {} ELSE outdated
  /\ Show(page, user, loading, TRUE, [run EXCEPT ![f] = [request |-> "me", auth |-> TRUE]], form)
  /\ UNCHANGED <<published, link, late>>

\* The login asks for a code.
AskCode ==
  /\ run["login"].request = "login"
  /\ twoFactor
  /\ temp' = "fresh"
  /\ Show(page, user, loading, stored, Ends("login"),
          IF form.waits = "login" THEN [form EXCEPT !.waits = "none", !.code = TRUE] ELSE form)
  /\ UNCHANGED <<outdated, published, link, late>>

\* Refused or lost.  A wrong code consumes the token, too.
SignInFails(f) ==
  /\ run[f].request = f /\ f \in {"login", "register", "verify2FA"}
  /\ temp' \in IF f = "verify2FA" THEN {temp, "used"} ELSE {temp}
  /\ Show(page, user, loading, stored, Ends(f), Released(f))
  /\ UNCHANGED <<outdated, published, link, late>>

\* getCurrentUser: from here on the pages know the user.
GotUser(f) ==
  /\ run[f].request = "me" /\ f # "followLink"
  /\ Authorized(f)
  /\ IF f = "register"
     THEN Show("app", TRUE, loading, stored, Ends(f), Released(f))
     ELSE Show(page, TRUE, loading, stored, Goes(f, "status"), form)
  /\ UNCHANGED <<server, late>>

\* The first load drops the tokens for any failure, also those of a login that
\* went on beside it.
LoadFails ==
  /\ run["loadUser"].request = "me"
  /\ Show(page, user, FALSE, FALSE, Ends("loadUser"), form)
  /\ UNCHANGED <<server, late>>

\* The functions that sign in do not, and leave the tab without a user.
NoUser(f) ==
  /\ run[f].request = "me" /\ f \in {"login", "register", "verify2FA"}
  /\ \E st \in Kept : Show(page, user, loading, st, Ends(f), Released(f))
  /\ UNCHANGED <<server, late>>

\* checkConsentStatus.  A failed check asks for nothing.  ReConsentPage goes
\* to the app in any case, the other pages only if nothing is asked for; the
\* function that loads the user stays where it is.
checkConsentStatus(f) ==
  /\ run[f].request = "status" /\ f \in {"loadUser", "login", "verify2FA", "grantConsents"}
  /\ \E behind \in BOOLEAN, st \in Kept :
       /\ \/ Authorized(f) /\ behind = (outdated # {}) /\ st = stored
          \/ ~behind
       /\ Show(CASE f = "grantConsents" -> "app"
                 [] behind              -> "reconsent"
                 [] f = "loadUser"      -> page
                 [] OTHER               -> "app",
               user, IF f = "loadUser" THEN FALSE ELSE loading, st, Ends(f), Released(f))
  /\ UNCHANGED <<server, late>>

\* ReConsentPage learns which documents to ask for.
loadConsentStatus ==
  /\ run["loadConsentStatus"].request = "status"
  /\ \/ /\ Authorized("loadConsentStatus")
        /\ Show(page, user, loading, stored, Ends("loadConsentStatus"),
                IF page = "reconsent" THEN [form EXCEPT !.ready = "yes", !.needed = outdated]
                ELSE form)
        /\ late' = [late EXCEPT !.form = IF page = "reconsent" THEN {} ELSE @]
     \/ /\ \E st \in Kept :
             Show(page, user, loading, st, Ends("loadConsentStatus"),
                  IF page = "reconsent" THEN [form EXCEPT !.ready = "failed"] ELSE form)
        /\ UNCHANGED late
  /\ UNCHANGED server

Consents == {"both", "terms", "privacy"}

\* The document that is consented to now.
Granted == IF run["grantConsents"].request = "privacy" THEN "privacy" ELSE "terms"

\* Mutant: leaves out the second document.
GrantFirst ==
  /\ run["grantConsents"].request \in Consents
  /\ Authorized("grantConsents")
  /\ outdated' = outdated \ ({Granted} \ late.run)
  /\ Show(page, user, loading, stored, Goes("grantConsents", "status"), form)
  /\ UNCHANGED <<temp, published, link, late>>

\* A document is consented to, in the version the status named; then the next
\* one.  A version published meanwhile stays outdated.
Grant ==
  /\ run["grantConsents"].request \in Consents
  /\ Authorized("grantConsents")
  /\ outdated' = outdated \ ({Granted} \ late.run)
  /\ Show(page, user, loading, stored,
          Goes("grantConsents",
               IF run["grantConsents"].request = "both" THEN "privacy" ELSE "status"), form)
  /\ UNCHANGED <<temp, published, link, late>>

GrantFails ==
  /\ run["grantConsents"].request \in Consents
  /\ \E st \in Kept : Show(page, user, loading, st, Ends("grantConsents"), Released("grantConsents"))
  /\ UNCHANGED <<server, late>>

loadLegalVersions ==
  /\ run["loadLegalVersions"].request = "versions"
  /\ \E ready \in {"yes", "no"} :
       Show(page, user, loading, stored, Ends("loadLegalVersions"),
            IF page = "register" THEN [form EXCEPT !.ready = ready] ELSE form)
  /\ UNCHANGED <<server, late>>

\* The link is used; a tab with tokens then asks for the user again.
useLink ==
  /\ run["followLink"].request = "link"
  /\ link = "good"
  /\ page = "confirm" => Authorized("followLink")
  /\ link' = "used"
  /\ IF stored
     THEN Show(page, user, loading, stored, Goes("followLink", "me"), form)
     ELSE Show(page, user, loading, stored, Ends("followLink"),
               IF page \in {"verify", "confirm"} THEN [form EXCEPT !.shows = "success"] ELSE form)
  /\ UNCHANGED <<temp, outdated, published, late>>

\* Refused: it is no good any more, or confirm-email-change wants a session.
LinkRefused ==
  /\ run["followLink"].request = "link"
  /\ link = "used" \/ (page = "confirm" /\ ~Authorized("followLink"))
  /\ Show(page, user, loading, stored, Ends("followLink"),
          IF page \in {"verify", "confirm"} THEN [form EXCEPT !.shows = "error"] ELSE form)
  /\ UNCHANGED <<server, late>>

\* Whatever the answer.
LinkUser ==
  /\ run["followLink"].request = "me"
  /\ \E st \in Kept :
       Show(page, user, loading, st, Ends("followLink"),
            IF page \in {"verify", "confirm"} THEN [form EXCEPT !.shows = "success"] ELSE form)
  /\ UNCHANGED <<server, late>>

resent ==
  /\ run["resend"].request = "resend"
  /\ \E shows \in {"sent", "unsent"} :
       Show(page, user, loading, stored, Ends("resend"),
            IF form.waits = "resend" THEN [form EXCEPT !.waits = "none", !.shows = shows] ELSE form)
  /\ UNCHANGED <<server, late>>

\* The interceptor found no session: a request that was sent with its token, or
\* without any.  Away from the login and the registration the tab is loaded
\* again, at the login.
ThrownOut(f) ==
  /\ run[f].request \in {"me", "status"} \cup Consents
  /\ page \notin {"login", "register"}
  /\ page' = "login"
  /\ user' = FALSE
  /\ loading' = FALSE
  /\ stored' = FALSE
  /\ form' = Blank
  /\ run' = [g \in Functions |-> Done]
  /\ UNCHANGED <<server, late>>

\* New terms or a new privacy policy come out.
Publish(d) ==
  /\ published < MaxPublished
  /\ published' = published + 1
  /\ outdated' = outdated \cup {d}
  /\ late' = [form |-> late.form \cup {d}, run |-> late.run \cup {d}]
  /\ UNCHANGED <<page, user, loading, stored, run, form, temp, link>>

-----------------------------------------------------------------------------
Act == \/ handleSubmit \/ handle2FAVerify \/ handleBack \/ submitRegistration \/ submitConsents
       \/ retryLoad \/ Follow \/ openResend \/ handleResend \/ logout
       \/ Reload

Answer(f) == \/ SignedIn(f) \/ SignInFails(f) \/ GotUser(f) \/ NoUser(f)
             \/ checkConsentStatus(f)
             \/ f = "login" /\ AskCode
             \/ f = "loadUser" /\ LoadFails
             \/ f = "loadConsentStatus" /\ loadConsentStatus
             \/ f = "loadLegalVersions" /\ loadLegalVersions
             \/ f = "grantConsents" /\ (Grant \/ GrantFails)
             \/ f = "followLink" /\ (useLink \/ LinkRefused \/ LinkUser)
             \/ f = "resend" /\ resent

Next == \/ Act
        \/ \E f \in Functions : Answer(f) \/ ThrownOut(f)
        \/ \E d \in Documents : Publish(d)

Spec == Init /\ [][Next]_vars

-----------------------------------------------------------------------------
(* Properties.                                                             *)

TypeOK ==
  /\ page \in Public \cup Protected
  /\ user \in BOOLEAN /\ loading \in BOOLEAN /\ stored \in BOOLEAN
  /\ run \in [Functions -> Await]
  /\ form \in Form
  /\ temp \in {"none", "fresh", "used"}
  /\ outdated \subseteq Documents
  /\ published \in 0..MaxPublished
  /\ link \in {"good", "used"}
  /\ late \in [form : SUBSET Documents, run : SUBSET Documents]

\* The form that asks for the consents again opens the app only when all are
\* given, but for documents published since the status it asks by was read.
GateOpens ==
  run["grantConsents"].request = "status" /\ run'["grantConsents"] = Done /\ page' = "app"
    => outdated \subseteq late.run

\* A tab that has a user has tokens, too.
\* Does not hold: the first load that fails late drops the tokens of a login, and
\* a logout is overtaken by a load that succeeds.
UserHasTokens == user => stored

\* frontend/README.md: the gate "requires accepting both before proceeding".
\* Does not hold: a version that is published meanwhile is not asked for.
GateShut ==
  run["grantConsents"].request = "status" /\ run'["grantConsents"] = Done /\ page' = "app"
    => outdated = {}

\* No form stays disabled: the function it waits for still awaits an answer.
FormsEnd == form.waits # "none" => run[form.waits] # Done

\* frontend/README.md: /confirm-email-change consumes the link of a signed-in user.
\* Does not hold: a request that fails on the way leaves the page with its error.
LinkConfirms == LinkError /\ user => link = "used"
=============================================================================
