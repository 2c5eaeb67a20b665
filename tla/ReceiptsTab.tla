----------------------------- MODULE ReceiptsTab -----------------------------
(***************************************************************************)
(* The receipts below the form that edits a transaction: attachments that  *)
(* are extracted in the background, polled, and reviewed                   *)
(* (src/frontend/src/components/transactions/TransactionAttachments.tsx,   *)
(* ExtractionReviewModal.tsx and hooks/useExtractionPolling.ts).           *)
(*                                                                         *)
(* A tab that is not selected is not mounted: its state is lost, the query *)
(* cache and the requests it sent stay.  A fetch may fail: the query keeps *)
(* the data it had, or none.  The task is in Extraction.tla: here one that *)
(* is asked for ends, done or failed.  What a review does to the items is  *)
(* in ItemsTab.tla.  Data grow old only by being invalidated: the five     *)
(* minutes of staleTime (queryClient.ts:9) are left out.                   *)
(***************************************************************************)
EXTENDS Naturals

CONSTANTS
  Attachments,
  MaxRuns,    \* bound on the extractions of an attachment
  None

ASSUME ReceiptsTabAssumption == None \notin Attachments /\ MaxRuns \in Nat

VARIABLES
  mounted,    \* is the tab selected
  job,        \* server: the extraction of each attachment
  runs,       \* how often each was extracted
  list,       \* the query transaction-attachments: the status of each
  listFetch,
  extraction, \* the queries extraction: what the poll of each told
  poll,       \* the attachments whose poll is under way
  ui,         \* pendingId, review and seenResult
  starting    \* the request to extract

vars == <<mounted, job, runs, list, listFetch, extraction, poll, ui, starting>>

-----------------------------------------------------------------------------
Job == {"absent", "none", "pending", "done", "failed"}

NoFetch == [state |-> "idle", data |-> None]
Sent == [state |-> "sent", data |-> None]
Served(d) == [state |-> "served", data |-> d]

\* rows: the receipt the rows of the review were read from.
Ui == [pendingId : Attachments \cup {None}, review : Attachments \cup {None},
       rows : Attachments \cup {None}, seen : Attachments \cup {None}]

Unmounted == [pendingId |-> None, review |-> None, rows |-> None, seen |-> None]

Starting == [state : {"idle", "sent", "served"}, att : Attachments \cup {None}]

NotStarting == [state |-> "idle", att |-> None]

Init ==
  /\ mounted = FALSE
  /\ job \in [Attachments -> {"absent", "pending"}]
  /\ runs = [a \in Attachments |-> IF job[a] = "pending" THEN 1 ELSE 0]
  /\ list = [data |-> None, stale |-> TRUE] /\ listFetch = NoFetch
  /\ extraction = [a \in Attachments |-> None]
  /\ poll = {}
  /\ ui = Unmounted
  /\ starting = NotStarting

-----------------------------------------------------------------------------
(* Polling.                                                                *)

\* The first of the attachments that the list shows as pending.
serverPendingId(known) ==
  LET P == IF known = None THEN {} ELSE {a \in Attachments : known[a] = "pending"}
  IN IF P = {} THEN None ELSE CHOOSE a \in P : TRUE

\* Mutant: follows what this tab has started.
activeHere(u, known) == u.pendingId

activePendingId(u, known) == IF u.pendingId # None THEN u.pendingId ELSE serverPendingId(known)

\* One round of the adjustments while rendering: a result that was not seen is
\* reviewed, and a poll that ended frees pendingId.  The review's rows are read
\* when it appears.
Adjusted(u, known, told) ==
  LET a == activePendingId(u, known)
  IN IF a = None THEN u ELSE
     IF told[a] = "done" /\ u.seen # a
     THEN [pendingId |-> None, review |-> a, rows |-> IF u.review = None THEN a ELSE u.rows, seen |-> a]
     ELSE IF told[a] \in {"done", "failed"} THEN [u EXCEPT !.pendingId = None] ELSE u

\* Rendered until nothing changes: first pendingId, then what the list shows.
Rendered(u, known, told) == Adjusted(Adjusted(u, known, told), known, told)

\* The attachment whose extraction is watched.
Watched(m, u, known) == IF m THEN activePendingId(u, known) ELSE None

\* The one whose poll has no answer yet.
Unanswered(a, told) == {b \in {a} \ {None} : told[b] = None}

\* The one whose end the poll shows.
Ended(m, u, known, told) ==
  LET a == Watched(m, u, known)
  IN IF a = None THEN None ELSE IF told[a] \in {"done", "failed"} THEN a ELSE None

\* What is rendered from the queries l and told, while f and p are fetched.  The
\* attachment that comes to be watched is polled if nothing is known of it, and an
\* end that was not shown before makes the list be fetched again.
Render(m, u, l, f, told, p) ==
  \E v \in {IF m THEN Rendered(u, l.data, told) ELSE Unmounted} :
    LET a == Watched(m, v, l.data)
        end == Ended(m, v, l.data, told)
        new == end # None /\ end # Ended(mounted, ui, list.data, extraction)
    IN /\ mounted' = m /\ ui' = v /\ extraction' = told
       /\ poll' = IF a # Watched(mounted, ui, list.data) THEN p \cup Unanswered(a, told) ELSE p
       /\ list' = [l EXCEPT !.stale = @ \/ new]
       /\ listFetch' = IF new THEN Sent ELSE f

\* An invalidated list is fetched again, now or when the tab is mounted.  A fetch
\* goes on that runs while nothing shows the list, or is the first.
Refetch ==
  IF mounted /\ (list.data # None \/ listFetch.state = "idle") THEN Sent ELSE listFetch

Stale == [list EXCEPT !.stale = TRUE]

\* The button of the tab, and of the other one.
setDetailTab ==
  /\ Render(~mounted, Unmounted, list,
            IF ~mounted /\ list.stale /\ listFetch.state = "idle" THEN Sent ELSE listFetch, extraction, poll)
  /\ UNCHANGED <<job, runs, starting>>

ListServed ==
  /\ listFetch.state = "sent"
  /\ listFetch' = Served(job)
  /\ UNCHANGED <<mounted, job, runs, list, extraction, poll, ui, starting>>

\* The review is shown while its attachment is in the list.
ListArrives ==
  /\ listFetch.state = "served"
  /\ LET u == IF ui.review # None /\ listFetch.data[ui.review] = "absent"
              THEN [ui EXCEPT !.review = None, !.rows = None] ELSE ui
     IN Render(mounted, u, [data |-> listFetch.data, stale |-> FALSE], NoFetch, extraction, poll)
  /\ UNCHANGED <<job, runs, starting>>

\* The list stays what it was, and stale.
ListFails ==
  /\ listFetch.state # "idle"
  /\ listFetch' = NoFetch
  /\ UNCHANGED <<mounted, job, runs, list, extraction, poll, ui, starting>>

\* The attachment whose badge is polled.
Polled == Watched(mounted, ui, list.data)

\* refetchInterval: again while the last answer says pending.
PollSent(a) ==
  /\ a = Polled /\ a \notin poll
  /\ extraction[a] = "pending"
  /\ poll' = poll \cup {a}
  /\ UNCHANGED <<mounted, job, runs, list, listFetch, extraction, ui, starting>>

\* An answer that was overtaken says pending, as one that comes before it does.
PollArrives(a) ==
  /\ a \in poll
  /\ job[a] # "absent"
  /\ Render(mounted, ui, list, listFetch, [extraction EXCEPT ![a] = job[a]], poll \ {a})
  /\ UNCHANGED <<job, runs, starting>>

\* Refused, lost, or of an attachment that is gone: what was known stays, and if
\* that is nothing there is no interval that polls again.
PollFails(a) ==
  /\ a \in poll
  /\ poll' = poll \ {a}
  /\ UNCHANGED <<mounted, job, runs, list, listFetch, extraction, ui, starting>>

\* The window is looked at again: what is stale or missing is fetched.
windowFocused ==
  /\ mounted
  /\ listFetch' = IF list.stale /\ listFetch.state = "idle" THEN Sent ELSE listFetch
  /\ poll' = poll \cup Unanswered(Polled, extraction)
  /\ UNCHANGED <<mounted, job, runs, list, extraction, ui, starting>>

Listed(a) == mounted /\ list.data # None /\ list.data[a] # "absent"

\* The badge in place of the button.
isExtracting(a) ==
  /\ Listed(a)
  /\ ui.pendingId = a \/ list.data[a] = "pending" \/ starting.att = a

startExtraction(a) ==
  /\ Listed(a) /\ ~isExtracting(a)
  /\ starting.state = "idle"
  /\ starting' = [state |-> "sent", att |-> a]
  /\ UNCHANGED <<mounted, job, runs, list, listFetch, extraction, poll, ui>>

ExtractServed ==
  /\ starting.state = "sent"
  /\ LET a == starting.att
     IN /\ job[a] # "absent"
        /\ runs[a] < MaxRuns
        /\ job' = [job EXCEPT ![a] = "pending"]
        /\ runs' = [runs EXCEPT ![a] = @ + 1]
  /\ starting' = [starting EXCEPT !.state = "served"]
  /\ UNCHANGED <<mounted, list, listFetch, extraction, poll, ui>>

\* The attachment is watched, unless the tab was left, and the list fetched.
ExtractionStarted ==
  /\ starting.state = "served"
  /\ starting' = NotStarting
  /\ Render(mounted, [ui EXCEPT !.pendingId = starting.att], Stale, Refetch, extraction, poll)
  /\ UNCHANGED <<job, runs>>

ExtractFails ==
  /\ starting.state # "idle"
  /\ starting' = NotStarting
  /\ UNCHANGED <<mounted, job, runs, list, listFetch, extraction, poll, ui>>

\* The file input and the corner of a tile; the server answers, and the list is
\* fetched again.
upload(a) ==
  /\ mounted /\ job[a] = "absent" /\ runs[a] = 0
  /\ job' = [job EXCEPT ![a] = "none"]
  /\ list' = Stale /\ listFetch' = Refetch
  /\ UNCHANGED <<mounted, runs, extraction, poll, ui, starting>>

remove(a) ==
  /\ Listed(a) /\ job[a] # "absent"
  /\ job' = [job EXCEPT ![a] = "absent"]
  /\ runs' = [runs EXCEPT ![a] = MaxRuns]
  /\ list' = Stale /\ listFetch' = Refetch
  /\ UNCHANGED <<mounted, extraction, poll, ui, starting>>

-----------------------------------------------------------------------------
(* The review of a parsed receipt.                                         *)

\* By its button, or by the answer to its save, which closes also a review that
\* appeared meanwhile.
closeReview ==
  /\ ui.review # None
  /\ ui' = [ui EXCEPT !.review = None, !.rows = None]
  /\ UNCHANGED <<mounted, job, runs, list, listFetch, extraction, poll, starting>>

-----------------------------------------------------------------------------
\* The task of the server, whose end may be a failure.
JobEnds(a) ==
  /\ job[a] = "pending"
  /\ \E end \in {"done", "failed"} : job' = [job EXCEPT ![a] = end]
  /\ UNCHANGED <<mounted, runs, list, listFetch, extraction, poll, ui, starting>>

Polling(a) == PollSent(a) \/ PollArrives(a) \/ PollFails(a)

Next ==
  \/ setDetailTab \/ windowFocused
  \/ ListServed \/ ListArrives \/ ListFails \/ ExtractServed \/ ExtractionStarted \/ ExtractFails
  \/ closeReview
  \/ \E a \in Attachments : Polling(a) \/ startExtraction(a) \/ upload(a) \/ remove(a) \/ JobEnds(a)

\* Requests end, the poll's timer runs, a poll that is sent again and again is
\* answered once, and tasks end.
Fairness ==
  /\ WF_vars(ListServed \/ ListArrives \/ ListFails)
  /\ WF_vars(ExtractServed \/ ExtractionStarted \/ ExtractFails)
  /\ \A a \in Attachments : WF_vars(Polling(a)) /\ SF_vars(PollArrives(a)) /\ WF_vars(JobEnds(a))

Spec == Init /\ [][Next]_vars /\ Fairness

-----------------------------------------------------------------------------
(* Properties.                                                             *)

TypeOK ==
  /\ mounted \in BOOLEAN
  /\ job \in [Attachments -> Job] /\ runs \in [Attachments -> 0..MaxRuns]
  /\ list.data = None \/ list.data \in [Attachments -> Job]
  /\ extraction \in [Attachments -> Job \cup {None}]
  /\ poll \subseteq Attachments /\ ui \in Ui /\ starting \in Starting

\* Nothing asks again by itself: of the attachment that is watched nothing is known
\* and its poll has failed, or the fetch of an invalidated list has.
GaveUp ==
  \/ Unanswered(Polled, extraction) \ poll # {}
  \/ mounted /\ list.stale /\ listFetch.state = "idle"

\* The badge of a first extraction ends while the tab shows it, whatever polls fail,
\* unless the first poll or the list's fetch did, or the attachment that is watched
\* was removed.
FirstBadgeEnds ==
  \A a \in Attachments :
    (isExtracting(a) /\ runs[a] <= 1) ~>
      (~isExtracting(a) \/ runs[a] > 1 \/ GaveUp \/ (ui.pendingId # None /\ ~Listed(ui.pendingId)))

\* useExtractionPolling: the badge is never stuck forever.
\* Does not hold: the first poll may fail, or follow an attachment that was removed.
BadgeEnds == \A a \in Attachments : isExtracting(a) ~> ~isExtracting(a)

\* ExtractionReviewModal: the rows are those of the receipt under review.
\* Does not hold: the rows are kept when the review goes on to another receipt.
ReviewRowsMatch == ui.rows = ui.review
=============================================================================
