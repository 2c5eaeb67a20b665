---------------------------- MODULE QueryCache ----------------------------
(***************************************************************************)
(* One entry of the query cache of one browser tab (TanStack Query, as     *)
(* src/frontend/src sets it up), against the database it shows.            *)
(*                                                                         *)
(* The initial state picks the watched query and the mutations that will   *)
(* be called; what is kept of them is what the entry can tell apart, so    *)
(* queries that are treated alike are checked once.  log lists the changes *)
(* of what the query shows, in the order the database made them; an answer *)
(* is known by how many of them it has seen.  Mutations of this tab, the   *)
(* worker that books plans, and other tabs and users write; every request  *)
(* and answer may be late, refused or lost.                                *)
(***************************************************************************)
EXTENDS CacheKeys, FiniteSets

CONSTANTS
  Watched,     \* names of the queries among which the watched one is picked
  Calls,       \* calls of mutations, each made once; a bound
  MaxOthers,   \* bound on the changes made elsewhere
  None

ASSUME CacheAssumption ==
  /\ Watched \subseteq DOMAIN Queries
  /\ MaxOthers \in Nat
  /\ IsFiniteSet(Calls)

VARIABLES
  q,         \* how the watched query is fetched again
  log,       \* the changes of what it shows
  entry,     \* its cache entry, None if there is none
  fetch,     \* its request
  mounted,   \* whether a component observes it
  call,      \* call[c]: a mutation's call
  owed       \* history: how many changes the last look at a list is to show

vars == <<q, log, entry, fetch, mounted, call, owed>>

-----------------------------------------------------------------------------
\* told: its mutation is to update the entry.  gap: its mutation does not (the
\* pairs listed under Unrefreshed).  late: made by the server afterwards.
\* lost: told, but the answer was lost.  other: made elsewhere.
Kinds == {"told", "gap", "late", "lost", "other"}

Sizes == 0 .. 2 * Cardinality(Calls) + MaxOthers

\* seen: how many changes the data shows.  stale: invalidated, or older than
\* staleTime.  overtaken: history: the data is older than the handler's call
\* that was to refresh it.
Entry == [seen : Sizes, stale : BOOLEAN, overtaken : BOOLEAN]

Fetch == [state : {"none", "sent", "read"}, seen : Sizes, overtaken : BOOLEAN]

NoFetch == [state |-> "none", seen |-> 0, overtaken |-> FALSE]
Sent    == [state |-> "sent", seen |-> 0, overtaken |-> FALSE]

\* How the query is fetched again: at a look at the tab, and every minute.
Observed(n) == [looks |-> Queries[n].looks, polled |-> Queries[n].polled]

\* What a call of m does, as far as the watched query n is concerned.
Effect(m, n) == [kind       |-> IF Touch(m, n) = "none" /\ <<n, m>> \in Unrefreshed
                                THEN "gap" ELSE "told",
                 changes    |-> Changes(m, n),
                 later      |-> ChangesLater(m, n),
                 touch      |-> Touch(m, n),
                 settles    |-> Mutations[m].settles,
                 optimistic |-> Mutations[m].optimistic]

Effects(n) == {e \in {Effect(m, n) : m \in DOMAIN Mutations} :
                 e.changes \/ e.later \/ e.touch # "none"}

EffectType == [kind : Kinds, changes : BOOLEAN, later : BOOLEAN,
               touch : {"none", "invalidate", "remove", "set"},
               settles : BOOLEAN, optimistic : BOOLEAN]

\* What FreshAgrees rests on in the table: a change that the entry is told of is told
\* by a handler that does something to it, and what was written beforehand is fetched
\* again whatever the answer is.
ASSUME TableAssumption ==
  \A n \in DOMAIN Queries : \A e \in Effects(n) :
    /\ e \in EffectType
    /\ e.kind = "told" /\ e.changes => e.touch # "none"
    /\ e.optimistic => e.settles /\ e.touch = "invalidate"

\* at: the position of its change in the log.  booking: the change the server
\* makes later is due.
Call == [state   : {"new", "sent", "applied", "ended"},
         effect  : EffectType,
         at      : Sizes,
         booking : BOOLEAN]

NewCall(e) == [state |-> "new", effect |-> e, at |-> 0, booking |-> FALSE]

Init ==
  /\ \E n \in Watched : /\ q = Observed(n)
                        /\ call \in [Calls -> {NewCall(e) : e \in Effects(n)}]
  /\ log = << >>
  /\ entry = None
  /\ fetch = NoFetch
  /\ mounted = FALSE
  /\ owed = 0

-----------------------------------------------------------------------------
(* Observing the query.                                                    *)

\* The entry is missing or stale.
Outdated == IF entry = None THEN TRUE ELSE entry.stale

\* A request under way is joined, not repeated.
Joined == IF fetch.state = "none" THEN Sent ELSE fetch

\* A page that uses the query appears: it fetches what is missing or stale.
Mount ==
  /\ ~mounted
  /\ mounted' = TRUE
  /\ fetch' = IF Outdated THEN Joined ELSE fetch
  /\ UNCHANGED <<q, log, entry, call, owed>>

\* It goes; its request goes on.
Unmount ==
  /\ mounted
  /\ mounted' = FALSE
  /\ owed' = 0
  /\ UNCHANGED <<q, log, entry, fetch, call>>

\* Mutant: a look refetches only what is stale, the library's default.
refetchStale == Outdated

\* What a look at the tab fetches again.
refetchOnWindowFocus ==
  CASE q.looks = "always" -> TRUE
    [] q.looks = "stale"  -> Outdated
    [] OTHER                       -> FALSE

\* The tab gets the focus.  A request that was served already is joined, too,
\* and then shows nothing newer than it read.
Look ==
  /\ mounted
  /\ fetch' = IF refetchOnWindowFocus THEN Joined ELSE fetch
  /\ owed' = IF q.looks = "always" /\ fetch.state # "read" THEN Len(log) ELSE owed
  /\ UNCHANGED <<q, log, entry, mounted, call>>

\* The entry gets older than staleTime.
staleTime ==
  /\ entry # None
  /\ ~entry.stale
  /\ q.looks # "never"
  /\ entry' = [entry EXCEPT !.stale = TRUE]
  /\ UNCHANGED <<q, log, fetch, mounted, call, owed>>

\* useExtractionConfig asks again every minute.
refetchInterval ==
  /\ mounted
  /\ q.polled
  /\ fetch' = Joined
  /\ UNCHANGED <<q, log, entry, mounted, call, owed>>

ServeFetch ==
  /\ fetch.state = "sent"
  /\ fetch' = [fetch EXCEPT !.state = "read", !.seen = Len(log)]
  /\ UNCHANGED <<q, log, entry, mounted, call, owed>>

ReceiveFetch ==
  /\ fetch.state = "read"
  /\ entry' = [seen |-> fetch.seen, stale |-> FALSE, overtaken |-> fetch.overtaken]
  /\ fetch' = NoFetch
  /\ owed' = IF fetch.seen >= owed THEN 0 ELSE owed
  /\ UNCHANGED <<q, log, mounted, call>>

\* The request fails, its retry included.
FailFetch ==
  /\ fetch.state # "none"
  /\ fetch' = NoFetch
  /\ owed' = 0
  /\ UNCHANGED <<q, log, entry, mounted, call>>

-----------------------------------------------------------------------------
(* What a handler does to the entry.                                       *)

Overtake(f) == [f EXCEPT !.overtaken = f.state = "read"]

\* Mutant: joins the request under way also when there is data.
invalidateJoining ==
  /\ entry' = IF entry = None THEN None ELSE [entry EXCEPT !.stale = TRUE]
  /\ fetch' = IF mounted THEN Joined ELSE fetch

\* Marks the entry; a mounted query fetches it again and drops an older
\* request, unless that is the first one, which it joins.
invalidateQueries ==
  /\ entry' = IF entry = None THEN None ELSE [entry EXCEPT !.stale = TRUE]
  /\ fetch' = IF ~mounted \/ (entry = None /\ fetch.state # "none")
              THEN Overtake(fetch)
              ELSE Sent

\* Drops the entry and its request; a mounted query starts anew.
removeQueries ==
  /\ entry' = None
  /\ fetch' = IF mounted THEN Sent ELSE NoFetch

\* Writes the answer of the call, which saw the change at position n of the
\* log; a request under way is not dropped.
setQueryData(n) ==
  /\ entry' = [seen |-> n, stale |-> FALSE, overtaken |-> n < Len(log)]
  /\ fetch' = IF fetch.state = "read" /\ fetch.seen < n THEN Overtake(fetch) ELSE fetch

Settle(e, n) ==
  CASE e.touch = "invalidate" -> invalidateQueries
    [] e.touch = "remove"     -> removeQueries
    [] e.touch = "set"        -> setQueryData(n)
    [] OTHER                  -> UNCHANGED <<entry, fetch>>

-----------------------------------------------------------------------------
(* The calls.                                                              *)

\* An optimistic handler writes the order it expects over the entry.
Start(c) ==
  /\ call[c].state = "new"
  /\ call' = [call EXCEPT ![c].state = "sent"]
  /\ entry' = IF call[c].effect.optimistic /\ entry # None
              THEN [entry EXCEPT !.stale = FALSE] ELSE entry
  /\ UNCHANGED <<q, log, fetch, mounted, owed>>

Apply(c) ==
  /\ call[c].state = "sent"
  /\ log' = IF call[c].effect.changes THEN Append(log, call[c].effect.kind) ELSE log
  /\ call' = [call EXCEPT ![c].state = "applied", ![c].at = Len(log'),
                          ![c].booking = call[c].effect.later]
  /\ UNCHANGED <<q, entry, fetch, mounted, owed>>

\* The server refuses the call.
Refuse(c) ==
  /\ call[c].state = "sent"
  /\ call' = [call EXCEPT ![c].state = "ended"]
  /\ IF call[c].effect.settles THEN Settle(call[c].effect, 0) ELSE UNCHANGED <<entry, fetch>>
  /\ UNCHANGED <<q, log, mounted, owed>>

Answer(c) ==
  /\ call[c].state = "applied"
  /\ call' = [call EXCEPT ![c].state = "ended"]
  /\ Settle(call[c].effect, call[c].at)
  /\ UNCHANGED <<q, log, mounted, owed>>

\* The answer is lost: the handler takes the call for refused.
LoseAnswer(c) ==
  /\ call[c].state = "applied"
  /\ ~call[c].effect.settles
  /\ call' = [call EXCEPT ![c].state = "ended"]
  /\ log' = IF call[c].effect.changes THEN [log EXCEPT ![call[c].at] = "lost"] ELSE log
  /\ UNCHANGED <<q, entry, fetch, mounted, owed>>

\* The worker makes the change the answer did not wait for.
Book(c) ==
  /\ call[c].booking
  /\ log' = Append(log, "late")
  /\ call' = [call EXCEPT ![c].booking = FALSE]
  /\ UNCHANGED <<q, entry, fetch, mounted, owed>>

\* Another tab or user changes what the query shows.
ChangeElsewhere ==
  /\ Cardinality({i \in 1..Len(log) : log[i] = "other"}) < MaxOthers
  /\ log' = Append(log, "other")
  /\ UNCHANGED <<q, entry, fetch, mounted, call, owed>>

Next ==
  \/ Mount \/ Unmount \/ Look \/ staleTime \/ refetchInterval
  \/ ServeFetch \/ ReceiveFetch \/ FailFetch
  \/ \E c \in Calls : Start(c) \/ Apply(c) \/ Refuse(c) \/ Answer(c) \/ LoseAnswer(c) \/ Book(c)
  \/ ChangeElsewhere

Spec == Init /\ [][Next]_vars

\* The server answers, the network delivers and the worker works.
Fairness ==
  /\ WF_vars(ServeFetch)
  /\ WF_vars(ReceiveFetch)
  /\ \A c \in Calls : WF_vars(Apply(c)) /\ WF_vars(Answer(c)) /\ WF_vars(Book(c))

FairSpec == Spec /\ Fairness

-----------------------------------------------------------------------------
(* Properties.                                                             *)

TypeOK ==
  /\ q \in {Observed(n) : n \in Watched}
  /\ log \in Seq(Kinds) /\ Len(log) \in Sizes
  /\ entry \in Entry \cup {None}
  /\ fetch \in Fetch
  /\ mounted \in BOOLEAN
  /\ call \in [Calls -> Call]
  /\ owed \in Sizes

\* A mutation whose handler will update the entry has not been answered yet.
Pending == \E c \in Calls : /\ call[c].state \in {"sent", "applied"}
                            /\ call[c].effect.touch # "none"

Fresh == entry # None /\ ~entry.stale /\ ~entry.overtaken /\ ~Pending

\* An entry the cache takes for fresh shows every change this tab's own
\* mutations made, but for the pairs the code leaves out: also when requests,
\* answers, page changes and workspace switches cross each other.
FreshAgrees == Fresh => \A i \in entry.seen + 1 .. Len(log) : log[i] # "told"

\* architecture.md, Data Fetching: mutations invalidate the affected queries.
\* Does not hold for the pairs listed in Unrefreshed.
MutationsInvalidate ==
  Fresh => \A i \in entry.seen + 1 .. Len(log) : log[i] \notin {"told", "gap"}

\* useDomain.ts: a list converges whenever the user looks at the tab again,
\* whoever changed it, unless its request fails or the page goes.
LookAgain == owed # 0 ~> owed = 0
=============================================================================
