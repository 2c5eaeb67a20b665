------------------------- MODULE QueryCache_proofs -------------------------
(***************************************************************************)
(* An entry that the cache takes for fresh shows every change that its own *)
(* tab's mutations told it of: for any number of calls and of changes made *)
(* elsewhere, for every table of queries and mutations of which            *)
(* TableAssumption holds.                                                  *)
(***************************************************************************)
EXTENDS QueryCache, TLAPS

-----------------------------------------------------------------------------
(* The invariant.                                                          *)

Record == [state : {"new", "sent", "applied", "ended"}, effect : EffectType,
           at : Nat, booking : BOOLEAN]

\* The types that the argument needs, without the bounds on what is counted.
Typed ==
  /\ log \in Seq(Kinds)
  /\ entry # None => entry \in [seen : Nat, stale : BOOLEAN, overtaken : BOOLEAN]
  /\ fetch \in [state : {"none", "sent", "read"}, seen : Nat, overtaken : BOOLEAN]
  /\ mounted \in BOOLEAN
  /\ call \in [Calls -> Record]

\* TableAssumption, of one effect.
Kept(e) ==
  /\ e.kind = "told" /\ e.changes => e.touch # "none"
  /\ e.optimistic => e.settles /\ e.touch = "invalidate"

EffectsKept == \A c \in Calls : Kept(call[c].effect)

\* The answer that tells of change i is still to come.
Answering(c, i) ==
  /\ call[c].state = "applied" /\ call[c].at = i
  /\ call[c].effect.kind = "told" /\ call[c].effect.changes

\* The entry holds what an optimistic handler expects.
Expecting == \E c \in Calls : call[c].state \in {"sent", "applied"} /\ call[c].effect.optimistic

EntryShows(i) == entry # None => entry.stale \/ entry.overtaken \/ i <= entry.seen

FetchShows(i) == fetch.state = "read" => fetch.overtaken \/ i <= fetch.seen

Shows(i) == (EntryShows(i) \/ Expecting) /\ FetchShows(i)

\* Of every change the entry is told of, the answer is still to come, or the entry and
\* the request under way show it or are known to be older.
ToldShown ==
  \A i \in 1..Len(log) : log[i] = "told" => (\E c \in Calls : Answering(c, i)) \/ Shows(i)

IInv == Typed /\ EffectsKept /\ ToldShown

-----------------------------------------------------------------------------
(* The start.                                                              *)

LEMMA InitInv ==
  ASSUME Init
  PROVE  IInv
  <1>1. PICK n \in Watched : call \in [Calls -> {NewCall(e) : e \in Effects(n)}]
    BY DEF Init
  <1>2. n \in DOMAIN Queries
    BY CacheAssumption
  <1>3. ASSUME NEW c \in Calls
        PROVE  call[c] \in Record /\ Kept(call[c].effect)
    <2>1. PICK e \in Effects(n) : call[c] = NewCall(e)
      BY <1>1
    <2>2. e \in EffectType /\ Kept(e)
      BY <1>2, TableAssumption DEF Kept
    <2> QED
      BY <2>1, <2>2 DEF NewCall, Record
  <1>4. Typed
    <2>1. call \in [Calls -> Record]
      BY <1>1, <1>3
    <2>2. log = << >> /\ mounted = FALSE /\ entry = None /\ fetch = NoFetch
      BY DEF Init
    <2>3. NoFetch \in [state : {"none", "sent", "read"}, seen : Nat, overtaken : BOOLEAN]
      BY DEF NoFetch
    <2>4. << >> \in Seq(Kinds)
      OBVIOUS
    <2> QED
      BY <2>1, <2>2, <2>3, <2>4 DEF Typed
  <1>5. EffectsKept
    BY <1>3 DEF EffectsKept
  <1>6. ToldShown
    BY DEF Init, ToldShown
  <1> QED
    BY <1>4, <1>5, <1>6 DEF IInv

-----------------------------------------------------------------------------
(* Steps of one call.                                                      *)

LEMMA OneCall ==
  ASSUME IInv, NEW c \in Calls, NEW r \in Record, r.effect = call[c].effect,
         call' = [call EXCEPT ![c] = r]
  PROVE  /\ call' \in [Calls -> Record] /\ EffectsKept'
         /\ call'[c] = r
         /\ \A d \in Calls : d # c => call'[d] = call[d]
         /\ \A d \in Calls : call'[d].effect = call[d].effect
  <1>1. call \in [Calls -> Record]
    BY DEF IInv, Typed
  <1>2. /\ call' \in [Calls -> Record]
        /\ call'[c] = r
        /\ \A d \in Calls : d # c => call'[d] = call[d]
    BY <1>1
  <1>3. \A d \in Calls : call'[d].effect = call[d].effect
    BY <1>2
  <1> QED
    BY <1>2, <1>3 DEF IInv, EffectsKept

\* A call changes its state.
LEMMA OneState ==
  ASSUME IInv, NEW c \in Calls, NEW st \in {"new", "sent", "applied", "ended"},
         call' = [call EXCEPT ![c].state = st]
  PROVE  /\ call' \in [Calls -> Record] /\ EffectsKept'
         /\ call'[c].state = st
         /\ \A d \in Calls : d # c => call'[d] = call[d]
         /\ \A d \in Calls : call'[d].effect = call[d].effect
  <1> DEFINE r == [call[c] EXCEPT !.state = st]
  <1>1. call[c] \in Record
    BY DEF IInv, Typed
  <1>2. r \in Record /\ r.effect = call[c].effect /\ r.state = st
    BY <1>1 DEF Record
  <1>3. call' = [call EXCEPT ![c] = r]
    OBVIOUS
  <1> HIDE DEF r
  <1> QED
    BY <1>2, <1>3, OneCall

-----------------------------------------------------------------------------
(* Steps that make no change.                                              *)

\* A step that leaves the log and the calls alone keeps the invariant if what was shown
\* stays shown.
LEMMA QuietKeepsInv ==
  ASSUME IInv, Typed', UNCHANGED <<log, call>>,
         \A i \in 1..Len(log) : EntryShows(i) /\ FetchShows(i) => EntryShows(i)',
         \A i \in 1..Len(log) : FetchShows(i) => FetchShows(i)'
  PROVE  IInv'
  <1>1. EffectsKept'
    BY DEF IInv, EffectsKept
  <1>2. Expecting' <=> Expecting
    BY DEF Expecting
  <1>3. ToldShown'
    <2> SUFFICES ASSUME NEW i \in 1..Len(log), log[i] = "told"
                 PROVE  (\E c \in Calls : Answering(c, i))' \/ Shows(i)'
      BY DEF ToldShown
    <2>1. (\E c \in Calls : Answering(c, i)) \/ Shows(i)
      BY DEF IInv, ToldShown
    <2>2. CASE \E c \in Calls : Answering(c, i)
      BY <2>2 DEF Answering
    <2>3. CASE Shows(i)
      BY <1>2, <2>3 DEF Shows
    <2> QED
      BY <2>1, <2>2, <2>3
  <1> QED
    BY <1>1, <1>3 DEF IInv

\* What a component does: a request is sent or joined, the entry stays.
LEMMA AskingKeepsInv ==
  ASSUME IInv, Mount \/ Unmount \/ Look \/ refetchInterval
  PROVE  IInv'
  <1>1. fetch' \in {fetch, Joined} /\ mounted' \in BOOLEAN /\ UNCHANGED <<log, entry, call>>
    BY DEF IInv, Typed, Mount, Unmount, Look, refetchInterval
  <1>2. Typed'
    <2>1. Joined \in [state : {"none", "sent", "read"}, seen : Nat, overtaken : BOOLEAN]
      BY DEF IInv, Typed, Joined, Sent
    <2> QED
      BY <1>1, <2>1 DEF IInv, Typed
  <1>3. \A i \in 1..Len(log) : EntryShows(i) <=> EntryShows(i)'
    BY <1>1 DEF EntryShows
  <1>4. \A i \in 1..Len(log) : FetchShows(i) => FetchShows(i)'
    BY <1>1 DEF FetchShows, Joined, Sent
  <1> QED
    BY <1>1, <1>2, <1>3, <1>4, QuietKeepsInv

\* What a request does.
LEMMA FetchingKeepsInv ==
  ASSUME IInv, staleTime \/ ServeFetch \/ ReceiveFetch \/ FailFetch
  PROVE  IInv'
  <1>0. Len(log) \in Nat
    BY DEF IInv, Typed
  <1>1. CASE staleTime
    <2>1. Typed'
      BY <1>1 DEF IInv, Typed, staleTime
    <2>2. \A i \in 1..Len(log) : EntryShows(i)'
      BY <1>1 DEF IInv, Typed, staleTime, EntryShows
    <2>3. \A i \in 1..Len(log) : FetchShows(i) => FetchShows(i)'
      BY <1>1 DEF staleTime, FetchShows
    <2> QED
      BY <1>1, <2>1, <2>2, <2>3, QuietKeepsInv DEF staleTime
  <1>2. CASE ServeFetch
    <2>1. Typed'
      BY <1>0, <1>2 DEF IInv, Typed, ServeFetch
    <2>2. \A i \in 1..Len(log) : EntryShows(i) => EntryShows(i)'
      BY <1>2 DEF ServeFetch, EntryShows
    <2>3. \A i \in 1..Len(log) : FetchShows(i)'
      BY <1>0, <1>2 DEF IInv, Typed, ServeFetch, FetchShows
    <2> QED
      BY <1>2, <2>1, <2>2, <2>3, QuietKeepsInv DEF ServeFetch
  <1>3. CASE ReceiveFetch
    <2>1. Typed'
      BY <1>3 DEF IInv, Typed, ReceiveFetch, NoFetch
    <2>2. \A i \in 1..Len(log) : FetchShows(i) => EntryShows(i)'
      BY <1>3 DEF IInv, Typed, ReceiveFetch, FetchShows, EntryShows
    <2>3. \A i \in 1..Len(log) : FetchShows(i)'
      BY <1>3 DEF ReceiveFetch, FetchShows, NoFetch
    <2> QED
      BY <1>3, <2>1, <2>2, <2>3, QuietKeepsInv DEF ReceiveFetch
  <1>4. CASE FailFetch
    <2>1. Typed'
      BY <1>4 DEF IInv, Typed, FailFetch, NoFetch
    <2>2. \A i \in 1..Len(log) : (EntryShows(i) => EntryShows(i)') /\ FetchShows(i)'
      BY <1>4 DEF FailFetch, FetchShows, EntryShows, NoFetch
    <2> QED
      BY <1>4, <2>1, <2>2, QuietKeepsInv DEF FailFetch
  <1> QED
    BY <1>1, <1>2, <1>3, <1>4

-----------------------------------------------------------------------------
(* The handlers.                                                           *)

\* What was shown stays shown; afterwards the entry and the request show the change that
\* the answer tells of, unless the handler does nothing.
LEMMA SettleShows ==
  ASSUME Typed, NEW e \in EffectType, NEW n \in Nat, Settle(e, n), UNCHANGED <<log, mounted>>
  PROVE  /\ entry' # None => entry' \in [seen : Nat, stale : BOOLEAN, overtaken : BOOLEAN]
         /\ fetch' \in [state : {"none", "sent", "read"}, seen : Nat, overtaken : BOOLEAN]
         /\ \A i \in 1..Len(log) : /\ EntryShows(i) => EntryShows(i)'
                                   /\ FetchShows(i) => FetchShows(i)'
         /\ e.touch \in {"invalidate", "remove"} =>
              \A i \in 1..Len(log) : EntryShows(i)' /\ FetchShows(i)'
         /\ e.touch = "set" => \A i \in 1..Len(log) :
              EntryShows(i)' /\ (i <= n => FetchShows(i)')
  <1>0. Len(log) \in Nat
    BY DEF Typed
  <1>1. CASE e.touch = "invalidate"
    <2>1. invalidateQueries
      BY <1>1 DEF Settle
    <2>2. entry' # None =>
            entry' \in [seen : Nat, stale : BOOLEAN, overtaken : BOOLEAN] /\ entry'.stale
      BY <2>1 DEF Typed, invalidateQueries
    <2>3. /\ fetch' \in [state : {"none", "sent", "read"}, seen : Nat, overtaken : BOOLEAN]
          /\ fetch'.state = "read" => fetch'.overtaken
      BY <2>1 DEF Typed, invalidateQueries, Overtake, Sent
    <2> QED
      BY <1>1, <2>2, <2>3 DEF EntryShows, FetchShows
  <1>2. CASE e.touch = "remove"
    <2>1. removeQueries
      BY <1>2 DEF Settle
    <2> QED
      BY <1>2, <2>1 DEF removeQueries, EntryShows, FetchShows, NoFetch, Sent
  <1>3. CASE e.touch = "set"
    <2>1. setQueryData(n)
      BY <1>3 DEF Settle
    <2>2. entry' \in [seen : Nat, stale : BOOLEAN, overtaken : BOOLEAN]
          /\ \A i \in 1..Len(log) : EntryShows(i)'
      <3>1. entry' = [seen |-> n, stale |-> FALSE, overtaken |-> n < Len(log)]
        BY <2>1 DEF setQueryData
      <3>2. entry'.seen = n /\ (entry'.overtaken <=> n < Len(log))
        BY <3>1
      <3>3. entry' \in [seen : Nat, stale : BOOLEAN, overtaken : BOOLEAN]
        BY <3>1
      <3> QED
        BY <1>0, <3>2, <3>3 DEF EntryShows
    <2>3. fetch' \in [state : {"none", "sent", "read"}, seen : Nat, overtaken : BOOLEAN]
          /\ \A i \in 1..Len(log) : (i <= n \/ FetchShows(i)) => FetchShows(i)'
      <3>1. CASE fetch.state = "read" /\ fetch.seen < n
        <4>1. fetch' = [fetch EXCEPT !.overtaken = TRUE]
          BY <2>1, <3>1 DEF Typed, setQueryData, Overtake
        <4> QED
          BY <4>1 DEF Typed, FetchShows
      <3>2. CASE ~(fetch.state = "read" /\ fetch.seen < n)
        <4>1. fetch' = fetch
          BY <2>1, <3>2 DEF setQueryData
        <4>2. fetch.state = "read" => n <= fetch.seen
          BY <3>2 DEF Typed
        <4> QED
          BY <1>0, <4>1, <4>2 DEF Typed, FetchShows
      <3> QED
        BY <3>1, <3>2
    <2> QED
      BY <1>3, <2>2, <2>3
  <1>4. CASE e.touch = "none"
    BY <1>4 DEF Settle, EntryShows, FetchShows, Typed
  <1> QED
    BY <1>1, <1>2, <1>3, <1>4 DEF EffectType

-----------------------------------------------------------------------------
(* The calls.                                                              *)

\* An optimistic handler: from now on the entry holds what is expected.
LEMMA StartKeepsInv ==
  ASSUME IInv, NEW c \in Calls, Start(c)
  PROVE  IInv'
  <1>1. /\ call' = [call EXCEPT ![c].state = "sent"] /\ call[c].state = "new"
        /\ UNCHANGED <<log, fetch, mounted>>
    BY DEF Start
  <1>3. /\ call' \in [Calls -> Record] /\ EffectsKept'
        /\ call'[c].state = "sent" /\ \A d \in Calls : d # c => call'[d] = call[d]
        /\ \A d \in Calls : call'[d].effect = call[d].effect
    BY <1>1, OneState
  <1>2. Typed'
    <2>1. entry' # None => entry' \in [seen : Nat, stale : BOOLEAN, overtaken : BOOLEAN]
      BY DEF IInv, Typed, Start
    <2> QED
      BY <1>1, <1>3, <2>1 DEF IInv, Typed
  <1>5. ToldShown'
    <2> SUFFICES ASSUME NEW i \in 1..Len(log), log[i] = "told"
                 PROVE  (\E d \in Calls : Answering(d, i))' \/ Shows(i)'
      BY <1>1 DEF ToldShown
    <2>1. (\E d \in Calls : Answering(d, i)) \/ Shows(i)
      BY DEF IInv, ToldShown
    <2>2. CASE \E d \in Calls : Answering(d, i)
      BY <1>1, <1>3, <2>2 DEF Answering
    <2>3. CASE Shows(i)
      <3>1. FetchShows(i)'
        BY <1>1, <2>3 DEF Shows, FetchShows
      <3>2. Expecting => Expecting'
        BY <1>1, <1>3 DEF Expecting
      <3>3. CASE call[c].effect.optimistic
        BY <1>3, <3>1, <3>3 DEF Shows, Expecting
      <3>4. CASE ~call[c].effect.optimistic
        BY <2>3, <3>1, <3>2, <3>4 DEF Start, Shows, EntryShows
      <3> QED
        BY <3>3, <3>4
    <2> QED
      BY <2>1, <2>2, <2>3
  <1> QED
    BY <1>2, <1>3, <1>5 DEF IInv

\* A change that is made elsewhere, or told of later, adds nothing to be shown yet.
LEMMA GrowingKeepsInv ==
  ASSUME IInv, NEW k \in Kinds, log' = Append(log, k), UNCHANGED <<entry, fetch, mounted>>, Typed',
         \A d \in Calls : call'[d].effect = call[d].effect,
         \A d \in Calls : call[d].state = "applied" =>
           call'[d].state = "applied" /\ call'[d].at = call[d].at,
         \A d \in Calls : call[d].state = "sent" => call'[d].state \in {"sent", "applied"},
         k = "told" => \E d \in Calls :
           /\ call'[d].state = "applied" /\ call'[d].at = Len(log')
           /\ call'[d].effect.kind = "told" /\ call'[d].effect.changes
  PROVE  IInv'
  <1>0. Len(log) \in Nat /\ Len(log') = Len(log) + 1 /\ log'[Len(log')] = k
        /\ \A i \in 1..Len(log) : log'[i] = log[i]
    BY DEF IInv, Typed
  <1>1. EffectsKept'
    BY DEF IInv, EffectsKept
  <1>2. Expecting => Expecting'
    BY DEF Expecting
  <1>3. ToldShown'
    <2> SUFFICES ASSUME NEW i \in 1..Len(log'), log'[i] = "told"
                 PROVE  (\E d \in Calls : Answering(d, i))' \/ Shows(i)'
      BY DEF ToldShown
    <2>1. CASE i = Len(log')
      BY <1>0, <2>1 DEF Answering
    <2>2. CASE i # Len(log')
      <3>1. i \in 1..Len(log) /\ log[i] = "told"
        BY <1>0, <2>2
      <3>2. (\E d \in Calls : Answering(d, i)) \/ Shows(i)
        BY <3>1 DEF IInv, ToldShown
      <3>3. CASE \E d \in Calls : Answering(d, i)
        BY <3>3 DEF Answering
      <3>4. CASE Shows(i)
        BY <1>2, <3>4 DEF Shows, EntryShows, FetchShows
      <3> QED
        BY <3>2, <3>3, <3>4
    <2> QED
      BY <2>1, <2>2
  <1> QED
    BY <1>1, <1>3 DEF IInv

LEMMA ApplyKeepsInv ==
  ASSUME IInv, NEW c \in Calls, Apply(c)
  PROVE  IInv'
  <1> DEFINE r == [call[c] EXCEPT !.state = "applied", !.at = Len(log'),
                                  !.booking = call[c].effect.later]
  <1>1. call[c] \in Record /\ call[c].effect \in EffectType /\ log \in Seq(Kinds)
    BY DEF IInv, Typed, Record
  <1>2. call[c].effect.kind \in Kinds /\ call[c].effect.later \in BOOLEAN
    BY <1>1 DEF EffectType
  <1>3. log' \in Seq(Kinds) /\ Len(log') \in Nat
    BY <1>1, <1>2 DEF Apply
  <1>4. call' = [call EXCEPT ![c] = r] /\ call[c].state = "sent"
        /\ UNCHANGED <<entry, fetch, mounted>>
    <2>1. call \in [Calls -> Record]
      BY DEF IInv, Typed
    <2>2. call' = [call EXCEPT ![c] = r]
      BY <2>1 DEF Apply
    <2> QED
      BY <2>2 DEF Apply
  <1>5. /\ Typed' /\ EffectsKept'
        /\ \A d \in Calls : call'[d].effect = call[d].effect
        /\ call'[c].state = "applied" /\ call'[c].at = Len(log')
        /\ \A d \in Calls : d # c => call'[d] = call[d]
    <2>1. r \in Record /\ r.effect = call[c].effect /\ r.state = "applied" /\ r.at = Len(log')
      BY <1>1, <1>2, <1>3 DEF Record
    <2> HIDE DEF r
    <2>2. /\ call' \in [Calls -> Record] /\ EffectsKept' /\ call'[c] = r
          /\ \A d \in Calls : d # c => call'[d] = call[d]
          /\ \A d \in Calls : call'[d].effect = call[d].effect
      BY <1>4, <2>1, OneCall
    <2> QED
      BY <1>3, <1>4, <2>1, <2>2 DEF IInv, Typed
  <1> HIDE DEF r
  <1>6. CASE call[c].effect.changes
    <2>1. log' = Append(log, call[c].effect.kind) /\ call[c].effect.kind \in Kinds
      BY <1>2, <1>6 DEF Apply
    <2>2. call'[c].effect = call[c].effect
      BY <1>5
    <2>3. \A d \in Calls : call[d].state = "applied" =>
            call'[d].state = "applied" /\ call'[d].at = call[d].at
      BY <1>4, <1>5
    <2>4. \A d \in Calls : call[d].state = "sent" => call'[d].state \in {"sent", "applied"}
      BY <1>5
    <2> QED
      BY <1>4, <1>5, <1>6, <2>1, <2>2, <2>3, <2>4, GrowingKeepsInv
  <1>7. CASE ~call[c].effect.changes
    <2>1. UNCHANGED log
      BY <1>7 DEF Apply
    <2>2. Expecting => Expecting'
      BY <1>4, <1>5 DEF Expecting
    <2>3. ToldShown'
      <3> SUFFICES ASSUME NEW i \in 1..Len(log), log[i] = "told"
                   PROVE  (\E d \in Calls : Answering(d, i))' \/ Shows(i)'
        BY <2>1 DEF ToldShown
      <3>1. (\E d \in Calls : d # c /\ Answering(d, i)) \/ Shows(i)
        BY <1>7 DEF IInv, ToldShown, Answering
      <3>2. CASE \E d \in Calls : d # c /\ Answering(d, i)
        BY <1>5, <3>2 DEF Answering
      <3>3. CASE Shows(i)
        BY <1>4, <2>2, <3>3 DEF Shows, EntryShows, FetchShows
      <3> QED
        BY <3>1, <3>2, <3>3
    <2> QED
      BY <1>5, <2>3 DEF IInv
  <1> QED
    BY <1>6, <1>7

\* The end of a call, with what its handler does to the entry.
LEMMA EndKeepsInv ==
  ASSUME IInv, NEW c \in Calls, NEW n \in Nat, call[c].state \in {"sent", "applied"},
         call' = [call EXCEPT ![c].state = "ended"], UNCHANGED <<log, mounted>>,
         Settle(call[c].effect, n), call[c].state = "applied" => n = call[c].at
  PROVE  IInv'
  <1> DEFINE e == call[c].effect
  <1>1. e \in EffectType /\ Kept(e)
    BY DEF IInv, Typed, Record, EffectsKept
  <1>2. /\ entry' # None => entry' \in [seen : Nat, stale : BOOLEAN, overtaken : BOOLEAN]
        /\ fetch' \in [state : {"none", "sent", "read"}, seen : Nat, overtaken : BOOLEAN]
        /\ \A i \in 1..Len(log) : /\ EntryShows(i) => EntryShows(i)'
                                  /\ FetchShows(i) => FetchShows(i)'
        /\ e.touch \in {"invalidate", "remove"} =>
             \A i \in 1..Len(log) : EntryShows(i)' /\ FetchShows(i)'
        /\ e.touch = "set" => \A i \in 1..Len(log) : EntryShows(i)' /\ (i <= n => FetchShows(i)')
    BY <1>1, SettleShows DEF IInv
  <1>3. /\ call' \in [Calls -> Record] /\ EffectsKept'
        /\ \A d \in Calls : call'[d].effect = call[d].effect
        /\ \A d \in Calls : d # c => call'[d] = call[d]
    BY OneState
  <1>4. Typed'
    BY <1>2, <1>3 DEF IInv, Typed
  <1>6. ToldShown'
    <2> SUFFICES ASSUME NEW i \in 1..Len(log), log[i] = "told"
                 PROVE  (\E d \in Calls : Answering(d, i))' \/ Shows(i)'
      BY DEF ToldShown
    <2>1. (\E d \in Calls : Answering(d, i)) \/ Shows(i)
      BY DEF IInv, ToldShown
    <2>2. CASE Answering(c, i)
      <3>1. n = i /\ e.touch \in {"invalidate", "remove", "set"}
        BY <1>1, <2>2 DEF Answering, Kept, EffectType
      <3> HIDE DEF e
      <3>2. EntryShows(i)' /\ FetchShows(i)'
        BY <1>2, <3>1
      <3> QED
        BY <3>2 DEF Shows
    <2>3. CASE \E d \in Calls : d # c /\ Answering(d, i)
      BY <1>3, <2>3 DEF Answering
    <2>4. CASE Shows(i)
      <3>1. FetchShows(i)'
        BY <1>2, <2>4 DEF Shows
      <3>2. CASE e.optimistic
        <4>1. e.touch = "invalidate"
          BY <1>1, <3>2 DEF Kept
        <4> HIDE DEF e
        <4>2. EntryShows(i)'
          BY <1>2, <4>1
        <4> QED
          BY <3>1, <4>2 DEF Shows
      <3>3. CASE ~e.optimistic
        <4>1. Expecting => Expecting'
          BY <1>3, <3>3 DEF Expecting
        <4> QED
          BY <1>2, <2>4, <3>1, <4>1 DEF Shows
      <3> QED
        BY <3>2, <3>3
    <2> QED
      BY <2>1, <2>2, <2>3, <2>4
  <1> QED
    BY <1>3, <1>4, <1>6 DEF IInv

\* The handler of a call that is refused runs only if it settles.
LEMMA RefuseKeepsInv ==
  ASSUME IInv, NEW c \in Calls, Refuse(c)
  PROVE  IInv'
  <1>1. CASE call[c].effect.settles
    BY <1>1, EndKeepsInv DEF Refuse
  <1>2. CASE ~call[c].effect.settles
    <2>1. /\ call' = [call EXCEPT ![c].state = "ended"] /\ call[c].state = "sent"
          /\ UNCHANGED <<log, entry, fetch, mounted>>
      BY <1>2 DEF Refuse
    <2>2. ~call[c].effect.optimistic
      BY <1>2 DEF IInv, EffectsKept, Kept
    <2>3. /\ call' \in [Calls -> Record] /\ EffectsKept'
          /\ \A d \in Calls : call'[d].effect = call[d].effect
          /\ \A d \in Calls : d # c => call'[d] = call[d]
      BY <2>1, OneState
    <2>4. Expecting => Expecting'
      BY <2>2, <2>3 DEF Expecting
    <2>5. Typed'
      BY <2>1, <2>3 DEF IInv, Typed
    <2>6. ToldShown'
      <3> SUFFICES ASSUME NEW i \in 1..Len(log), log[i] = "told"
                   PROVE  (\E d \in Calls : Answering(d, i))' \/ Shows(i)'
        BY <2>1 DEF ToldShown
      <3>1. (\E d \in Calls : d # c /\ Answering(d, i)) \/ Shows(i)
        BY <2>1 DEF IInv, ToldShown, Answering
      <3>2. CASE \E d \in Calls : d # c /\ Answering(d, i)
        BY <2>3, <3>2 DEF Answering
      <3>3. CASE Shows(i)
        BY <2>1, <2>4, <3>3 DEF Shows, EntryShows, FetchShows
      <3> QED
        BY <3>1, <3>2, <3>3
    <2> QED
      BY <2>3, <2>5, <2>6 DEF IInv
  <1> QED
    BY <1>1, <1>2

LEMMA AnswerKeepsInv ==
  ASSUME IInv, NEW c \in Calls, Answer(c)
  PROVE  IInv'
  <1>1. call[c].at \in Nat
    BY DEF IInv, Typed, Record
  <1> QED
    BY <1>1, EndKeepsInv DEF Answer

\* A change of which the answer was lost is not told any more.
LEMMA LoseAnswerKeepsInv ==
  ASSUME IInv, NEW c \in Calls, LoseAnswer(c)
  PROVE  IInv'
  <1>1. /\ call' = [call EXCEPT ![c].state = "ended"] /\ call[c].state = "applied"
        /\ UNCHANGED <<entry, fetch, mounted>>
    BY DEF LoseAnswer
  <1>2. ~call[c].effect.optimistic
    BY DEF IInv, EffectsKept, Kept, LoseAnswer
  <1>3. /\ call' \in [Calls -> Record] /\ EffectsKept'
        /\ \A d \in Calls : call'[d].effect = call[d].effect
        /\ \A d \in Calls : d # c => call'[d] = call[d]
    BY <1>1, OneState
  <1>4. Expecting => Expecting'
    BY <1>2, <1>3 DEF Expecting
  <1>5. /\ log' \in Seq(Kinds) /\ Len(log') = Len(log)
        /\ \A i \in 1..Len(log) : log'[i] = "told" =>
             log[i] = "told" /\ (call[c].effect.changes => i # call[c].at)
    <2>1. log \in Seq(Kinds) /\ "lost" \in Kinds
      BY DEF IInv, Typed, Kinds
    <2>2. CASE call[c].effect.changes
      <3>1. log' = [log EXCEPT ![call[c].at] = "lost"]
        BY <2>2 DEF LoseAnswer
      <3>2. log \in [1..Len(log) -> Kinds] /\ Len(log) \in Nat
        BY <2>1
      <3>3. log' \in [1..Len(log) -> Kinds]
            /\ \A i \in 1..Len(log) : log'[i] = IF i = call[c].at THEN "lost" ELSE log[i]
        BY <2>1, <3>1, <3>2
      <3>4. log' \in Seq(Kinds) /\ Len(log') = Len(log)
        BY <3>2, <3>3
      <3> QED
        BY <3>3, <3>4
    <2>3. CASE ~call[c].effect.changes
      BY <2>1, <2>3 DEF LoseAnswer
    <2> QED
      BY <2>2, <2>3
  <1>6. Typed'
    BY <1>1, <1>3, <1>5 DEF IInv, Typed
  <1>7. ToldShown'
    <2> SUFFICES ASSUME NEW i \in 1..Len(log), log'[i] = "told"
                 PROVE  (\E d \in Calls : Answering(d, i))' \/ Shows(i)'
      BY <1>5 DEF ToldShown
    <2>1. (\E d \in Calls : Answering(d, i)) \/ Shows(i)
      BY <1>5 DEF IInv, ToldShown
    <2>2. ~Answering(c, i)
      BY <1>5 DEF Answering
    <2>3. CASE \E d \in Calls : Answering(d, i)
      BY <1>3, <2>2, <2>3 DEF Answering
    <2>4. CASE Shows(i)
      BY <1>1, <1>4, <2>4 DEF Shows, EntryShows, FetchShows
    <2> QED
      BY <2>1, <2>3, <2>4
  <1> QED
    BY <1>3, <1>6, <1>7 DEF IInv

LEMMA BookKeepsInv ==
  ASSUME IInv, NEW c \in Calls, Book(c)
  PROVE  IInv'
  <1>1. log' = Append(log, "late") /\ "late" \in Kinds /\ UNCHANGED <<entry, fetch, mounted>>
    BY DEF Book, Kinds
  <1> DEFINE r == [call[c] EXCEPT !.booking = FALSE]
  <1>2. /\ call' \in [Calls -> Record]
        /\ \A d \in Calls : call'[d].effect = call[d].effect /\ call'[d].state = call[d].state
                             /\ call'[d].at = call[d].at
    <2>1. call[c] \in Record
      BY DEF IInv, Typed
    <2>2. r \in Record /\ r.effect = call[c].effect /\ r.state = call[c].state /\ r.at = call[c].at
      BY <2>1 DEF Record
    <2>3. call' = [call EXCEPT ![c] = r]
      BY DEF Book
    <2> HIDE DEF r
    <2>4. call' \in [Calls -> Record] /\ call'[c] = r
          /\ \A d \in Calls : d # c => call'[d] = call[d]
      BY <2>2, <2>3, OneCall
    <2> QED
      BY <2>2, <2>4
  <1>3. Typed'
    BY <1>1, <1>2 DEF IInv, Typed
  <1> QED
    BY <1>1, <1>2, <1>3, GrowingKeepsInv

LEMMA ElsewhereKeepsInv ==
  ASSUME IInv, ChangeElsewhere
  PROVE  IInv'
  <1>1. log' = Append(log, "other") /\ "other" \in Kinds
        /\ UNCHANGED <<entry, fetch, mounted, call>>
    BY DEF ChangeElsewhere, Kinds
  <1>2. Typed'
    BY <1>1 DEF IInv, Typed
  <1> QED
    BY <1>1, <1>2, GrowingKeepsInv

-----------------------------------------------------------------------------
(* The theorem.                                                            *)

LEMMA StepKeepsInv ==
  ASSUME IInv, [Next]_vars
  PROVE  IInv'
  <1>1. CASE Mount \/ Unmount \/ Look \/ refetchInterval
    BY <1>1, AskingKeepsInv
  <1>2. CASE staleTime \/ ServeFetch \/ ReceiveFetch \/ FailFetch
    BY <1>2, FetchingKeepsInv
  <1>3. ASSUME NEW c \in Calls,
               Start(c) \/ Apply(c) \/ Refuse(c) \/ Answer(c) \/ LoseAnswer(c) \/ Book(c)
        PROVE  IInv'
    BY <1>3, StartKeepsInv, ApplyKeepsInv, RefuseKeepsInv, AnswerKeepsInv, LoseAnswerKeepsInv,
       BookKeepsInv
  <1>4. CASE ChangeElsewhere
    BY <1>4, ElsewhereKeepsInv
  <1>5. CASE UNCHANGED vars
    BY <1>5, QuietKeepsInv DEF vars, IInv, Typed, EntryShows, FetchShows
  <1> QED
    BY <1>1, <1>2, <1>3, <1>4, <1>5 DEF Next

\* An entry that the cache takes for fresh, and that no handler is about to refresh,
\* shows every change this tab's mutations told it of (FreshAgrees).
THEOREM FreshShowsTold == Spec => []FreshAgrees
  <1>1. Init => IInv
    BY InitInv
  <1>2. IInv /\ [Next]_vars => IInv'
    BY StepKeepsInv
  <1>3. IInv => FreshAgrees
    <2> SUFFICES ASSUME IInv, Fresh, NEW i \in entry.seen + 1 .. Len(log), log[i] = "told"
                 PROVE  FALSE
      BY DEF FreshAgrees
    <2>1. entry # None /\ entry.seen \in Nat /\ Len(log) \in Nat
      BY DEF Fresh, IInv, Typed
    <2>2. i \in 1..Len(log) /\ ~(i <= entry.seen)
      BY <2>1
    <2>3. ~\E c \in Calls : Answering(c, i)
      BY DEF Fresh, Pending, Answering, IInv, EffectsKept, Kept
    <2>4. ~Expecting
      BY DEF Fresh, Pending, Expecting, IInv, EffectsKept, Kept
    <2>5. ~EntryShows(i)
      BY <2>1, <2>2 DEF Fresh, EntryShows
    <2> QED
      BY <2>2, <2>3, <2>4, <2>5 DEF IInv, ToldShown, Shows
  <1> QED
    BY <1>1, <1>2, <1>3, PTL DEF Spec
=============================================================================
