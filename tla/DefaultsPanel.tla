--------------------------- MODULE DefaultsPanel ---------------------------
(***************************************************************************)
(* The default views a user keeps for a workspace: the section of the      *)
(* settings panel that edits them                                          *)
(* (src/frontend/src/components/settings/WorkspaceDefaultsSection.tsx,     *)
(* with hooks/useWorkspaceSettings.ts), the list page under the panel that *)
(* saves its own view, and the document the server keeps                   *)
(* (UserWorkspaceSettingsService in src/backend/workspaces/services.py).   *)
(*                                                                         *)
(* The section is seeded from what the query knows when it is opened, and  *)
(* once more when the query answers for the first time.  It saves all the  *)
(* pages; a list page only itself, and not before the query has answered   *)
(* or failed.  The server reads the document, changes it and writes it     *)
(* back.                                                                   *)
(*                                                                         *)
(* Of each page one facet is followed: a value, or None for the built-in   *)
(* default, which in the section is a choice like the others.              *)
(***************************************************************************)
EXTENDS Naturals

CONSTANTS
  PageKeys,
  ListPage, \* the page under the panel
  Values,
  MaxSaves, \* bound on the saves that are sent
  None

VARIABLES
  stored,   \* server: the document
  data,     \* the query workspace-settings: its last answer
  fetch,    \* its request, or None: the answer, once it is on the way
  stale,    \* it is to be fetched (again)
  panel,    \* the section: its draft, seededFromData, the save that it waits for
  waits,    \* the save that the list page waits for, or 0
  requests, \* the saves under way, in the order they were sent
  blind,    \* history: an answer was lost, or one to a save came before the query knew
            \* anything, and no fetch was served since
  saves     \* how many were sent

query == <<data, fetch, stale>>
vars == <<stored, query, panel, waits, requests, blind, saves>>

-----------------------------------------------------------------------------
Saves == 1..MaxSaves

Settings == [PageKeys -> Values \cup {None}]

Panel == [draft : Settings, seeded : BOOLEAN, waits : 0..MaxSaves]

\* A request of the query, and its answer.
Fetch == [answer : Settings \cup {None}]

\* The pages that are present in the request, and their settings; the document as the
\* server read it.
Request == [pages : SUBSET PageKeys, set : Settings, read : Settings \cup {None},
            phase : {"sent", "read", "ok", "error"}]

DefaultsPanelAssumption ==
  /\ ListPage \in PageKeys /\ PageKeys # {ListPage} /\ MaxSaves \in Nat
  /\ None \notin Values /\ None \notin Request /\ None \notin Panel /\ None \notin Fetch

Sent == {n \in Saves : requests[n] # None}

\* Unresolved settings are those of a fresh row.
freshSettings == [p \in PageKeys |-> None]

settingsToPatch(settings) == IF settings = None THEN freshSettings ELSE settings

seedDraft(settings) == settingsToPatch(settings)

dirty == panel # None /\ panel.draft # settingsToPatch(data)

\* Facets that are still at the seed of unresolved settings are filled by those that
\* arrive, the first time.
Arrival(settings) ==
  IF panel = None \/ panel.seeded THEN panel
  ELSE [panel EXCEPT !.seeded = TRUE,
          !.draft = [p \in PageKeys |-> IF panel.draft[p] = None THEN settings[p] ELSE panel.draft[p]]]

-----------------------------------------------------------------------------
(* The user.                                                               *)

\* A save is sent, of these pages with this content.
Save(pages, set) ==
  /\ saves < MaxSaves /\ saves' = saves + 1
  /\ requests' = [requests EXCEPT ![saves + 1] = [pages |-> pages, set |-> set, read |-> None, phase |-> "sent"]]

openPanel ==
  /\ panel = None
  /\ panel' = [draft |-> seedDraft(data), seeded |-> data # None, waits |-> 0]
  /\ UNCHANGED <<stored, query, waits, requests, blind, saves>>

closePanel ==
  /\ panel # None
  /\ panel' = None
  /\ UNCHANGED <<stored, query, waits, requests, blind, saves>>

setDraft(p, v) ==
  /\ panel # None
  /\ panel' = [panel EXCEPT !.draft[p] = v]
  /\ UNCHANGED <<stored, query, waits, requests, blind, saves>>

canSave == dirty /\ panel.waits = 0

\* All the pages, whatever was changed.
handleSave ==
  /\ canSave
  /\ Save(PageKeys, panel.draft)
  /\ panel' = [panel EXCEPT !.waits = saves + 1]
  /\ UNCHANGED <<stored, query, waits, blind>>

\* The list page shows its content once the query has answered or failed.
defaultsLoading == data = None /\ (stale \/ fetch # None)

\* The list page: its view becomes its default.
handleSaveDefaults(v) ==
  /\ panel = None /\ ~defaultsLoading
  /\ waits = 0
  /\ Save({ListPage}, [freshSettings EXCEPT ![ListPage] = v])
  /\ waits' = saves + 1
  /\ UNCHANGED <<stored, query, panel, blind>>

-----------------------------------------------------------------------------
(* The query.                                                              *)

\* A page that mounts, or a window that is looked at again, five minutes later.
Refetched ==
  /\ ~stale /\ fetch = None
  /\ stale' = TRUE
  /\ UNCHANGED <<stored, data, fetch, panel, waits, requests, blind, saves>>

\* One more first fetch takes the content of the list page away, and what it waits for.
FetchSent ==
  /\ stale /\ fetch = None
  /\ fetch' = [answer |-> None] /\ stale' = FALSE
  /\ waits' = IF data = None THEN 0 ELSE waits
  /\ UNCHANGED <<stored, data, panel, requests, blind, saves>>

FetchServed ==
  /\ fetch # None /\ fetch.answer = None
  /\ fetch' = [answer |-> stored]
  /\ blind' = FALSE
  /\ UNCHANGED <<stored, data, stale, panel, waits, requests, saves>>

FetchArrives ==
  /\ fetch # None /\ fetch.answer # None
  /\ data' = fetch.answer /\ fetch' = None
  /\ panel' = Arrival(fetch.answer)
  /\ UNCHANGED <<stored, stale, waits, requests, blind, saves>>

\* The retries are used up.
FetchFails ==
  /\ fetch # None
  /\ fetch' = None
  /\ blind' = TRUE
  /\ UNCHANGED <<stored, data, stale, panel, waits, requests, saves>>

\* Mutant: a fetch that is under way is left to end.
InvalidateLazily ==
  /\ fetch' = fetch
  /\ stale' = (stale \/ fetch = None)

\* invalidateQueries: a fetch that is under way is cancelled, unless it is the first.
Invalidate ==
  IF fetch # None /\ data = None THEN UNCHANGED <<fetch, stale>> ELSE fetch' = None /\ stale' = TRUE

\* The answer of save n, if it comes; the section stays open.
SaveAnswered(n) ==
  /\ n \in Sent /\ requests[n].phase \in {"ok", "error"}
  /\ \/ requests[n].phase = "ok" /\ Invalidate /\ blind' = (blind \/ data = None)
     \/ blind' = (blind \/ requests[n].phase = "ok") /\ UNCHANGED <<fetch, stale>>
  /\ requests' = [requests EXCEPT ![n] = None]
  /\ panel' = IF panel # None /\ panel.waits = n THEN [panel EXCEPT !.waits = 0] ELSE panel
  /\ waits' = IF waits = n THEN 0 ELSE waits
  /\ UNCHANGED <<stored, data, saves>>

-----------------------------------------------------------------------------
(* The server.                                                             *)

\* What is left of a save that the server is done with.
Outcome(phase) == [pages |-> {}, set |-> freshSettings, read |-> None, phase |-> phase]

\* _get_or_create, or a refusal.
SaveRead(n) ==
  /\ n \in Sent /\ requests[n].phase = "sent"
  /\ \/ requests' = [requests EXCEPT ![n] = Outcome("error")]
     \/ requests' = [requests EXCEPT ![n].phase = "read", ![n].read = stored]
  /\ UNCHANGED <<stored, query, panel, waits, blind, saves>>

\* The pages that are present are replaced in the document that was read.
Replaced(r) == [p \in PageKeys |-> IF p \in r.pages THEN r.set[p] ELSE r.read[p]]

SaveWrites(n) ==
  /\ n \in Sent /\ requests[n].phase = "read"
  /\ stored' = Replaced(requests[n])
  /\ requests' = [requests EXCEPT ![n] = Outcome("ok")]
  /\ UNCHANGED <<query, panel, waits, blind, saves>>

-----------------------------------------------------------------------------
Init ==
  /\ stored \in Settings
  /\ data = None /\ fetch = None /\ stale = TRUE
  /\ panel = None /\ waits = 0 /\ requests = [n \in Saves |-> None] /\ blind = FALSE /\ saves = 0

Next ==
  \/ openPanel \/ closePanel \/ handleSave
  \/ \E p \in PageKeys, v \in Values \cup {None} : setDraft(p, v)
  \/ \E v \in Values \cup {None} : handleSaveDefaults(v)
  \/ Refetched \/ FetchSent \/ FetchServed \/ FetchArrives \/ FetchFails
  \/ \E n \in Saves : SaveRead(n) \/ SaveWrites(n) \/ SaveAnswered(n)

Spec == Init /\ [][Next]_vars

-----------------------------------------------------------------------------
(* Properties.                                                             *)

TypeOK ==
  /\ stored \in Settings /\ data \in Settings \cup {None}
  /\ fetch \in Fetch \cup {None} /\ stale \in BOOLEAN
  /\ panel \in Panel \cup {None} /\ waits \in 0..MaxSaves
  /\ requests \in [Saves -> Request \cup {None}]
  /\ blind \in BOOLEAN /\ saves \in 0..MaxSaves

Quiet == Sent = {} /\ fetch = None /\ ~stale /\ data # None

\* "The hook's invalidation refetches the blob, which turns the dirty check false": once
\* nothing is under way, the button saves if and only if the draft is not what the
\* server has, however the saves of the section and of the page overlapped with edits and
\* fetches; unless, since a fetch was served last, an answer was lost or a save was
\* answered before the query.
ButtonTells == Quiet /\ ~blind /\ panel # None => (canSave <=> panel.draft # stored)

\* update: "Only page keys present in the payload are touched".
\* Does not hold: a save writes back what it read of the other pages, over a save that
\* came between.
OthersUntouched ==
  \A n \in Sent :
    requests[n].phase = "read" /\ requests'[n] # None /\ requests'[n].phase = "ok"
      => \A p \in PageKeys \ requests[n].pages : stored'[p] = stored[p]

\* What the section saves for a page is what the server had, or what the user chose.
\* Does not hold: it can be saved before the query has answered, and then clears the
\* pages that were not touched.
SavesWhatItShowed == panel # None /\ panel' # None /\ panel.waits = 0 /\ panel'.waits # 0 => panel.seeded
=============================================================================
