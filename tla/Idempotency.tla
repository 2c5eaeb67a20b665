---------------------------- MODULE Idempotency ----------------------------
(***************************************************************************)
(* Create once per Idempotency-Key (backend/common/idempotency.py), as     *)
(* POST /transactions and POST /planned-transactions use it.               *)
(*                                                                         *)
(* A key stands for (key, user, workspace), which the unique constraint of *)
(* the dedup tables covers.  PostgreSQL runs each request at READ          *)
(* COMMITTED: a statement sees what is committed when it starts; deleting  *)
(* a row, or inserting one under a unique value, waits for an open         *)
(* transaction that deleted or inserted it before.                         *)
(*                                                                         *)
(* TransactionService.create holds one transaction around everything;      *)
(* PlannedTransactionService.create has none, so that each of its          *)
(* statements outside the savepoint commits by itself.                     *)
(***************************************************************************)

CONSTANTS
  Keys,         \* Idempotency-Key values, each of one user and workspace
  PlannedKeys,  \* those sent to POST /planned-transactions
  Objects,      \* ids of created rows, a bound
  Requests,     \* requests, each made once; a client's retry is another one
  None,         \* SQL NULL, no row
  Environment   \* which of "delete", "expire", "crash" may happen

ASSUME ConstantsAssumption ==
  /\ None \notin Keys \cup Objects \cup Requests
  /\ PlannedKeys \subseteq Keys
  /\ Environment \subseteq {"delete", "expire", "crash"}

VARIABLES
  record,   \* record[k]: the committed dedup row of key k, None if there is none
  object,   \* object[x]: the created transaction or planned transaction
  request   \* request[r]: where a request is, and its uncommitted changes

vars == <<record, object, request>>

-----------------------------------------------------------------------------
Record == [id     : Requests,             \* the row's id: the request that inserted it
           target : Objects \cup {None},  \* SET_NULL when the object is deleted
           fresh  : BOOLEAN]              \* younger than IDEMPOTENCY_TTL

ASSUME NullAssumption == None \notin Record

Object == [state : {"unused", "live", "deleted"},
           key   : Keys \cup {None},
           open  : BOOLEAN]               \* history: its 24 hours have not passed

Unused == [state |-> "unused", key |-> None, open |-> FALSE]

Request == [pc     : {"new", "fetch", "discard", "sweep", "insert", "lost",
                      "commit", "answered", "failed", "crashed"},
            key    : Keys \cup {None},
            seen   : Requests \cup {None},   \* id of the dedup row it read
            drops  : Requests \cup {None},   \* id of the row it deleted, uncommitted
            target : Objects \cup {None}]    \* the object it answers with

New == [pc |-> "new", key |-> None, seen |-> None, drops |-> None, target |-> None]

Init ==
  /\ record = [k \in Keys |-> None]
  /\ object = [x \in Objects |-> Unused]
  /\ request = [r \in Requests |-> New]

Ended == {"new", "answered", "failed", "crashed"}

\* Another request's open transaction has deleted key k's row ...
DroppedByAnother(k, r) ==
  \E s \in Requests \ {r} : request[s].key = k /\ request[s].drops # None

\* ... or has inserted one.
InsertedByAnother(k, r) ==
  \E s \in Requests \ {r} : request[s].key = k /\ request[s].pc = "commit"

\* The rows a lookup returns: not older than the TTL.
Unexpired(rec) == rec # None /\ rec.fresh

\* What the first lookup leads to.
Disposition(rec) ==
  IF ~Unexpired(rec) THEN "sweep" ELSE IF rec.target = None THEN "discard" ELSE "fetch"

\* Mutation: without a usable winner the create is attempted again.
WinnerOrAgain(rec) == IF Unexpired(rec) /\ rec.target # None THEN "fetch" ELSE "insert"

\* What the lookup after a lost race leads to.
Winner(rec) == IF Unexpired(rec) /\ rec.target # None THEN "fetch" ELSE "failed"

\* Mutation: the sweep deletes the key's row whatever its age.
SweptAlways(rec) == rec # None

Swept(rec) == rec # None /\ ~rec.fresh

-----------------------------------------------------------------------------
Move(r, fields) == request' = [request EXCEPT ![r] = fields]

\* lookup(user, workspace_id, key).
Lookup(r, k) ==
  /\ request[r].pc = "new"
  /\ Move(r, [New EXCEPT !.pc = Disposition(record[k]), !.key = k,
                !.seen = IF Unexpired(record[k]) THEN record[k].id ELSE None,
                !.target = IF Unexpired(record[k]) THEN record[k].target ELSE None])
  /\ UNCHANGED <<record, object>>

\* target_model.objects.get: DoesNotExist when it was deleted since.
Fetch(r) ==
  /\ request[r].pc = "fetch"
  /\ Move(r, [request[r] EXCEPT !.pc =
       IF object[request[r].target].state = "live" THEN "answered" ELSE "failed"])
  /\ UNCHANGED <<record, object>>

\* Deleting key k's row: at once on its own, or within the open transaction.
Drop(r, next) ==
  LET k == request[r].key IN
  /\ ~DroppedByAnother(k, r)
  /\ IF k \in PlannedKeys
     THEN /\ record' = [record EXCEPT ![k] = None]
          /\ Move(r, [request[r] EXCEPT !.pc = next])
     ELSE /\ Move(r, [request[r] EXCEPT !.pc = next, !.drops = record[k].id])
          /\ UNCHANGED record

Skip(r, next) ==
  /\ Move(r, [request[r] EXCEPT !.pc = next])
  /\ UNCHANGED record

\* existing.delete(), by primary key: no row when another request replaced it.
Discard(r) ==
  LET rec == record[request[r].key] IN
  /\ request[r].pc = "discard"
  /\ IF rec # None /\ rec.id = request[r].seen THEN Drop(r, "sweep") ELSE Skip(r, "sweep")
  /\ UNCHANGED object

\* The filter(..., created_at__lte=cutoff).delete().
Sweep(r) ==
  LET rec == record[request[r].key] IN
  /\ request[r].pc = "sweep"
  /\ IF Swept(rec) /\ rec.id # request[r].drops THEN Drop(r, "insert") ELSE Skip(r, "insert")
  /\ UNCHANGED object

\* do_create and the insert of the dedup row, in one savepoint.  A committed
\* row under the key raises IntegrityError and undoes both.
Insert(r) ==
  LET k == request[r].key IN
  /\ request[r].pc = "insert"
  /\ ~DroppedByAnother(k, r) /\ ~InsertedByAnother(k, r)
  /\ IF record[k] # None /\ record[k].id # request[r].drops
     THEN Skip(r, "lost")
     ELSE /\ \E x \in Objects :
               /\ object[x].state = "unused"
               /\ \A s \in Requests : request[s].pc = "commit" => request[s].target # x
               /\ Move(r, [request[r] EXCEPT !.pc = "commit", !.target = x])
          /\ UNCHANGED record
  /\ UNCHANGED object

\* The lookup after a lost race.
Lost(r) ==
  LET rec == record[request[r].key] IN
  /\ request[r].pc = "lost"
  /\ Move(r, [request[r] EXCEPT !.pc = Winner(rec),
                !.target = IF Winner(rec) = "fetch" THEN rec.target ELSE None])
  /\ UNCHANGED <<record, object>>

Commit(r) ==
  LET k == request[r].key
      x == request[r].target IN
  /\ request[r].pc = "commit"
  /\ object' = [object EXCEPT ![x] = [state |-> "live", key |-> k, open |-> TRUE]]
  /\ record' = [record EXCEPT ![k] = [id |-> r, target |-> x, fresh |-> TRUE]]
  /\ Move(r, [request[r] EXCEPT !.pc = "answered", !.drops = None])

\* The web process dies; the database rolls its open transaction back.
Crash(r) ==
  /\ "crash" \in Environment
  /\ request[r].pc \notin Ended
  /\ Move(r, [request[r] EXCEPT !.pc = "crashed", !.drops = None])
  /\ UNCHANGED <<record, object>>

-----------------------------------------------------------------------------
(* Other requests, and time.                                               *)

\* on_delete=SET_NULL on the dedup row.
TargetCleared(rec, x) ==
  IF rec # None /\ rec.target = x THEN [rec EXCEPT !.target = None] ELSE rec

\* DELETE of a created object.  The update of its dedup row waits for a
\* transaction that has deleted that row.
Delete(x) ==
  LET k == object[x].key IN
  /\ "delete" \in Environment
  /\ object[x].state = "live"
  /\ record[k] # None /\ record[k].target = x => ~DroppedByAnother(k, None)
  /\ object' = [object EXCEPT ![x].state = "deleted"]
  /\ record' = [record EXCEPT ![k] = TargetCleared(@, x)]
  /\ UNCHANGED request

\* 24 hours pass for key k's row.
Expire(k) ==
  /\ "expire" \in Environment
  /\ Unexpired(record[k])
  /\ record' = [record EXCEPT ![k].fresh = FALSE]
  /\ object' = [x \in Objects |->
                  IF object[x].key = k THEN [object[x] EXCEPT !.open = FALSE] ELSE object[x]]
  /\ UNCHANGED request

RequestStep(r) ==
  Fetch(r) \/ Discard(r) \/ Sweep(r) \/ Insert(r) \/ Lost(r) \/ Commit(r)

Next ==
  \/ \E r \in Requests, k \in Keys : Lookup(r, k)
  \/ \E r \in Requests : RequestStep(r) \/ Crash(r)
  \/ \E x \in Objects : Delete(x)
  \/ \E k \in Keys : Expire(k)

Spec == Init /\ [][Next]_vars

\* A request that was accepted is run to its end.
FairSpec == Spec /\ \A r \in Requests : WF_vars(RequestStep(r))

-----------------------------------------------------------------------------
(* Properties.                                                             *)

\* Every variable has its type, and a request about to read or to commit an
\* object knows which.
TypeOK ==
  /\ record \in [Keys -> Record \cup {None}]
  /\ object \in [Objects -> Object]
  /\ request \in [Requests -> Request]
  /\ \A r \in Requests :
       /\ request[r].pc # "new" => request[r].key \in Keys
       /\ request[r].pc \in {"fetch", "commit"} => request[r].target \in Objects

\* However many requests carry a key within 24 hours, and whatever they race
\* with, at most one object created under it is alive.
OneLiveObject ==
  \A x, y \in Objects :
    /\ object[x].state = "live" /\ object[x].open
    /\ object[y].state = "live" /\ object[y].open
    /\ object[x].key = object[y].key
    => x = y

\* A request is refused only when what it should have been answered with was
\* deleted or grew too old while it ran: losing a race alone is never an error.
ErrorsHaveACause ==
  \A r \in Requests : request[r].pc = "failed" =>
    \E x \in Objects :
      object[x].key = request[r].key /\ (object[x].state = "deleted" \/ ~object[x].open)

\* The waits of concurrent requests for each other's rows never form a cycle,
\* and a lost race is not retried for ever: every request ends.
EveryRequestEnds ==
  \A r \in Requests : request[r].pc # "new" ~> request[r].pc \in Ended

\* "same key, same result" (TransactionService.create), and "a deleted
\* transaction's record can still serve replays of its own original response
\* until the 24h TTL expires" (TransactionIdempotencyKey): within 24 hours one
\* key is answered with one object.
\* Does not hold: a replay discards the record of a deleted object and creates again.
OneAnswer ==
  \A r, s \in Requests :
    /\ request[r].pc = "answered" /\ request[s].pc = "answered"
    /\ request[r].key = request[s].key
    /\ object[request[r].target].open /\ object[request[s].target].open
    => request[r].target = request[s].target
=============================================================================
