----------------------------- MODULE Extraction -----------------------------
(***************************************************************************)
(* The attachments of one transaction: rows in the database, objects in    *)
(* the media bucket, and the Celery task that sends a file to the receipt  *)
(* parser (backend/transactions/attachments.py and tasks.py).              *)
(*                                                                         *)
(* The bucket is not part of any database transaction.  A message is       *)
(* acknowledged before its task runs, so a worker that dies loses it.      *)
(* What a parsed receipt does to the items is in TransactionItems.         *)
(***************************************************************************)
EXTENDS Naturals, FiniteSets

CONSTANTS
  Attachments,     \* ids of transaction_attachments rows
  Requests, Workers,
  MaxAttachments,  \* MAX_ATTACHMENTS_PER_TRANSACTION
  MaxRetries,      \* PARSER_EXTRACT_MAX_RETRIES
  MaxDispatches,   \* how often extraction is asked for, a bound
  MaxFaults,       \* how many processes die, a bound
  None

ASSUME ConstantsAssumption ==
  /\ MaxAttachments \in Nat /\ MaxRetries \in Nat
  /\ MaxDispatches \in Nat /\ MaxFaults \in Nat
  /\ None \notin Attachments

VARIABLES
  alive,       \* does the transaction exist
  born,        \* the attachment ids ever used
  att,         \* att[a]: the extraction columns of row a, None while no such row exists
  objects,     \* the attachments whose object is in the bucket
  request,
  queue,       \* messages of the extraction task
  worker,
  dispatches,
  filled,      \* history: the attachments a task auto-filled from
  lost,        \* history: the attachments whose extraction something dropped since it was asked for
  faults

vars == <<alive, born, att, objects, request, queue, worker, dispatches, filled, lost, faults>>

-----------------------------------------------------------------------------
Attachment == [status : {"none", "pending", "done", "failed"}, result : BOOLEAN]

Request == [pc : {"idle", "store", "insert", "drop", "commit", "enqueue", "purge"},
            att : Attachments \cup {None}]

\* n is the dispatch that a message comes from; a retry keeps it.
Message == [n : 1..MaxDispatches, att : Attachments, retries : 0..MaxRetries]

Worker == [pc : {"idle", "read", "parse", "done", "fill"}, msg : Message \cup {None}]

Free == [pc |-> "idle", att |-> None]
Resting == [pc |-> "idle", msg |-> None]

Exists(a) == att[a] # None

Init ==
  /\ alive = TRUE
  /\ born = {} /\ objects = {}
  /\ att = [a \in Attachments |-> None]
  /\ request = [q \in Requests |-> Free]
  /\ queue = {}
  /\ worker = [w \in Workers |-> Resting]
  /\ dispatches = 0
  /\ filled = {} /\ lost = {}
  /\ faults = 0

-----------------------------------------------------------------------------
(* Requests.                                                               *)

At(q, pc) == request[q].pc = pc

Go(q, pc, a) == request' = [request EXCEPT ![q] = [pc |-> pc, att |-> a]]

Answer(q) == request' = [request EXCEPT ![q] = Free]

Room == Cardinality({a \in Attachments : Exists(a)}) < MaxAttachments

\* POST .../attachments: count, store the object, insert the row.
BeginUpload(q, a) ==
  /\ At(q, "idle") /\ alive /\ a \notin born
  /\ Room
  /\ born' = born \cup {a}
  /\ Go(q, "store", a)
  /\ UNCHANGED <<alive, att, objects, queue, worker, dispatches, filled, lost, faults>>

\* Mutation: the row is inserted although the bucket failed.
StoredAnyway(q, ok) ==
  /\ objects' = IF ok THEN objects \cup {request[q].att} ELSE objects
  /\ Go(q, "insert", request[q].att)

\* Without the object the request ends with a 503.
Stored(q, ok) ==
  IF ok THEN /\ objects' = objects \cup {request[q].att}
             /\ Go(q, "insert", request[q].att)
  ELSE Answer(q) /\ UNCHANGED objects

StoreObject(q) ==
  /\ At(q, "store")
  /\ \E ok \in BOOLEAN : Stored(q, ok)
  /\ UNCHANGED <<alive, born, att, queue, worker, dispatches, filled, lost, faults>>

\* The foreign key refuses the row when the transaction is gone.
InsertRow(q) ==
  /\ At(q, "insert")
  /\ att' = IF alive THEN [att EXCEPT ![request[q].att] = [status |-> "none", result |-> FALSE]]
            ELSE att
  /\ Answer(q)
  /\ UNCHANGED <<alive, born, objects, queue, worker, dispatches, filled, lost, faults>>

\* DELETE .../attachments/{id}: the row's deletion commits after the object is
\* removed; a bucket that fails is ignored.
BeginRemove(q, a) ==
  /\ At(q, "idle") /\ Exists(a)
  /\ Go(q, "drop", a)
  /\ UNCHANGED <<alive, born, att, objects, queue, worker, dispatches, filled, lost, faults>>

DropObject(q) ==
  /\ At(q, "drop")
  /\ objects' \in {objects, objects \ {request[q].att}}
  /\ Go(q, "commit", request[q].att)
  /\ UNCHANGED <<alive, born, att, queue, worker, dispatches, filled, lost, faults>>

CommitRemove(q) ==
  /\ At(q, "commit")
  /\ att' = [att EXCEPT ![request[q].att] = None]
  /\ Answer(q)
  /\ UNCHANGED <<alive, born, objects, queue, worker, dispatches, filled, lost, faults>>

\* DELETE /transactions/{id}: the objects are swept, then the deletion of the
\* transaction and, by CASCADE, of its attachments commits.
SweepObjects(q) ==
  /\ At(q, "idle") /\ alive
  /\ \E swept \in SUBSET {a \in Attachments : Exists(a)} : objects' = objects \ swept
  /\ Go(q, "purge", None)
  /\ UNCHANGED <<alive, born, att, queue, worker, dispatches, filled, lost, faults>>

CommitPurge(q) ==
  /\ At(q, "purge")
  /\ alive' = FALSE
  /\ att' = [a \in Attachments |-> None]
  /\ Answer(q)
  /\ UNCHANGED <<born, objects, queue, worker, dispatches, filled, lost, faults>>

\* POST .../extract, in any state of the attachment: saved as pending, then
\* the message is sent.
BeginExtract(q, a) ==
  /\ At(q, "idle") /\ Exists(a)
  /\ dispatches < MaxDispatches
  /\ dispatches' = dispatches + 1
  /\ att' = [att EXCEPT ![a].status = "pending"]
  /\ Go(q, "enqueue", a)
  /\ lost' = lost \ {a}
  /\ UNCHANGED <<alive, born, objects, queue, worker, filled, faults>>

Enqueue(q) ==
  /\ At(q, "enqueue")
  /\ \E n \in 1..dispatches :
       /\ \A m \in queue : m.n # n
       /\ \A w \in Workers : worker[w].msg # None => worker[w].msg.n # n
       /\ queue' = queue \cup {[n |-> n, att |-> request[q].att, retries |-> 0]}
  /\ Answer(q)
  /\ UNCHANGED <<alive, born, att, objects, worker, dispatches, filled, lost, faults>>

\* The process dies, the bucket or the broker cannot be reached, or the database
\* refuses the commit (of a purge, when another request inserted a row under the
\* transaction meanwhile).
RequestDies(q) ==
  /\ ~At(q, "idle")
  /\ faults < MaxFaults
  /\ faults' = faults + 1
  /\ lost' = IF At(q, "enqueue") THEN lost \cup {request[q].att} ELSE lost
  /\ Answer(q)
  /\ UNCHANGED <<alive, born, att, objects, queue, worker, dispatches, filled>>

-----------------------------------------------------------------------------
(* The task extract_attachment.                                            *)

Step(w, pc) == worker' = [worker EXCEPT ![w].pc = pc]

Rest(w) == worker' = [worker EXCEPT ![w] = Resting]

Mine(w) == worker[w].msg.att

\* Saves of columns: nothing is saved, and the task fails, when the row is gone.
MarkFailed(a) ==
  att' = IF Exists(a) THEN [att EXCEPT ![a].status = "failed"] ELSE att

Take(w, m) ==
  /\ worker[w].pc = "idle"
  /\ m \in queue
  /\ queue' = queue \ {m}
  /\ worker' = IF Exists(m.att) THEN [worker EXCEPT ![w] = [pc |-> "read", msg |-> m]] ELSE worker
  /\ UNCHANGED <<alive, born, att, objects, request, dispatches, filled, lost, faults>>

\* get_file: an error that the bucket answers is logged and stands for a missing
\* file, so the row fails though the object may be there.
ReadBytes(w) ==
  /\ worker[w].pc = "read"
  /\ \/ Mine(w) \in objects /\ Step(w, "parse") /\ UNCHANGED att
     \/ MarkFailed(Mine(w)) /\ Rest(w)
  /\ UNCHANGED <<alive, born, objects, request, queue, dispatches, filled, lost, faults>>

\* A bucket that cannot be reached at all raises what neither get_file catches
\* nor autoretry_for repeats: the task ends and the row stays as it is.
ReadEscapes(w) ==
  /\ worker[w].pc = "read"
  /\ lost' = lost \cup {Mine(w)}
  /\ Rest(w)
  /\ UNCHANGED <<alive, born, att, objects, request, queue, dispatches, filled, faults>>

\* The parser's contract came back.
Parsed(w) == Step(w, "done") /\ UNCHANGED <<att, queue>>

Rejected(w) == MarkFailed(Mine(w)) /\ Rest(w) /\ UNCHANGED queue

\* Mutation: after the last retry the row stays as it is.
UnavailableGivesUp(w) ==
  LET m == worker[w].msg IN
  /\ IF m.retries >= MaxRetries THEN UNCHANGED queue
     ELSE queue' = queue \cup {[m EXCEPT !.retries = @ + 1]}
  /\ Rest(w) /\ UNCHANGED att

\* Unreachable, or a 5xx: the message is sent again until retries run out.
Unavailable(w) ==
  LET m == worker[w].msg IN
  /\ IF m.retries >= MaxRetries THEN MarkFailed(m.att) /\ UNCHANGED queue
     ELSE queue' = queue \cup {[m EXCEPT !.retries = @ + 1]} /\ UNCHANGED att
  /\ Rest(w)

Parse(w) ==
  /\ worker[w].pc = "parse"
  /\ Parsed(w) \/ Rejected(w) \/ Unavailable(w)
  /\ UNCHANGED <<alive, born, objects, request, dispatches, filled, lost, faults>>

\* Mutation: only the status is saved before the auto-fill.
DoneWithoutResult(a) == [att[a] EXCEPT !.status = "done"]

Done(a) == [status |-> "done", result |-> TRUE]

MarkDone(w) ==
  /\ worker[w].pc = "done"
  /\ IF Exists(Mine(w))
     THEN att' = [att EXCEPT ![Mine(w)] = Done(Mine(w))] /\ Step(w, "fill")
     ELSE Rest(w) /\ UNCHANGED att
  /\ UNCHANGED <<alive, born, objects, request, queue, dispatches, filled, lost, faults>>

\* auto_fill_from_extraction, nothing when the transaction is gone.
AutoFill(w) ==
  /\ worker[w].pc = "fill"
  /\ filled' = IF alive THEN filled \cup {Mine(w)} ELSE filled
  /\ Rest(w)
  /\ UNCHANGED <<alive, born, att, objects, request, queue, dispatches, lost, faults>>

\* The message was acknowledged: it is lost.
WorkerDies(w) ==
  /\ worker[w].pc # "idle"
  /\ faults < MaxFaults
  /\ faults' = faults + 1
  /\ lost' = lost \cup {Mine(w)}
  /\ Rest(w)
  /\ UNCHANGED <<alive, born, att, objects, request, queue, dispatches, filled>>

-----------------------------------------------------------------------------
Next ==
  \/ \E q \in Requests :
       \/ \E a \in Attachments : BeginUpload(q, a) \/ BeginRemove(q, a) \/ BeginExtract(q, a)
       \/ StoreObject(q) \/ InsertRow(q) \/ DropObject(q) \/ CommitRemove(q)
       \/ SweepObjects(q) \/ CommitPurge(q) \/ Enqueue(q) \/ RequestDies(q)
  \/ \E w \in Workers :
       \/ \E m \in queue : Take(w, m)
       \/ ReadBytes(w) \/ ReadEscapes(w) \/ Parse(w) \/ MarkDone(w) \/ AutoFill(w) \/ WorkerDies(w)

Spec == Init /\ [][Next]_vars

\* A request that began goes on and workers run; users start what they like.
Fairness ==
  /\ \A q \in Requests : WF_vars(Enqueue(q))
  /\ \A w \in Workers :
       /\ WF_vars(\E m \in queue : Take(w, m))
       /\ WF_vars(ReadBytes(w) \/ ReadEscapes(w) \/ Parse(w) \/ MarkDone(w) \/ AutoFill(w))

FairSpec == Spec /\ Fairness

-----------------------------------------------------------------------------
(* Properties.                                                             *)

\* Types; a message never carries more retries than there are.
TypeOK ==
  /\ alive \in BOOLEAN
  /\ born \subseteq Attachments /\ objects \subseteq born /\ filled \subseteq born /\ lost \subseteq born
  /\ att \in [Attachments -> Attachment \cup {None}]
  /\ request \in [Requests -> Request]
  /\ queue \subseteq Message
  /\ worker \in [Workers -> Worker]
  /\ dispatches \in 0..MaxDispatches /\ faults \in 0..MaxFaults
  /\ \A q \in Requests : At(q, "enqueue") => request[q].att \in born

Deleting(a) ==
  \E q \in Requests : At(q, "purge") \/ (At(q, "commit") /\ request[q].att = a)

\* While no process died, no request lost the bucket and no commit was refused, every row has its object,
\* except while the row is being deleted: a download never finds the file missing.
RowsHaveObjects ==
  faults = 0 => \A a \in Attachments : Exists(a) => a \in objects \/ Deleting(a)

\* "The parser result is already durable on the attachment row - a failure here
\* can never lose the parsed data": when items are filled from a receipt its
\* row holds the result, unless the user deleted it.
FilledFromStoredResult ==
  \A a \in filled : Exists(a) => att[a].result

Pending(a) == Exists(a) /\ att[a].status = "pending"

\* A pending extraction comes to an end, after every retry, every answer of the
\* bucket and every overlap of tasks and deletions, unless since it was asked for
\* its message was lost with a process or its task ended on an unreachable bucket.
PendingEnds == \A a \in Attachments : Pending(a) ~> (~Pending(a) \/ a \in lost)
=============================================================================
