-------------------------- MODULE Extraction_proofs --------------------------
(***************************************************************************)
(* Proofs about Extraction: its types, that rows keep their objects, and   *)
(* that items are filled only from a stored result.                        *)
(***************************************************************************)
EXTENDS Extraction, TLAPS

\* A request between the choice of an attachment's id and the insert of its row.
Uploads(q) == request[q].pc \in {"store", "insert"}

\* A request that refers to an attachment it has read.
Refers(q) == request[q].pc \in {"drop", "commit", "enqueue"}

Busy(w) == worker[w].pc # "idle"

\* Whatever names an attachment names one whose id was used.
Known ==
  /\ \A a \in Attachments : Exists(a) => a \in born
  /\ \A q \in Requests : Uploads(q) \/ Refers(q) => request[q].att \in born
  /\ \A m \in queue : m.att \in born
  /\ \A w \in Workers : Busy(w) => worker[w].msg \in Message /\ worker[w].msg.att \in born

\* The attachment of an upload is known to nobody but its request.
Fresh ==
  \A q \in Requests : Uploads(q) =>
    /\ ~Exists(request[q].att) /\ request[q].att \notin filled
    /\ \A r \in Requests : r # q /\ (Uploads(r) \/ Refers(r)) => request[r].att # request[q].att
    /\ \A m \in queue : m.att # request[q].att
    /\ \A w \in Workers : Busy(w) => worker[w].msg.att # request[q].att

\* A row is inserted only under a stored object.
InsertsStored == \A q \in Requests : At(q, "insert") => request[q].att \in objects

\* A task that is about to fill items has stored the result.
FillsStored ==
  \A w \in Workers : worker[w].pc = "fill" /\ Exists(worker[w].msg.att) =>
    att[worker[w].msg.att].result

TInv == TypeOK /\ Known

FreshInv == TInv /\ Fresh

ObjectInv == FreshInv /\ InsertsStored /\ RowsHaveObjects

FillInv == FreshInv /\ FillsStored /\ FilledFromStoredResult

-----------------------------------------------------------------------------
(* Types.                                                                  *)

LEMMA RequestKeepsType ==
  ASSUME TInv, NEW q \in Requests, NEW a \in Attachments,
         BeginUpload(q, a) \/ BeginRemove(q, a) \/ BeginExtract(q, a)
  PROVE  TInv'
  <1> USE ConstantsAssumption DEF TInv, TypeOK, Known, At, Go, Exists, Uploads, Refers, Busy
  <1>1. CASE BeginUpload(q, a)
    BY <1>1 DEF BeginUpload, Request
  <1>2. CASE BeginRemove(q, a)
    BY <1>2 DEF BeginRemove, Request
  <1>3. CASE BeginExtract(q, a)
    BY <1>3 DEF BeginExtract, Request, Attachment
  <1> QED
    BY <1>1, <1>2, <1>3

LEMMA RequestStepKeepsType ==
  ASSUME TInv, NEW q \in Requests,
         \/ StoreObject(q) \/ InsertRow(q) \/ DropObject(q) \/ CommitRemove(q)
         \/ SweepObjects(q) \/ CommitPurge(q) \/ Enqueue(q) \/ RequestDies(q)
  PROVE  TInv'
  <1> USE ConstantsAssumption
      DEF TInv, TypeOK, Known, At, Go, Answer, Free, Exists, Uploads, Refers, Busy, Request
  <1>1. CASE StoreObject(q)
    BY <1>1 DEF StoreObject, Stored
  <1>2. CASE InsertRow(q)
    BY <1>2 DEF InsertRow, Attachment
  <1>3. CASE DropObject(q)
    BY <1>3 DEF DropObject
  <1>4. CASE CommitRemove(q)
    BY <1>4 DEF CommitRemove
  <1>5. CASE SweepObjects(q)
    BY <1>5 DEF SweepObjects
  <1>6. CASE CommitPurge(q)
    BY <1>6 DEF CommitPurge
  <1>7. CASE Enqueue(q)
    BY <1>7 DEF Enqueue, Message
  <1>8. CASE RequestDies(q)
    BY <1>8 DEF RequestDies
  <1> QED
    BY <1>1, <1>2, <1>3, <1>4, <1>5, <1>6, <1>7, <1>8

LEMMA TaskStepKeepsType ==
  ASSUME TInv, NEW w \in Workers,
         \/ \E m \in queue : Take(w, m)
         \/ ReadBytes(w) \/ ReadEscapes(w) \/ Parse(w) \/ MarkDone(w) \/ AutoFill(w) \/ WorkerDies(w)
  PROVE  TInv'
  <1> USE ConstantsAssumption
      DEF TInv, TypeOK, Known, Exists, Uploads, Refers, Busy, Step, Rest, Resting, Mine, At,
          Worker
  <1>1. CASE \E m \in queue : Take(w, m)
    BY <1>1 DEF Take
  <1>2. CASE ReadBytes(w)
    BY <1>2 DEF ReadBytes, MarkFailed, Attachment
  <1>3. CASE Parse(w)
    <2>1. worker[w].msg \in Message
      BY <1>3 DEF Parse
    <2>2. CASE worker[w].msg.retries < MaxRetries /\ Unavailable(w)
      <3> DEFINE again == [worker[w].msg EXCEPT !.retries = @ + 1]
      <3>1. again \in Message /\ again.att = worker[w].msg.att
        BY <2>1, <2>2 DEF Message
      <3>2. queue' = queue \cup {again} /\ UNCHANGED att
        BY <2>1, <2>2 DEF Unavailable, Message
      <3> HIDE DEF again
      <3> QED
        BY <1>3, <2>2, <3>1, <3>2 DEF Parse, Unavailable
    <2>3. CASE ~(worker[w].msg.retries < MaxRetries) /\ Unavailable(w)
      BY <1>3, <2>1, <2>3 DEF Parse, Unavailable, MarkFailed, Attachment, Message
    <2>4. CASE Parsed(w) \/ Rejected(w)
      BY <1>3, <2>4 DEF Parse, Parsed, Rejected, MarkFailed, Attachment
    <2> QED
      BY <1>3, <2>2, <2>3, <2>4 DEF Parse
  <1>4. CASE MarkDone(w)
    <2>1. CASE Exists(Mine(w))
      <3>1. Done(Mine(w)) \in Attachment
        BY DEF Done, Attachment
      <3>2. att' = [att EXCEPT ![Mine(w)] = Done(Mine(w))] /\ worker' = [worker EXCEPT ![w].pc = "fill"]
        BY <1>4, <2>1 DEF MarkDone
      <3> HIDE DEF Mine
      <3> QED
        BY <1>4, <3>1, <3>2 DEF MarkDone, Mine
    <2>2. CASE ~Exists(Mine(w))
      BY <1>4, <2>2 DEF MarkDone
    <2> QED
      BY <2>1, <2>2
  <1>5. CASE AutoFill(w)
    BY <1>5 DEF AutoFill
  <1>6. CASE ReadEscapes(w) \/ WorkerDies(w)
    BY <1>6 DEF ReadEscapes, WorkerDies
  <1> QED
    BY <1>1, <1>2, <1>3, <1>4, <1>5, <1>6

LEMMA InitType == Init => TInv
  BY ConstantsAssumption
     DEF Init, TInv, TypeOK, Known, Exists, At, Uploads, Refers, Busy, Free, Resting,
         Request, Worker

\* Every variable keeps its type, and ids are used before they are referred to.
LEMMA NextKeepsType == TInv /\ [Next]_vars => TInv'
  <1> SUFFICES ASSUME TInv, [Next]_vars PROVE TInv'
    OBVIOUS
  <1>1. CASE UNCHANGED vars
    BY <1>1 DEF vars, TInv, TypeOK, Known, Exists, At, Uploads, Refers, Busy
  <1>2. CASE Next
    BY <1>2, RequestKeepsType, RequestStepKeepsType, TaskStepKeepsType DEF Next
  <1> QED
    BY <1>1, <1>2

\* Types, for every number of attachments, requests, workers, retries and
\* dispatches; no message is retried more often than allowed.
THEOREM TypeCorrect == Spec => []TypeOK
  <1>1. TInv => TypeOK
    BY DEF TInv
  <1> QED
    BY <1>1, InitType, NextKeepsType, PTL DEF Spec

-----------------------------------------------------------------------------
(* The attachment of an upload is nobody else's.                           *)

\* A step that starts no upload and inserts no row, and in which tasks and
\* requests come to know only what another already knows or a row that exists.
LEMMA FreshFrame ==
  ASSUME FreshInv, TInv',
         \A q \in Requests : Uploads(q)' =>
           Uploads(q) /\ request'[q].att = request[q].att,
         \A q \in Requests : Refers(q)' /\ ~(Refers(q) /\ request'[q].att = request[q].att) =>
           Exists(request'[q].att),
         \A a \in Attachments : Exists(a)' => Exists(a),
         \A a \in filled' : a \in filled \/ \E w \in Workers : Busy(w) /\ worker[w].msg.att = a,
         \A m \in queue' :
           \/ \E n \in queue : n.att = m.att
           \/ \E r \in Requests : Refers(r) /\ request[r].att = m.att
           \/ \E w \in Workers : Busy(w) /\ worker[w].msg.att = m.att,
         \A w \in Workers : Busy(w)' =>
           \/ \E n \in queue : n.att = worker'[w].msg.att
           \/ Busy(w) /\ worker[w].msg.att = worker'[w].msg.att
  PROVE  Fresh'
  <1> SUFFICES ASSUME NEW q \in Requests, Uploads(q)'
               PROVE  /\ ~Exists(request[q].att)' /\ request'[q].att \notin filled'
                      /\ \A r \in Requests : r # q /\ (Uploads(r) \/ Refers(r))' =>
                           request'[r].att # request'[q].att
                      /\ \A m \in queue' : m.att # request'[q].att
                      /\ \A w \in Workers : Busy(w)' => worker'[w].msg.att # request'[q].att
    BY DEF Fresh
  <1> DEFINE a == request[q].att
  <1>1. Uploads(q) /\ request'[q].att = a /\ a \in Attachments
    BY DEF FreshInv, TInv, TypeOK, Known
  <1>2. /\ ~Exists(a) /\ a \notin filled
        /\ \A r \in Requests : r # q /\ (Uploads(r) \/ Refers(r)) => request[r].att # a
        /\ \A m \in queue : m.att # a
        /\ \A w \in Workers : Busy(w) => worker[w].msg.att # a
    BY <1>1 DEF FreshInv, Fresh
  <1>3. \A r \in Requests : Refers(r) => r # q
    BY <1>1 DEF Uploads, Refers
  <1>4. \A r \in Requests : Refers(r)' => r # q
    BY DEF Uploads, Refers
  <1>5. ~Exists(request[q].att)'
    BY <1>1, <1>2 DEF Exists
  <1> HIDE DEF a
  <1> QED
    BY <1>1, <1>2, <1>3, <1>4, <1>5

LEMMA BeginUploadKeepsFresh ==
  ASSUME FreshInv, TInv', NEW q \in Requests, NEW a \in Attachments, BeginUpload(q, a)
  PROVE  Fresh'
  <1>1. /\ request' = [request EXCEPT ![q] = [pc |-> "store", att |-> a]]
        /\ a \notin born
        /\ UNCHANGED <<att, filled, queue, worker>>
    BY DEF BeginUpload, Go
  <1>2. /\ ~Exists(a) /\ a \notin filled
        /\ \A r \in Requests : Uploads(r) \/ Refers(r) => request[r].att # a
        /\ \A m \in queue : m.att # a
        /\ \A w \in Workers : Busy(w) => worker[w].msg.att # a
    BY <1>1 DEF FreshInv, TInv, Known, TypeOK
  <1>3. request'[q].att = a /\ \A r \in Requests : r # q => request'[r] = request[r]
    BY <1>1 DEF FreshInv, TInv, TypeOK
  <1>4. SUFFICES ASSUME NEW r \in Requests, Uploads(r)'
                 PROVE  /\ ~Exists(request[r].att)' /\ request'[r].att \notin filled'
                        /\ \A e \in Requests : e # r /\ (Uploads(e) \/ Refers(e))' =>
                             request'[e].att # request'[r].att
                        /\ \A m \in queue' : m.att # request'[r].att
                        /\ \A w \in Workers : Busy(w)' => worker'[w].msg.att # request'[r].att
    BY DEF Fresh
  <1>5. CASE r = q
    BY <1>1, <1>2, <1>3, <1>5 DEF Exists, Uploads, Refers, Busy
  <1>6. CASE r # q
    <2>1. Uploads(r)
      BY <1>3, <1>4, <1>6 DEF Uploads
    <2> QED
      BY <1>1, <1>2, <1>3, <1>6, <2>1 DEF FreshInv, Fresh, Exists, Uploads, Refers, Busy
  <1> QED
    BY <1>5, <1>6

LEMMA InsertRowKeepsFresh ==
  ASSUME FreshInv, TInv', NEW q \in Requests, InsertRow(q)
  PROVE  Fresh'
  <1>1. /\ Uploads(q) /\ request' = [request EXCEPT ![q] = Free]
        /\ UNCHANGED <<filled, queue, worker>>
    BY DEF InsertRow, Answer, At, Uploads
  <1>2. \A a \in Attachments : a # request[q].att => att'[a] = att[a]
    BY DEF InsertRow, FreshInv, TInv, TypeOK
  <1>3. \A r \in Requests : Uploads(r)' \/ Refers(r)' =>
          r # q /\ request'[r] = request[r]
    BY <1>1 DEF FreshInv, TInv, TypeOK, Free, Uploads, Refers
  <1>4. \A r \in Requests : Uploads(r) /\ r # q =>
          request[r].att # request[q].att /\ request[r].att \in Attachments
    BY <1>1 DEF FreshInv, Fresh, TInv, Known, TypeOK
  <1> QED
    BY <1>1, <1>2, <1>3, <1>4 DEF FreshInv, Fresh, Exists, Uploads, Refers, Busy

LEMMA RequestKeepsFresh ==
  ASSUME FreshInv, TInv', NEW q \in Requests,
         \/ \E a \in Attachments : BeginRemove(q, a) \/ BeginExtract(q, a)
         \/ StoreObject(q) \/ DropObject(q) \/ CommitRemove(q) \/ SweepObjects(q)
         \/ CommitPurge(q) \/ Enqueue(q) \/ RequestDies(q)
  PROVE  Fresh'
  <1> USE ConstantsAssumption
      DEF FreshInv, TInv, TypeOK, Exists, At, Go, Answer, Free, Uploads, Refers, Busy
  <1>1. CASE \E a \in Attachments : BeginRemove(q, a)
    BY <1>1, FreshFrame DEF BeginRemove
  <1>2. CASE \E a \in Attachments : BeginExtract(q, a)
    BY <1>2, FreshFrame DEF BeginExtract
  <1>3. CASE StoreObject(q)
    BY <1>3, FreshFrame DEF StoreObject, Stored
  <1>4. CASE DropObject(q)
    BY <1>4, FreshFrame DEF DropObject
  <1>5. CASE CommitRemove(q)
    BY <1>5, FreshFrame DEF CommitRemove
  <1>6. CASE SweepObjects(q)
    BY <1>6, FreshFrame DEF SweepObjects
  <1>7. CASE CommitPurge(q)
    BY <1>7, FreshFrame DEF CommitPurge
  <1>8. CASE Enqueue(q)
    BY <1>8, FreshFrame DEF Enqueue
  <1>9. CASE RequestDies(q)
    BY <1>9, FreshFrame DEF RequestDies
  <1> QED
    BY <1>1, <1>2, <1>3, <1>4, <1>5, <1>6, <1>7, <1>8, <1>9

LEMMA TaskKeepsFresh ==
  ASSUME FreshInv, TInv', NEW w \in Workers,
         \/ \E m \in queue : Take(w, m)
         \/ ReadBytes(w) \/ ReadEscapes(w) \/ Parse(w) \/ MarkDone(w) \/ AutoFill(w) \/ WorkerDies(w)
  PROVE  Fresh'
  <1> USE DEF FreshInv, TInv, TypeOK, Exists, Uploads, Refers, Busy, Step, Rest, Resting, Mine
  <1>1. CASE \E m \in queue : Take(w, m)
    BY <1>1, FreshFrame DEF Take
  <1>2. CASE ReadBytes(w)
    <2>1. /\ \A v \in Workers : Busy(v)' => Busy(v) /\ worker'[v].msg = worker[v].msg
          /\ UNCHANGED <<request, queue, filled>>
      BY <1>2 DEF ReadBytes, Worker
    <2>2. \A a \in Attachments : Exists(a)' => Exists(a)
      BY <1>2 DEF ReadBytes, MarkFailed
    <2> QED
      BY <2>1, <2>2, FreshFrame
  <1>3. CASE Parse(w)
    <2>1. /\ \A v \in Workers : Busy(v)' => Busy(v) /\ worker'[v].msg = worker[v].msg
          /\ UNCHANGED <<request, filled>>
      BY <1>3 DEF Parse, Parsed, Rejected, Unavailable, Worker
    <2>2. \A a \in Attachments : Exists(a)' => Exists(a)
      BY <1>3 DEF Parse, Parsed, Rejected, Unavailable, MarkFailed
    <2>3. worker[w].msg \in Message
      BY <1>3 DEF Parse, Known
    <2>4. \A m \in queue' : m \in queue \/ m = [worker[w].msg EXCEPT !.retries = @ + 1]
      BY <1>3 DEF Parse, Parsed, Rejected, Unavailable
    <2>5. \A m \in queue' : m \in queue \/ m.att = worker[w].msg.att
      BY <2>3, <2>4 DEF Message
    <2> QED
      BY <1>3, <2>1, <2>2, <2>5, FreshFrame DEF Parse
  <1>4. CASE MarkDone(w)
    <2>1. /\ \A v \in Workers : Busy(v)' => Busy(v) /\ worker'[v].msg = worker[v].msg
          /\ UNCHANGED <<request, queue, filled>>
      BY <1>4 DEF MarkDone, Worker
    <2>2. \A a \in Attachments : Exists(a)' => Exists(a)
      BY <1>4 DEF MarkDone
    <2> QED
      BY <2>1, <2>2, FreshFrame
  <1>5. CASE AutoFill(w)
    BY <1>5, FreshFrame DEF AutoFill
  <1>6. CASE ReadEscapes(w) \/ WorkerDies(w)
    BY <1>6, FreshFrame DEF ReadEscapes, WorkerDies
  <1> QED
    BY <1>1, <1>2, <1>3, <1>4, <1>5, <1>6

LEMMA InitFresh == Init => FreshInv
  BY InitType DEF Init, FreshInv, Fresh, Uploads, Free

\* The attachment of an upload stays known to its request alone.
LEMMA NextKeepsFresh == FreshInv /\ [Next]_vars => FreshInv'
  <1> SUFFICES ASSUME FreshInv, [Next]_vars PROVE Fresh'
    BY NextKeepsType DEF FreshInv
  <1>1. TInv'
    BY NextKeepsType DEF FreshInv
  <1>2. CASE UNCHANGED vars
    BY <1>2 DEF vars, FreshInv, Fresh, Exists, Uploads, Refers, Busy
  <1>3. CASE Next
    BY <1>1, <1>3, BeginUploadKeepsFresh, InsertRowKeepsFresh, RequestKeepsFresh,
       TaskKeepsFresh DEF Next
  <1> QED
    BY <1>2, <1>3

-----------------------------------------------------------------------------
(* Rows and objects.                                                       *)

\* A step of a task removes no row, inserts none and leaves the bucket alone.
LEMMA TaskLeavesRows ==
  ASSUME TInv, NEW w \in Workers,
         \/ \E m \in queue : Take(w, m)
         \/ ReadBytes(w) \/ ReadEscapes(w) \/ Parse(w) \/ MarkDone(w) \/ AutoFill(w) \/ WorkerDies(w)
  PROVE  /\ \A a \in Attachments : Exists(a)' => Exists(a)
         /\ UNCHANGED <<objects, request>> /\ (faults' = 0 => faults = 0)
  BY DEF TInv, TypeOK, Exists, Take, ReadBytes, Parse, Parsed, Rejected, Unavailable,
         ReadEscapes, MarkFailed, MarkDone, AutoFill, WorkerDies

LEMMA TaskKeepsObjects ==
  ASSUME ObjectInv, NEW w \in Workers,
         \/ \E m \in queue : Take(w, m)
         \/ ReadBytes(w) \/ ReadEscapes(w) \/ Parse(w) \/ MarkDone(w) \/ AutoFill(w) \/ WorkerDies(w)
  PROVE  (InsertsStored /\ RowsHaveObjects)'
  <1>1. /\ \A a \in Attachments : Exists(a)' => Exists(a)
        /\ UNCHANGED <<objects, request>> /\ (faults' = 0 => faults = 0)
    BY TaskLeavesRows DEF ObjectInv, FreshInv
  <1> QED
    BY <1>1 DEF ObjectInv, InsertsStored, RowsHaveObjects, Deleting, At

LEMMA RequestKeepsInsertsStored ==
  ASSUME ObjectInv, NEW q \in Requests,
         \/ \E a \in Attachments : BeginUpload(q, a) \/ BeginRemove(q, a) \/ BeginExtract(q, a)
         \/ StoreObject(q) \/ InsertRow(q) \/ DropObject(q) \/ CommitRemove(q)
         \/ SweepObjects(q) \/ CommitPurge(q) \/ Enqueue(q) \/ RequestDies(q)
  PROVE  InsertsStored'
  <1> USE DEF ObjectInv, FreshInv, TInv, TypeOK, InsertsStored, At, Go, Answer, Free
  <1>1. CASE StoreObject(q)
    BY <1>1 DEF StoreObject, Stored
  <1>2. CASE DropObject(q)
    <2>1. \A r \in Requests : At(r, "insert") => r # q /\ request[r].att # request[q].att
      BY <1>2 DEF DropObject, Fresh, Uploads, Refers
    <2> QED
      BY <1>2, <2>1 DEF DropObject
  <1>3. CASE SweepObjects(q)
    <2>1. \A r \in Requests : At(r, "insert") => ~Exists(request[r].att)
      BY DEF Fresh, Uploads
    <2> QED
      BY <1>3, <2>1 DEF SweepObjects
  <1>4. ASSUME UNCHANGED objects,
               \A r \in Requests : At(r, "insert")' => request'[r] = request[r]
        PROVE  InsertsStored'
    BY <1>4
  <1> QED
    BY <1>1, <1>2, <1>3, <1>4
       DEF BeginUpload, BeginRemove, BeginExtract, InsertRow, CommitRemove, CommitPurge,
           Enqueue, RequestDies

LEMMA RequestKeepsObjects ==
  ASSUME ObjectInv, NEW q \in Requests,
         \/ \E a \in Attachments : BeginUpload(q, a) \/ BeginRemove(q, a) \/ BeginExtract(q, a)
         \/ StoreObject(q) \/ InsertRow(q) \/ DropObject(q) \/ CommitRemove(q)
         \/ SweepObjects(q) \/ CommitPurge(q) \/ Enqueue(q) \/ RequestDies(q)
  PROVE  RowsHaveObjects'
  <1> SUFFICES ASSUME faults' = 0, NEW b \in Attachments, Exists(b)', b \notin objects'
               PROVE  Deleting(b)'
    BY DEF RowsHaveObjects
  <1> USE DEF ObjectInv, FreshInv, TInv, TypeOK, RowsHaveObjects, Deleting, Exists, At, Go,
              Answer, Free
  <1>1. CASE \E a \in Attachments : BeginUpload(q, a) \/ BeginRemove(q, a)
    BY <1>1 DEF BeginUpload, BeginRemove
  <1>2. CASE \E a \in Attachments : BeginExtract(q, a)
    BY <1>2 DEF BeginExtract
  <1>3. CASE StoreObject(q)
    BY <1>3 DEF StoreObject, Stored
  <1>4. CASE InsertRow(q)
    <2>1. b # request[q].att
      BY <1>4 DEF InsertRow, InsertsStored
    <2> QED
      BY <1>4, <2>1 DEF InsertRow
  <1>5. CASE DropObject(q)
    BY <1>5 DEF DropObject
  <1>6. CASE CommitRemove(q)
    BY <1>6 DEF CommitRemove
  <1>7. CASE SweepObjects(q)
    BY <1>7 DEF SweepObjects
  <1>8. CASE CommitPurge(q)
    BY <1>8 DEF CommitPurge
  <1>9. CASE Enqueue(q)
    BY <1>9 DEF Enqueue
  <1>10. CASE RequestDies(q)
    BY <1>10 DEF RequestDies
  <1> QED
    BY <1>1, <1>2, <1>3, <1>4, <1>5, <1>6, <1>7, <1>8, <1>9, <1>10

\* While nothing failed, every row has its object unless it is being deleted,
\* for any number of uploads, deletions, purges and extractions under way.
THEOREM RowsKeepObjects == Spec => []RowsHaveObjects
  <1>1. Init => ObjectInv
    BY InitFresh DEF Init, ObjectInv, InsertsStored, RowsHaveObjects, Exists, At, Free
  <1>2. ObjectInv /\ [Next]_vars => ObjectInv'
    <2> SUFFICES ASSUME ObjectInv, [Next]_vars PROVE (InsertsStored /\ RowsHaveObjects)'
      BY NextKeepsFresh DEF ObjectInv
    <2>1. CASE UNCHANGED vars
      BY <2>1 DEF vars, ObjectInv, InsertsStored, RowsHaveObjects, Deleting, Exists, At
    <2>2. CASE Next
      BY <2>2, TaskKeepsObjects, RequestKeepsInsertsStored, RequestKeepsObjects DEF Next
    <2> QED
      BY <2>1, <2>2
  <1>3. ObjectInv => RowsHaveObjects
    BY DEF ObjectInv
  <1> QED
    BY <1>1, <1>2, <1>3, PTL DEF Spec

-----------------------------------------------------------------------------
(* Items are filled from stored results.                                   *)

\* A step that forgets no result, fills nothing new and starts no filling.
LEMMA FillFrame ==
  ASSUME FillInv,
         \A a \in Attachments : Exists(a)' => Exists(a) /\ (att[a].result => att'[a].result),
         filled' = filled,
         \A w \in Workers : worker'[w].pc = "fill" => worker'[w] = worker[w]
  PROVE  (FillsStored /\ FilledFromStoredResult)'
  <1>1. \A w \in Workers : worker[w].pc = "fill" => worker[w].msg.att \in Attachments
    BY DEF FillInv, FreshInv, TInv, TypeOK, Known, Busy
  <1>2. filled \subseteq Attachments
    BY DEF FillInv, FreshInv, TInv, TypeOK
  <1> QED
    BY <1>1, <1>2 DEF FillInv, FillsStored, FilledFromStoredResult, Exists

LEMMA RequestKeepsFilled ==
  ASSUME FillInv, NEW q \in Requests,
         \/ \E a \in Attachments : BeginUpload(q, a) \/ BeginRemove(q, a) \/ BeginExtract(q, a)
         \/ StoreObject(q) \/ InsertRow(q) \/ DropObject(q) \/ CommitRemove(q)
         \/ SweepObjects(q) \/ CommitPurge(q) \/ Enqueue(q) \/ RequestDies(q)
  PROVE  (FillsStored /\ FilledFromStoredResult)'
  <1>1. CASE InsertRow(q)
    <2>1. /\ request[q].att \notin filled
          /\ \A w \in Workers : Busy(w) => worker[w].msg.att # request[q].att
      BY <1>1 DEF InsertRow, At, FillInv, FreshInv, Fresh, Uploads
    <2>2. /\ \A a \in Attachments : a # request[q].att => att'[a] = att[a]
          /\ UNCHANGED <<filled, worker>>
      BY <1>1 DEF InsertRow, FillInv, FreshInv, TInv, TypeOK
    <2>3. /\ \A w \in Workers : worker[w].pc = "fill" => Busy(w) /\ worker[w].msg.att \in Attachments
          /\ filled \subseteq Attachments
      BY DEF FillInv, FreshInv, TInv, TypeOK, Known, Busy
    <2> QED
      BY <2>1, <2>2, <2>3 DEF FillInv, FillsStored, FilledFromStoredResult, Exists
  <1>2. CASE ~InsertRow(q)
    <2>1. UNCHANGED <<filled, worker>>
      BY <1>2 DEF BeginUpload, BeginRemove, BeginExtract, StoreObject, DropObject,
         CommitRemove, SweepObjects, CommitPurge, Enqueue, RequestDies
    <2>2. \A a \in Attachments : Exists(a)' => Exists(a) /\ (att[a].result => att'[a].result)
      BY <1>2 DEF BeginUpload, BeginRemove, BeginExtract, StoreObject, DropObject,
         CommitRemove, SweepObjects, CommitPurge, Enqueue, RequestDies, Exists, Attachment,
         FillInv, FreshInv, TInv, TypeOK
    <2> QED
      BY <2>1, <2>2, FillFrame
  <1> QED
    BY <1>1, <1>2

LEMMA TaskKeepsFilled ==
  ASSUME FillInv, NEW w \in Workers,
         \/ \E m \in queue : Take(w, m)
         \/ ReadBytes(w) \/ ReadEscapes(w) \/ Parse(w) \/ MarkDone(w) \/ AutoFill(w) \/ WorkerDies(w)
  PROVE  (FillsStored /\ FilledFromStoredResult)'
  <1> USE DEF FillInv, FreshInv, TInv, TypeOK, Exists, Step, Rest, Resting
  <1>1. CASE (\E m \in queue : Take(w, m)) \/ ReadEscapes(w) \/ WorkerDies(w)
    <2>1. UNCHANGED <<att, filled>>
      BY <1>1 DEF Take, ReadEscapes, WorkerDies
    <2>2. \A v \in Workers : worker'[v].pc = "fill" => worker'[v] = worker[v]
      BY <1>1 DEF Take, ReadEscapes, WorkerDies
    <2> QED
      BY <2>1, <2>2, FillFrame
  <1>2. CASE ReadBytes(w) \/ Parse(w)
    <2>1. \A v \in Workers : worker'[v].pc = "fill" => worker'[v] = worker[v]
      BY <1>2 DEF ReadBytes, Parse, Parsed, Rejected, Unavailable, Worker
    <2>2. UNCHANGED att \/ \E a \in Attachments : MarkFailed(a)
      BY <1>2 DEF ReadBytes, Parse, Parsed, Rejected, Unavailable, Mine, Known, Busy
    <2>3. \A a \in Attachments : Exists(a)' => Exists(a) /\ (att[a].result => att'[a].result)
      BY <2>2 DEF MarkFailed, Attachment
    <2>4. UNCHANGED filled
      BY <1>2 DEF ReadBytes, Parse
    <2> QED
      BY <2>1, <2>3, <2>4, FillFrame
  <1>3. CASE MarkDone(w)
    <2>1. worker[w].msg.att \in Attachments
      BY <1>3 DEF MarkDone, Known, Busy
    <2>2. \A a \in Attachments : Exists(a)' => Exists(a) /\ (att[a].result => att'[a].result)
      BY <1>3, <2>1 DEF MarkDone, Mine, Done
    <2>3. Exists(worker[w].msg.att) => att'[worker[w].msg.att].result
      BY <1>3, <2>1 DEF MarkDone, Mine, Done
    <2>4. \A v \in Workers : v # w => worker'[v] = worker[v]
      BY <1>3 DEF MarkDone
    <2>5. worker'[w].pc = "fill" => worker'[w].msg = worker[w].msg /\ Exists(worker[w].msg.att)
      BY <1>3 DEF MarkDone, Mine, Worker
    <2>6. \A v \in Workers : worker[v].pc = "fill" => worker[v].msg.att \in Attachments
      BY DEF Known, Busy
    <2>7. filled' = filled /\ filled \subseteq Attachments
      BY <1>3 DEF MarkDone
    <2> QED
      BY <2>2, <2>3, <2>4, <2>5, <2>6, <2>7 DEF FillsStored, FilledFromStoredResult
  <1>4. CASE AutoFill(w)
    <2>1. /\ worker[w].pc = "fill" /\ UNCHANGED att
          /\ filled' \subseteq filled \cup {worker[w].msg.att}
      BY <1>4 DEF AutoFill, Mine
    <2>2. \A v \in Workers : worker'[v].pc = "fill" => worker'[v] = worker[v]
      BY <1>4 DEF AutoFill
    <2> QED
      BY <2>1, <2>2 DEF FillsStored, FilledFromStoredResult
  <1> QED
    BY <1>1, <1>2, <1>3, <1>4

\* Whatever tasks, retries, deletions and crashes overlap, items are filled
\* from a receipt only once its row holds the result, and the row keeps it.
THEOREM FilledStored == Spec => []FilledFromStoredResult
  <1>1. Init => FillInv
    BY InitFresh DEF Init, FillInv, FillsStored, FilledFromStoredResult, Resting
  <1>2. FillInv /\ [Next]_vars => FillInv'
    <2> SUFFICES ASSUME FillInv, [Next]_vars PROVE (FillsStored /\ FilledFromStoredResult)'
      BY NextKeepsFresh DEF FillInv
    <2>1. CASE UNCHANGED vars
      BY <2>1 DEF vars, FillInv, FillsStored, FilledFromStoredResult, Exists
    <2>2. CASE Next
      BY <2>2, TaskKeepsFilled, RequestKeepsFilled DEF Next
    <2> QED
      BY <2>1, <2>2
  <1>3. FillInv => FilledFromStoredResult
    BY DEF FillInv
  <1> QED
    BY <1>1, <1>2, <1>3, PTL DEF Spec
=============================================================================
