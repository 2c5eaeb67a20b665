------------------------- MODULE Idempotency_proofs -------------------------
(***************************************************************************)
(* Theorems of Idempotency, for every number of keys, requests and         *)
(* objects and for both endpoints.                                         *)
(***************************************************************************)
EXTENDS Idempotency, TLAPS

LEMMA InitType == Init => TypeOK
  BY ConstantsAssumption DEF Init, TypeOK, Record, Object, Request, Unused, New

\* What a request may become, whatever it was.
WellFormed(f) ==
  /\ f \in Request
  /\ f.pc # "new" => f.key \in Keys
  /\ f.pc \in {"fetch", "commit"} => f.target \in Objects

LEMMA MoveKeepsType ==
  ASSUME TypeOK, NEW r \in Requests, NEW f, WellFormed(f), Move(r, f)
  PROVE  /\ request' \in [Requests -> Request]
         /\ \A s \in Requests : WellFormed(request'[s])
         /\ request'[r] = f
         /\ \A s \in Requests : s # r => request'[s] = request[s]
  <1>1. request' = [request EXCEPT ![r] = f] /\ request \in [Requests -> Request]
    BY DEF Move, TypeOK
  <1>2. \A s \in Requests : WellFormed(request[s])
    BY DEF WellFormed, TypeOK
  <1>3. \A s \in Requests : request'[s] = IF s = r THEN f ELSE request[s]
    BY <1>1
  <1>4. f \in Request
    BY DEF WellFormed
  <1> QED
    BY <1>1, <1>2, <1>3, <1>4

\* The same step, told from the new record alone.
LEMMA MovedType ==
  ASSUME TypeOK, NEW r \in Requests, NEW f, WellFormed(f), Move(r, f),
         record' \in [Keys -> Record \cup {None}], object' \in [Objects -> Object]
  PROVE  TypeOK'
  BY MoveKeepsType DEF TypeOK, WellFormed

LEMMA DropType ==
  ASSUME TypeOK, NEW r \in Requests, NEW next \in {"sweep", "insert"},
         request[r].pc # "new", record[request[r].key] # None,
         Drop(r, next), UNCHANGED object
  PROVE  TypeOK'
  <1>1. request[r] \in Request /\ request[r].key \in Keys
    BY DEF TypeOK
  <1>2. record[request[r].key].id \in Requests
    BY <1>1 DEF TypeOK, Record
  <1>3. CASE request[r].key \in PlannedKeys
    <2> DEFINE f == [request[r] EXCEPT !.pc = next]
    <2>1. f \in Request /\ f.key = request[r].key /\ f.pc = next
      BY <1>1 DEF Request
    <2>2. Move(r, f) /\ record' = [record EXCEPT ![request[r].key] = None]
      BY <1>3 DEF Drop
    <2>3. WellFormed(f)
      BY <1>1, <2>1 DEF WellFormed
    <2>4. record' \in [Keys -> Record \cup {None}]
      BY <2>2 DEF TypeOK
    <2> HIDE DEF f
    <2> QED
      BY <2>2, <2>3, <2>4, MovedType DEF TypeOK
  <1>4. CASE request[r].key \notin PlannedKeys
    <2> DEFINE f == [request[r] EXCEPT !.pc = next, !.drops = record[request[r].key].id]
    <2>1. f \in Request /\ f.key = request[r].key /\ f.pc = next
      BY <1>1, <1>2 DEF Request
    <2>2. Move(r, f) /\ UNCHANGED record
      BY <1>4 DEF Drop
    <2>3. WellFormed(f)
      BY <1>1, <2>1 DEF WellFormed
    <2> HIDE DEF f
    <2> QED
      BY <2>2, <2>3, MovedType DEF TypeOK
  <1> QED
    BY <1>3, <1>4

LEMMA SkipType ==
  ASSUME TypeOK, NEW r \in Requests, NEW next \in {"sweep", "insert", "lost"},
         request[r].pc # "new", Skip(r, next), UNCHANGED object
  PROVE  TypeOK'
  <1> DEFINE f == [request[r] EXCEPT !.pc = next]
  <1>1. request[r] \in Request /\ request[r].key \in Keys
    BY DEF TypeOK
  <1>2. f \in Request /\ f.key = request[r].key /\ f.pc = next
    BY <1>1 DEF Request
  <1>3. WellFormed(f)
    BY <1>1, <1>2 DEF WellFormed
  <1>4. Move(r, f) /\ UNCHANGED record
    BY DEF Skip
  <1> HIDE DEF f
  <1> QED
    BY <1>3, <1>4, MovedType DEF TypeOK

LEMMA LookupKeepsType ==
  ASSUME TypeOK, NEW r \in Requests, NEW k \in Keys, Lookup(r, k)
  PROVE  TypeOK'
  <1> DEFINE rec == record[k]
             f == [New EXCEPT !.pc = Disposition(rec), !.key = k,
                     !.seen = IF Unexpired(rec) THEN rec.id ELSE None,
                     !.target = IF Unexpired(rec) THEN rec.target ELSE None]
  <1>1. rec \in Record \cup {None}
    BY DEF TypeOK
  <1>2. /\ Disposition(rec) \in {"sweep", "discard", "fetch"}
        /\ Disposition(rec) = "fetch" => Unexpired(rec) /\ rec.target \in Objects
    BY <1>1 DEF Disposition, Unexpired, Record
  <1>3. /\ (IF Unexpired(rec) THEN rec.id ELSE None) \in Requests \cup {None}
        /\ (IF Unexpired(rec) THEN rec.target ELSE None) \in Objects \cup {None}
    BY <1>1 DEF Unexpired, Record
  <1>4. /\ f.pc = Disposition(rec) /\ f.key = k
        /\ f.target = (IF Unexpired(rec) THEN rec.target ELSE None)
    BY DEF New
  <1>5. f \in Request
    BY <1>2, <1>3 DEF New, Request
  <1>6. WellFormed(f)
    BY <1>2, <1>4, <1>5 DEF WellFormed
  <1>7. Move(r, f) /\ UNCHANGED <<record, object>>
    BY DEF Lookup
  <1> HIDE DEF f
  <1> QED
    BY <1>6, <1>7, MovedType DEF TypeOK

LEMMA StepKeepsType ==
  ASSUME TypeOK, NEW r \in Requests, RequestStep(r) \/ Crash(r)
  PROVE  TypeOK'
  <1>0. request[r] \in Request /\ (request[r].pc # "new" => request[r].key \in Keys)
        /\ (request[r].pc = "commit" => request[r].target \in Objects)
    BY DEF TypeOK
  <1>1. CASE Fetch(r)
    <2> DEFINE q == IF object[request[r].target].state = "live" THEN "answered" ELSE "failed"
               f == [request[r] EXCEPT !.pc = q]
    <2>0. q \in {"answered", "failed"}
      OBVIOUS
    <2>1. Move(r, f) /\ UNCHANGED <<record, object>>
      BY <1>1 DEF Fetch
    <2>2. WellFormed(f)
      <3> HIDE DEF q
      <3> QED
        BY <1>0, <1>1, <2>0 DEF WellFormed, Request, Fetch
    <2> HIDE DEF f
    <2> QED
      BY <2>1, <2>2, MovedType DEF TypeOK
  <1>2. CASE Discard(r)
    BY <1>2, DropType, SkipType DEF Discard
  <1>3. CASE Sweep(r)
    BY <1>3, DropType, SkipType DEF Sweep, Swept
  <1>4. CASE Insert(r)
    <2>1. CASE Skip(r, "lost")
      BY <1>4, <2>1, SkipType DEF Insert
    <2>2. ASSUME NEW x \in Objects, UNCHANGED record,
                 Move(r, [request[r] EXCEPT !.pc = "commit", !.target = x])
          PROVE  TypeOK'
      <3>1. WellFormed([request[r] EXCEPT !.pc = "commit", !.target = x])
        BY <1>0, <1>4 DEF WellFormed, Request, Insert
      <3> QED
        BY <1>4, <2>2, <3>1, MovedType DEF TypeOK, Insert
    <2> QED
      BY <1>4, <2>1, <2>2 DEF Insert
  <1>5. CASE Lost(r)
    <2> DEFINE rec == record[request[r].key]
               t == IF Winner(rec) = "fetch" THEN rec.target ELSE None
               f == [request[r] EXCEPT !.pc = Winner(rec), !.target = t]
    <2>0. rec \in Record \cup {None}
      BY <1>0, <1>5 DEF Lost, TypeOK
    <2>1. /\ Winner(rec) \in {"fetch", "failed"}
          /\ t \in Objects \cup {None}
          /\ Winner(rec) = "fetch" => t \in Objects
      BY <2>0 DEF Winner, Unexpired, Record
    <2>2. Move(r, f) /\ UNCHANGED <<record, object>>
      BY <1>5 DEF Lost
    <2>3. WellFormed(f)
      <3> HIDE DEF t
      <3> QED
        BY <1>0, <1>5, <2>1 DEF WellFormed, Request, Lost
    <2> HIDE DEF f
    <2> QED
      BY <2>2, <2>3, MovedType DEF TypeOK
  <1>6. CASE Commit(r)
    <2>1. WellFormed([request[r] EXCEPT !.pc = "answered", !.drops = None])
      BY <1>0, <1>6 DEF WellFormed, Request, Commit
    <2>2. object' \in [Objects -> Object]
      BY <1>0, <1>6 DEF TypeOK, Commit, Object
    <2>3. record' \in [Keys -> Record \cup {None}]
      BY <1>0, <1>6 DEF TypeOK, Commit, Record
    <2> QED
      BY <1>6, <2>1, <2>2, <2>3, MovedType DEF Commit
  <1>7. CASE Crash(r)
    <2>1. WellFormed([request[r] EXCEPT !.pc = "crashed", !.drops = None])
      BY <1>0, <1>7 DEF WellFormed, Request, Crash, Ended
    <2> QED
      BY <1>7, <2>1, MovedType DEF TypeOK, Crash
  <1> QED
    BY <1>1, <1>2, <1>3, <1>4, <1>5, <1>6, <1>7 DEF RequestStep

LEMMA OthersKeepType ==
  ASSUME TypeOK, (\E x \in Objects : Delete(x)) \/ (\E k \in Keys : Expire(k))
  PROVE  TypeOK'
  <1>1. ASSUME NEW x \in Objects, Delete(x)
        PROVE  TypeOK'
    <2>1. \A rec \in Record \cup {None} : TargetCleared(rec, x) \in Record \cup {None}
      BY DEF TargetCleared, Record
    <2>2. record' \in [Keys -> Record \cup {None}]
      BY <1>1, <2>1 DEF TypeOK, Delete
    <2>3. object' \in [Objects -> Object]
      BY <1>1 DEF TypeOK, Delete, Object
    <2> QED
      BY <1>1, <2>2, <2>3 DEF TypeOK, Delete
  <1>2. ASSUME NEW k \in Keys, Expire(k)
        PROVE  TypeOK'
    <2>a. record[k] \in Record
      BY <1>2 DEF TypeOK, Expire, Unexpired
    <2>b. [record[k] EXCEPT !.fresh = FALSE] \in Record
      BY <2>a DEF Record
    <2>1. record' \in [Keys -> Record \cup {None}]
      BY <1>2, <2>b DEF TypeOK, Expire
    <2>c. \A x \in Objects : [object[x] EXCEPT !.open = FALSE] \in Object
      BY DEF TypeOK, Object
    <2>2. object' \in [Objects -> Object]
      <3>1. \A x \in Objects : object'[x] \in Object
        BY <1>2, <2>c DEF TypeOK, Expire
      <3> QED
        BY <1>2, <3>1 DEF Expire
    <2> QED
      BY <1>2, <2>1, <2>2 DEF TypeOK, Expire
  <1> QED
    BY <1>1, <1>2

LEMMA NextKeepsType == TypeOK /\ [Next]_vars => TypeOK'
  <1> SUFFICES ASSUME TypeOK, [Next]_vars PROVE TypeOK'
    OBVIOUS
  <1>1. CASE UNCHANGED vars
    BY <1>1 DEF vars, TypeOK
  <1>2. CASE Next
    BY <1>2, LookupKeepsType, StepKeepsType, OthersKeepType DEF Next
  <1> QED
    BY <1>1, <1>2

\* Every variable keeps its type, and no request reads or commits an object
\* it does not know.
THEOREM TypeCorrect == Spec => []TypeOK
  BY InitType, NextKeepsType, PTL DEF Spec

-----------------------------------------------------------------------------
(* One live object for a key.  The dedup row of an unexpired live object   *)
(* stands and names it; whoever deletes a row holds it locked until its    *)
(* end, and has seen that the row protects nothing.                        *)

Protects(rec) == rec.target # None /\ rec.fresh

Indexed ==
  \A x \in Objects : object[x].state = "live" /\ object[x].open =>
    /\ record[object[x].key] # None
    /\ record[object[x].key].target = x
    /\ record[object[x].key].fresh

\* An open transaction that inserted a row is alone with its key and its
\* object, and no other row of the key is left.
Reserved ==
  \A r \in Requests : request[r].pc = "commit" =>
    /\ object[request[r].target].state = "unused"
    /\ record[request[r].key] # None => record[request[r].key].id = request[r].drops
    /\ \A s \in Requests : request[s].pc = "commit" /\ s # r =>
         request[s].key # request[r].key /\ request[s].target # request[r].target

\* An open transaction that deleted a row holds its lock.
Held ==
  \A r \in Requests : request[r].drops # None =>
    /\ request[r].pc \in {"sweep", "insert", "commit"}
    /\ request[r].key \notin PlannedKeys
    /\ record[request[r].key] # None
    /\ record[request[r].key].id = request[r].drops
    /\ ~Protects(record[request[r].key])
    /\ \A s \in Requests : request[s].drops # None /\ s # r => request[s].key # request[r].key

\* Ids of rows are those of requests that committed; a row once read without
\* a target has none as long as it stands.
Ids ==
  /\ \A k \in Keys : record[k] # None => request[record[k].id].pc = "answered"
  /\ \A r \in Requests : request[r].seen # None => request[request[r].seen].pc = "answered"
  /\ \A r \in Requests :
       request[r].pc = "discard" /\ record[request[r].key] # None
       /\ record[request[r].key].id = request[r].seen
       => record[request[r].key].target = None

Plain ==
  \A x \in Objects :
    /\ object[x].state = "unused" => object[x].key = None
    /\ object[x].state # "unused" => object[x].key \in Keys

KeyInv == TypeOK /\ Indexed /\ Reserved /\ Held /\ Ids /\ Plain

\* A step of one request alone: it reads, goes on, ends or gives up.
LEMMA PrivateStep ==
  ASSUME KeyInv, NEW r \in Requests, NEW f, WellFormed(f), Move(r, f),
         UNCHANGED <<record, object>>, request[r].pc # "answered", f.pc # "commit",
         f.drops # None => /\ f.drops = request[r].drops /\ f.key = request[r].key
                           /\ f.pc \in {"sweep", "insert"},
         f.seen # None => f.seen = request[r].seen
                          \/ \E k \in Keys : record[k] # None /\ f.seen = record[k].id,
         f.pc = "discard" => record[f.key].target = None
  PROVE  KeyInv'
  <1>1. TypeOK'
    BY MovedType DEF KeyInv, TypeOK
  <1>2. request'[r] = f /\ \A s \in Requests : s # r => request'[s] = request[s]
    BY MoveKeepsType DEF KeyInv
  <1>3. Indexed' /\ Plain'
    BY DEF KeyInv, Indexed, Plain
  <1>4. Reserved'
    BY <1>2 DEF KeyInv, Reserved
  <1>5. Held'
    BY <1>2 DEF KeyInv, Held, Protects
  <1>6. Ids'
    <2>1. \A k \in Keys : record[k] # None => record[k].id \in Requests /\ record[k].id # r
      BY DEF KeyInv, Ids, TypeOK, Record
    <2>2. \A s \in Requests : request[s].seen # None =>
            request[s].seen \in Requests /\ request[s].seen # r
      BY DEF KeyInv, Ids, TypeOK, Request
    <2>3. f.seen # None => f.seen \in Requests /\ request'[f.seen].pc = "answered"
      BY <1>2, <2>1, <2>2 DEF KeyInv, Ids
    <2>4. \A k \in Keys : record[k] # None => request'[record[k].id].pc = "answered"
      BY <1>2, <2>1 DEF KeyInv, Ids
    <2>5. \A s \in Requests : request'[s].seen # None => request'[request'[s].seen].pc = "answered"
      BY <1>2, <2>2, <2>3 DEF KeyInv, Ids
    <2>6. \A s \in Requests :
       request'[s].pc = "discard" /\ record[request'[s].key] # None
       /\ record[request'[s].key].id = request'[s].seen
       => record[request'[s].key].target = None
      BY <1>2 DEF KeyInv, Ids
    <2> QED
      BY <2>4, <2>5, <2>6 DEF Ids
  <1> QED
    BY <1>1, <1>3, <1>4, <1>5, <1>6 DEF KeyInv

LEMMA SkipKeepsKeys ==
  ASSUME KeyInv, NEW r \in Requests, NEW next \in {"sweep", "insert", "lost"},
         request[r].pc \in {"discard", "sweep", "insert"}, Skip(r, next), UNCHANGED object,
         next = "lost" => request[r].drops = None
  PROVE  KeyInv'
  <1> DEFINE f == [request[r] EXCEPT !.pc = next]
  <1>1. request[r] \in Request /\ request[r].key \in Keys
    BY DEF KeyInv, TypeOK
  <1>2. /\ f \in Request /\ f.key = request[r].key /\ f.pc = next
        /\ f.seen = request[r].seen /\ f.drops = request[r].drops
    BY <1>1 DEF Request
  <1>3. WellFormed(f)
    BY <1>1, <1>2 DEF WellFormed
  <1>4. Move(r, f) /\ UNCHANGED <<record, object>>
    BY DEF Skip
  <1> HIDE DEF f
  <1> QED
    BY <1>2, <1>3, <1>4, PrivateStep

\* Deleting a dedup row that protects nothing.
LEMMA DropKeepsKeys ==
  ASSUME KeyInv, NEW r \in Requests, NEW next \in {"sweep", "insert"},
         request[r].pc \in {"discard", "sweep"}, record[request[r].key] # None,
         ~Protects(record[request[r].key]), Drop(r, next), UNCHANGED object
  PROVE  KeyInv'
  <1>0. TypeOK' /\ TypeOK
    BY DropType DEF KeyInv
  <1>1. request[r] \in Request /\ request \in [Requests -> Request]
    BY DEF KeyInv, TypeOK
  <1>2. PICK k \in Keys : request[r].key = k
    BY DEF KeyInv, TypeOK
  <1>3. CASE k \in PlannedKeys
    <2>1. /\ \A j \in Keys : record'[j] = IF j = k THEN None ELSE record[j]
          /\ request' = [request EXCEPT ![r] = [request[r] EXCEPT !.pc = next]]
      BY <1>0, <1>2, <1>3 DEF Drop, Move, TypeOK
    <2>2. /\ \A s \in Requests : /\ request'[s].key = request[s].key
                                 /\ request'[s].seen = request[s].seen
                                 /\ request'[s].drops = request[s].drops
                                 /\ request'[s].target = request[s].target
          /\ \A s \in Requests : s # r => request'[s] = request[s]
          /\ request'[r].pc = next
      BY <1>1, <2>1 DEF Request
    <2>3. Indexed' /\ Plain'
      BY <1>2, <2>1, ConstantsAssumption DEF KeyInv, Indexed, Plain, Protects
    <2>4. Reserved'
      BY <1>0, <2>1, <2>2 DEF KeyInv, Reserved, TypeOK
    <2>5. Held'
      <3> SUFFICES ASSUME NEW s \in Requests, request'[s].drops # None
                   PROVE  /\ request'[s].pc \in {"sweep", "insert", "commit"}
                          /\ request'[s].key \notin PlannedKeys
                          /\ record'[request'[s].key] # None
                          /\ record'[request'[s].key].id = request'[s].drops
                          /\ ~(record'[request'[s].key].target # None /\ record'[request'[s].key].fresh)
                          /\ \A u \in Requests : request'[u].drops # None /\ u # s =>
                               request'[u].key # request'[s].key
        BY DEF Held, Protects
      <3>1. request[s].key \notin PlannedKeys /\ request[s].key \in Keys
            /\ request[s].pc # "new" /\ s # r
        BY <1>0, <1>2, <1>3, <2>2 DEF KeyInv, Held, TypeOK
      <3>2. record'[request[s].key] = record[request[s].key]
        BY <1>3, <2>1, <3>1
      <3> QED
        BY <2>2, <3>1, <3>2 DEF KeyInv, Held, Protects
    <2>6. Ids'
      <3>1. \A j \in Keys : record[j] # None => record[j].id \in Requests /\ record[j].id # r
        BY <1>0 DEF KeyInv, Ids, TypeOK, Record
      <3>2. \A s \in Requests : request[s].seen # None =>
              request[s].seen \in Requests /\ request[s].seen # r
        BY <1>0 DEF KeyInv, Ids, TypeOK, Request
      <3>3. \A j \in Keys : record'[j] # None => request'[record'[j].id].pc = "answered"
        BY <2>1, <2>2, <3>1 DEF KeyInv, Ids
      <3>4. \A s \in Requests : request'[s].seen # None => request'[request'[s].seen].pc = "answered"
        BY <2>2, <3>2 DEF KeyInv, Ids
      <3>5. \A s \in Requests :
             request'[s].pc = "discard" /\ record'[request'[s].key] # None
             /\ record'[request'[s].key].id = request'[s].seen
             => record'[request'[s].key].target = None
        BY <1>0, <2>1, <2>2 DEF KeyInv, Ids, TypeOK
      <3> QED
        BY <3>3, <3>4, <3>5 DEF Ids
    <2> QED
      BY <1>0, <2>3, <2>4, <2>5, <2>6 DEF KeyInv
  <1>4. CASE k \notin PlannedKeys
    <2>1. /\ record' = record
          /\ request' = [request EXCEPT ![r] =
               [request[r] EXCEPT !.pc = next, !.drops = record[k].id]]
          /\ ~DroppedByAnother(k, r)
      BY <1>2, <1>4 DEF Drop, Move
    <2>2. /\ \A s \in Requests : /\ request'[s].key = request[s].key
                                 /\ request'[s].seen = request[s].seen
                                 /\ request'[s].target = request[s].target
          /\ \A s \in Requests : s # r => request'[s] = request[s]
          /\ request'[r].pc = next /\ request'[r].drops = record[k].id
      BY <1>1, <2>1 DEF Request
    <2>3. Indexed' /\ Plain'
      BY <2>1 DEF KeyInv, Indexed, Plain
    <2>4. Reserved'
      BY <2>1, <2>2 DEF KeyInv, Reserved
    <2>5. Held'
      BY <1>2, <1>4, <2>1, <2>2 DEF KeyInv, Held, Protects, DroppedByAnother
    <2>6. Ids'
      <3>1. \A j \in Keys : record[j] # None => record[j].id \in Requests /\ record[j].id # r
        BY <1>0 DEF KeyInv, Ids, TypeOK, Record
      <3>2. \A s \in Requests : request[s].seen # None =>
              request[s].seen \in Requests /\ request[s].seen # r
        BY <1>0 DEF KeyInv, Ids, TypeOK, Request
      <3> QED
        BY <2>1, <2>2, <3>1, <3>2 DEF KeyInv, Ids
    <2> QED
      BY <1>0, <2>3, <2>4, <2>5, <2>6 DEF KeyInv
  <1> QED
    BY <1>3, <1>4

LEMMA LookupKeepsKeys ==
  ASSUME KeyInv, NEW r \in Requests, NEW k \in Keys, Lookup(r, k)
  PROVE  KeyInv'
  <1> DEFINE rec == record[k]
             f == [New EXCEPT !.pc = Disposition(rec), !.key = k,
                     !.seen = IF Unexpired(rec) THEN rec.id ELSE None,
                     !.target = IF Unexpired(rec) THEN rec.target ELSE None]
  <1>1. rec \in Record \cup {None}
    BY DEF KeyInv, TypeOK
  <1>2. /\ Disposition(rec) \in {"sweep", "discard", "fetch"}
        /\ Disposition(rec) = "fetch" => Unexpired(rec) /\ rec.target \in Objects
        /\ Disposition(rec) = "discard" => rec.target = None
    BY <1>1 DEF Disposition, Unexpired, Record
  <1>3. /\ (IF Unexpired(rec) THEN rec.id ELSE None) \in Requests \cup {None}
        /\ (IF Unexpired(rec) THEN rec.target ELSE None) \in Objects \cup {None}
    BY <1>1 DEF Unexpired, Record
  <1>4. /\ f.pc = Disposition(rec) /\ f.key = k /\ f.drops = None
        /\ f.target = (IF Unexpired(rec) THEN rec.target ELSE None)
        /\ f.seen = (IF Unexpired(rec) THEN rec.id ELSE None)
    BY DEF New
  <1>5. f \in Request
    BY <1>2, <1>3 DEF New, Request
  <1>6. WellFormed(f)
    BY <1>2, <1>4, <1>5 DEF WellFormed
  <1>7. Move(r, f) /\ UNCHANGED <<record, object>> /\ request[r].pc = "new"
    BY DEF Lookup
  <1>8. f.seen # None => \E j \in Keys : record[j] # None /\ f.seen = record[j].id
    BY <1>4 DEF Unexpired
  <1> HIDE DEF f
  <1> QED
    BY <1>2, <1>4, <1>6, <1>7, <1>8, PrivateStep

\* Inserting: the key's row, if any, is one this request has deleted.
LEMMA InsertKeepsKeys ==
  ASSUME KeyInv, NEW r \in Requests, Insert(r)
  PROVE  KeyInv'
  <1>0. TypeOK' /\ TypeOK /\ request[r].pc = "insert"
    BY StepKeepsType DEF KeyInv, RequestStep, Insert
  <1>1. request[r] \in Request /\ request[r].key \in Keys
    BY <1>0 DEF TypeOK
  <1>2. CASE record[request[r].key] # None /\ record[request[r].key].id # request[r].drops
    <2>1. request[r].drops = None
      BY <1>2 DEF KeyInv, Held
    <2>2. Skip(r, "lost") /\ UNCHANGED object
      BY <1>2 DEF Insert
    <2> QED
      BY <1>0, <2>1, <2>2, SkipKeepsKeys
  <1>3. CASE ~(record[request[r].key] # None /\ record[request[r].key].id # request[r].drops)
    <2>1. PICK x \in Objects :
            /\ object[x].state = "unused"
            /\ \A s \in Requests : request[s].pc = "commit" => request[s].target # x
            /\ request' = [request EXCEPT ![r] = [request[r] EXCEPT !.pc = "commit", !.target = x]]
      BY <1>3 DEF Insert, Move
    <2>2. UNCHANGED <<record, object>> /\ ~InsertedByAnother(request[r].key, r)
      BY <1>3 DEF Insert
    <2>3. /\ \A s \in Requests : /\ request'[s].key = request[s].key
                                 /\ request'[s].seen = request[s].seen
                                 /\ request'[s].drops = request[s].drops
          /\ \A s \in Requests : s # r => request'[s] = request[s]
          /\ request'[r].pc = "commit" /\ request'[r].target = x
      BY <1>0, <1>1, <2>1 DEF TypeOK, Request
    <2>4. Indexed' /\ Plain'
      BY <2>2 DEF KeyInv, Indexed, Plain
    <2>5. Reserved'
      BY <1>3, <2>1, <2>2, <2>3 DEF KeyInv, Reserved, InsertedByAnother
    <2>6. Held'
      BY <2>2, <2>3 DEF KeyInv, Held, Protects
    <2>7. Ids'
      <3>1. \A j \in Keys : record[j] # None => record[j].id \in Requests /\ record[j].id # r
        BY <1>0 DEF KeyInv, Ids, TypeOK, Record
      <3>2. \A s \in Requests : request[s].seen # None =>
              request[s].seen \in Requests /\ request[s].seen # r
        BY <1>0 DEF KeyInv, Ids, TypeOK, Request
      <3> QED
        BY <2>2, <2>3, <3>1, <3>2 DEF KeyInv, Ids
    <2> QED
      BY <1>0, <2>4, <2>5, <2>6, <2>7 DEF KeyInv
  <1> QED
    BY <1>2, <1>3

\* Committing: no unexpired object of the key is left alive, so the new one is
\* alone.
LEMMA CommitKeepsKeys ==
  ASSUME KeyInv, NEW r \in Requests, Commit(r)
  PROVE  KeyInv'
  <1>0. TypeOK' /\ TypeOK /\ request[r].pc = "commit"
    BY StepKeepsType DEF KeyInv, RequestStep, Commit
  <1>1. PICK k \in Keys, x \in Objects : request[r].key = k /\ request[r].target = x
    BY <1>0 DEF TypeOK
  <1>2. /\ \A y \in Objects : object'[y] =
             IF y = x THEN [state |-> "live", key |-> k, open |-> TRUE] ELSE object[y]
        /\ \A j \in Keys : record'[j] =
             IF j = k THEN [id |-> r, target |-> x, fresh |-> TRUE] ELSE record[j]
        /\ request' = [request EXCEPT ![r] = [request[r] EXCEPT !.pc = "answered", !.drops = None]]
    BY <1>0, <1>1 DEF Commit, Move, TypeOK
  <1>3. /\ \A s \in Requests : s # r => request'[s] = request[s]
        /\ request'[r].pc = "answered" /\ request'[r].drops = None
        /\ request'[r].seen = request[r].seen
    BY <1>0, <1>2 DEF TypeOK, Request
  <1>4. record[k] # None => record[k].id = request[r].drops /\ request[r].drops # None
                            /\ ~Protects(record[k])
    BY <1>0, <1>1, ConstantsAssumption DEF KeyInv, Reserved, Held, TypeOK, Record
  <1>5. \A s \in Requests : s # r /\ request[s].drops # None => request[s].key # k
    BY <1>1, <1>4 DEF KeyInv, Held
  <1>6. \A s \in Requests : s # r /\ request[s].pc = "commit" =>
          request[s].key # k /\ request[s].target # x
    BY <1>0, <1>1 DEF KeyInv, Reserved
  <1>7. Indexed'
    <2> SUFFICES ASSUME NEW y \in Objects, object'[y].state = "live", object'[y].open
                 PROVE  /\ record'[object'[y].key] # None
                        /\ record'[object'[y].key].target = y
                        /\ record'[object'[y].key].fresh
      BY DEF Indexed
    <2>1. CASE y = x
      <3>1. [id |-> r, target |-> x, fresh |-> TRUE] \in Record
        BY DEF Record
      <3> QED
        BY <1>2, <2>1, <3>1, NullAssumption
    <2>2. CASE y # x
      <3>1. object'[y] = object[y] /\ object[y].key \in Keys
        BY <1>2, <2>2 DEF KeyInv, Plain
      <3>2. /\ record[object[y].key] # None /\ record[object[y].key].target = y
            /\ record[object[y].key].fresh
        BY <3>1 DEF KeyInv, Indexed
      <3>3. object[y].key # k
        BY <1>4, <3>2, ConstantsAssumption DEF Protects
      <3> QED
        BY <1>2, <3>1, <3>2, <3>3
    <2> QED
      BY <2>1, <2>2
  <1>8. Plain'
    BY <1>2 DEF KeyInv, Plain
  <1>9. Reserved'
    <2> SUFFICES ASSUME NEW s \in Requests, request'[s].pc = "commit"
                 PROVE  /\ object'[request'[s].target].state = "unused"
                        /\ record'[request'[s].key] # None =>
                             record'[request'[s].key].id = request'[s].drops
                        /\ \A u \in Requests : request'[u].pc = "commit" /\ u # s =>
                             request'[u].key # request'[s].key
                             /\ request'[u].target # request'[s].target
      BY DEF Reserved
    <2>1. s # r /\ request'[s] = request[s] /\ request[s].pc = "commit"
      BY <1>3
    <2>2. request[s].key \in Keys \ {k} /\ request[s].target \in Objects \ {x}
      BY <1>0, <1>6, <2>1 DEF TypeOK
    <2> QED
      BY <1>2, <1>3, <2>1, <2>2 DEF KeyInv, Reserved
  <1>10. Held'
    <2> SUFFICES ASSUME NEW s \in Requests, request'[s].drops # None
                 PROVE  /\ request'[s].pc \in {"sweep", "insert", "commit"}
                        /\ request'[s].key \notin PlannedKeys
                        /\ record'[request'[s].key] # None
                        /\ record'[request'[s].key].id = request'[s].drops
                        /\ ~(record'[request'[s].key].target # None
                             /\ record'[request'[s].key].fresh)
                        /\ \A u \in Requests : request'[u].drops # None /\ u # s =>
                             request'[u].key # request'[s].key
      BY DEF Held, Protects
    <2>1. s # r /\ request'[s] = request[s]
      BY <1>3
    <2>2. request[s].key \in Keys \ {k}
      BY <1>0, <1>5, <2>1 DEF KeyInv, Held, TypeOK
    <2>3. record'[request[s].key] = record[request[s].key]
      BY <1>2, <2>2
    <2> QED
      BY <1>3, <2>1, <2>3 DEF KeyInv, Held, Protects
  <1>11. Ids'
    <2>1. \A j \in Keys : record[j] # None => record[j].id \in Requests /\ record[j].id # r
      BY <1>0 DEF KeyInv, Ids, TypeOK, Record
    <2>2. \A s \in Requests : request[s].seen # None =>
            request[s].seen \in Requests /\ request[s].seen # r
      BY <1>0 DEF KeyInv, Ids, TypeOK, Request
    <2>3. \A j \in Keys : record'[j] # None => request'[record'[j].id].pc = "answered"
      BY <1>2, <1>3, <2>1 DEF KeyInv, Ids
    <2>4. \A s \in Requests : request'[s].seen # None => request'[request'[s].seen].pc = "answered"
      BY <1>3, <2>2 DEF KeyInv, Ids
    <2>5. \A s \in Requests :
           request'[s].pc = "discard" /\ record'[request'[s].key] # None
           /\ record'[request'[s].key].id = request'[s].seen
           => record'[request'[s].key].target = None
      <3> SUFFICES ASSUME NEW s \in Requests, request'[s].pc = "discard",
                          record'[request'[s].key] # None,
                          record'[request'[s].key].id = request'[s].seen
                   PROVE  record'[request'[s].key].target = None
        OBVIOUS
      <3>1. s # r /\ request'[s] = request[s] /\ request[s].key \in Keys
        BY <1>0, <1>3 DEF TypeOK
      <3>2. request[s].key # k
        BY <1>2, <2>2, <3>1, ConstantsAssumption
      <3> QED
        BY <1>2, <3>1, <3>2 DEF KeyInv, Ids
    <2> QED
      BY <2>3, <2>4, <2>5 DEF Ids
  <1> QED
    BY <1>0, <1>7, <1>8, <1>9, <1>10, <1>11 DEF KeyInv

LEMMA StepKeepsKeys ==
  ASSUME KeyInv, NEW r \in Requests, RequestStep(r) \/ Crash(r)
  PROVE  KeyInv'
  <1>0. TypeOK /\ request[r] \in Request /\ (request[r].pc # "new" => request[r].key \in Keys)
    BY DEF KeyInv, TypeOK
  <1>1. CASE Fetch(r)
    <2> DEFINE q == IF object[request[r].target].state = "live" THEN "answered" ELSE "failed"
               f == [request[r] EXCEPT !.pc = q]
    <2>0. q \in {"answered", "failed"}
      OBVIOUS
    <2>1. Move(r, f) /\ UNCHANGED <<record, object>> /\ request[r].pc = "fetch"
      BY <1>1 DEF Fetch
    <2>2. /\ f \in Request /\ f.pc = q /\ f.key = request[r].key
          /\ f.drops = request[r].drops /\ f.seen = request[r].seen
      <3> HIDE DEF q
      <3> QED
        BY <1>0, <2>0 DEF Request
    <2>3. WellFormed(f)
      BY <1>0, <2>0, <2>1, <2>2 DEF WellFormed
    <2>4. request[r].drops = None
      BY <2>1 DEF KeyInv, Held
    <2> HIDE DEF f
    <2> QED
      BY <2>0, <2>1, <2>2, <2>3, <2>4, PrivateStep
  <1>2. CASE Discard(r)
    <2>1. request[r].pc = "discard" /\ UNCHANGED object
      BY <1>2 DEF Discard
    <2>2. CASE Skip(r, "sweep")
      BY <2>1, <2>2, SkipKeepsKeys
    <2>3. CASE /\ record[request[r].key] # None /\ Drop(r, "sweep")
               /\ record[request[r].key].id = request[r].seen
      BY <2>1, <2>3, DropKeepsKeys DEF KeyInv, Ids, Protects
    <2> QED
      BY <1>2, <2>2, <2>3 DEF Discard
  <1>3. CASE Sweep(r)
    <2>1. request[r].pc = "sweep" /\ UNCHANGED object
      BY <1>3 DEF Sweep
    <2>2. CASE Skip(r, "insert")
      BY <2>1, <2>2, SkipKeepsKeys
    <2>3. CASE Swept(record[request[r].key]) /\ Drop(r, "insert")
      BY <2>1, <2>3, DropKeepsKeys DEF Swept, Protects
    <2> QED
      BY <1>3, <2>2, <2>3 DEF Sweep
  <1>4. CASE Insert(r)
    BY <1>4, InsertKeepsKeys
  <1>5. CASE Lost(r)
    <2> DEFINE rec == record[request[r].key]
               t == IF Winner(rec) = "fetch" THEN rec.target ELSE None
               f == [request[r] EXCEPT !.pc = Winner(rec), !.target = t]
    <2>0. rec \in Record \cup {None} /\ request[r].pc = "lost"
      BY <1>0, <1>5 DEF Lost, TypeOK
    <2>1. /\ Winner(rec) \in {"fetch", "failed"}
          /\ t \in Objects \cup {None}
          /\ Winner(rec) = "fetch" => t \in Objects
      BY <2>0 DEF Winner, Unexpired, Record
    <2>2. Move(r, f) /\ UNCHANGED <<record, object>>
      BY <1>5 DEF Lost
    <2>3. /\ f \in Request /\ f.pc = Winner(rec) /\ f.key = request[r].key /\ f.target = t
          /\ f.drops = request[r].drops /\ f.seen = request[r].seen
      <3> HIDE DEF t
      <3> QED
        BY <1>0, <2>1 DEF Request
    <2>4. WellFormed(f)
      BY <1>0, <2>0, <2>1, <2>3 DEF WellFormed
    <2>5. request[r].drops = None
      BY <2>0 DEF KeyInv, Held
    <2> HIDE DEF f
    <2> QED
      BY <2>0, <2>1, <2>2, <2>3, <2>4, <2>5, PrivateStep
  <1>6. CASE Commit(r)
    BY <1>6, CommitKeepsKeys
  <1>7. CASE Crash(r)
    <2> DEFINE f == [request[r] EXCEPT !.pc = "crashed", !.drops = None]
    <2>1. /\ f \in Request /\ f.pc = "crashed" /\ f.drops = None
          /\ f.seen = request[r].seen /\ f.key = request[r].key
      BY <1>0 DEF Request
    <2>2. Move(r, f) /\ UNCHANGED <<record, object>> /\ request[r].pc \notin Ended
      BY <1>7 DEF Crash
    <2>3. WellFormed(f)
      BY <1>0, <2>1, <2>2 DEF WellFormed, Ended
    <2> HIDE DEF f
    <2> QED
      BY <2>1, <2>2, <2>3, PrivateStep DEF Ended
  <1> QED
    BY <1>1, <1>2, <1>3, <1>4, <1>5, <1>6, <1>7 DEF RequestStep

LEMMA OthersKeepKeys ==
  ASSUME KeyInv, (\E x \in Objects : Delete(x)) \/ (\E k \in Keys : Expire(k))
  PROVE  KeyInv'
  <1>0. TypeOK' /\ TypeOK /\ UNCHANGED request
    BY OthersKeepType DEF KeyInv, Delete, Expire
  <1>1. \A s \in Requests : request[s].pc # "new" => request[s].key \in Keys
    BY <1>0 DEF TypeOK
  <1>2. ASSUME \A k \in Keys : record[k] # None =>
                 /\ record'[k] # None /\ record'[k].id = record[k].id
                 /\ record[k].target = None => record'[k].target = None
                 /\ ~Protects(record[k]) => ~(record'[k].target # None /\ record'[k].fresh),
               \A k \in Keys : record[k] = None => record'[k] = None,
               \A x \in Objects : /\ object'[x].key = object[x].key
                                  /\ object'[x].state = "unused" <=> object[x].state = "unused",
               Indexed'
        PROVE  KeyInv'
    <2>1. Reserved'
      BY <1>0, <1>1, <1>2 DEF KeyInv, Reserved, TypeOK
    <2>2. Held'
      <3> SUFFICES ASSUME NEW s \in Requests, request[s].drops # None
                   PROVE  /\ request[s].pc \in {"sweep", "insert", "commit"}
                          /\ request[s].key \notin PlannedKeys
                          /\ record'[request[s].key] # None
                          /\ record'[request[s].key].id = request[s].drops
                          /\ ~(record'[request[s].key].target # None
                               /\ record'[request[s].key].fresh)
                          /\ \A u \in Requests : request[u].drops # None /\ u # s =>
                               request[u].key # request[s].key
        BY <1>0 DEF Held, Protects
      <3>1. request[s].key \in Keys
        BY <1>1 DEF KeyInv, Held
      <3> QED
        BY <1>2, <3>1 DEF KeyInv, Held
    <2>3. Ids'
      BY <1>0, <1>1, <1>2 DEF KeyInv, Ids
    <2>4. Plain'
      BY <1>0, <1>2 DEF KeyInv, Plain
    <2> QED
      BY <1>0, <1>2, <2>1, <2>2, <2>3, <2>4 DEF KeyInv
  <1>3. ASSUME NEW x \in Objects, Delete(x)
        PROVE  KeyInv'
    <2>1. object[x].key \in Keys
      BY <1>3 DEF KeyInv, Plain, Delete
    <2>2. PICK k \in Keys : object[x].key = k
      BY <2>1
    <2>3. /\ \A j \in Keys : j # k => record'[j] = record[j]
          /\ record'[k] = TargetCleared(record[k], x)
      BY <1>0, <1>3, <2>2 DEF Delete, TypeOK
    <2>4. /\ record[k] = None => record'[k] = None
          /\ record[k] # None => /\ record'[k] # None /\ record'[k].id = record[k].id
                                 /\ record'[k].fresh = record[k].fresh
                                 /\ record[k].target # x => record'[k].target = record[k].target
                                 /\ record[k].target = x => record'[k].target = None
      <3>1. record[k] # None => record[k] \in Record
        BY <1>0 DEF TypeOK
      <3>2. CASE record[k] # None /\ record[k].target = x
        <4>1. record'[k] = [record[k] EXCEPT !.target = None]
          BY <2>3, <3>2 DEF TargetCleared
        <4>2. record'[k] \in Record
          BY <3>1, <3>2, <4>1 DEF Record
        <4> QED
          BY <3>1, <3>2, <4>1, <4>2, NullAssumption DEF Record
      <3>3. CASE ~(record[k] # None /\ record[k].target = x)
        BY <2>3, <3>3 DEF TargetCleared
      <3> QED
        BY <3>2, <3>3
    <2>5. /\ \A y \in Objects : y # x => object'[y] = object[y]
          /\ object'[x].state = "deleted" /\ object'[x].key = object[x].key
      BY <1>0, <1>3 DEF Delete, TypeOK, Object
    <2>6. object[x].state = "live"
      BY <1>3 DEF Delete
    <2>7. Indexed'
      <3> SUFFICES ASSUME NEW y \in Objects, object'[y].state = "live", object'[y].open
                   PROVE  /\ record'[object'[y].key] # None
                          /\ record'[object'[y].key].target = y
                          /\ record'[object'[y].key].fresh
        BY DEF Indexed
      <3>1. y # x /\ object'[y] = object[y] /\ object[y].key \in Keys
        BY <2>5 DEF KeyInv, Plain
      <3> QED
        BY <2>3, <2>4, <3>1 DEF KeyInv, Indexed
    <2>8. \A j \in Keys : record[j] # None =>
                 /\ record'[j] # None /\ record'[j].id = record[j].id
                 /\ record[j].target = None => record'[j].target = None
                 /\ ~Protects(record[j]) => ~(record'[j].target # None /\ record'[j].fresh)
      BY <2>3, <2>4 DEF Protects
    <2>9. /\ \A j \in Keys : record[j] = None => record'[j] = None
          /\ \A y \in Objects : /\ object'[y].key = object[y].key
                                /\ object'[y].state = "unused" <=> object[y].state = "unused"
      BY <2>3, <2>4, <2>5, <2>6
    <2> QED
      BY <1>2, <2>7, <2>8, <2>9
  <1>4. ASSUME NEW k \in Keys, Expire(k)
        PROVE  KeyInv'
    <2>1. record[k] \in Record
      BY <1>0, <1>4 DEF TypeOK, Expire, Unexpired
    <2>2. record'[k] = [record[k] EXCEPT !.fresh = FALSE] /\ \A j \in Keys : j # k => record'[j] = record[j]
      BY <1>0, <1>4 DEF Expire, TypeOK
    <2>3. /\ record'[k] \in Record /\ record'[k].id = record[k].id
          /\ record'[k].target = record[k].target /\ record'[k].fresh = FALSE
      BY <2>1, <2>2 DEF Record
    <2>4. \A y \in Objects : /\ object'[y].key = object[y].key
                             /\ object'[y].state = object[y].state
                             /\ object'[y].open => object[y].open /\ object[y].key # k
      <3> SUFFICES ASSUME NEW y \in Objects
                   PROVE  /\ object'[y].key = object[y].key
                          /\ object'[y].state = object[y].state
                          /\ object'[y].open => object[y].open /\ object[y].key # k
        OBVIOUS
      <3>1. object[y] \in Object
        BY <1>0 DEF TypeOK
      <3>2. object'[y] = IF object[y].key = k THEN [object[y] EXCEPT !.open = FALSE] ELSE object[y]
        BY <1>4 DEF Expire
      <3>3. CASE object[y].key = k
        <4>1. object'[y] = [object[y] EXCEPT !.open = FALSE]
          BY <3>2, <3>3
        <4> QED
          BY <3>1, <3>3, <4>1 DEF Object
      <3>4. CASE object[y].key # k
        BY <3>1, <3>2, <3>4 DEF Object
      <3> QED
        BY <3>3, <3>4
    <2>5. Indexed'
      <3> SUFFICES ASSUME NEW y \in Objects, object'[y].state = "live", object'[y].open
                   PROVE  /\ record'[object'[y].key] # None
                          /\ record'[object'[y].key].target = y
                          /\ record'[object'[y].key].fresh
        BY DEF Indexed
      <3>1. object'[y].key = object[y].key /\ object[y].key \in Keys \ {k}
            /\ object[y].state = "live" /\ object[y].open
        BY <2>4 DEF KeyInv, Plain
      <3>2. record'[object[y].key] = record[object[y].key]
        BY <2>2, <3>1
      <3> QED
        BY <3>1, <3>2 DEF KeyInv, Indexed
    <2>6. \A j \in Keys : record[j] # None =>
                 /\ record'[j] # None /\ record'[j].id = record[j].id
                 /\ record[j].target = None => record'[j].target = None
                 /\ ~Protects(record[j]) => ~(record'[j].target # None /\ record'[j].fresh)
      BY <2>2, <2>3, NullAssumption DEF Protects
    <2>7. \A j \in Keys : record[j] = None => record'[j] = None
      BY <1>4, <2>2 DEF Expire, Unexpired
    <2> QED
      BY <1>2, <2>4, <2>5, <2>6, <2>7
  <1> QED
    BY <1>3, <1>4

\* At most one live object per key within its 24 hours, for any number of
\* concurrent requests, retries, crashes and deletions, at both endpoints.
THEOREM OneObjectPerKey == Spec => []OneLiveObject
  <1>1. Init => KeyInv
    <2> SUFFICES ASSUME Init PROVE KeyInv
      OBVIOUS
    <2>1. /\ \A r \in Requests : /\ request[r].pc = "new" /\ request[r].drops = None
                                 /\ request[r].seen = None
          /\ \A x \in Objects : object[x].state = "unused" /\ object[x].key = None
          /\ \A k \in Keys : record[k] = None
      BY DEF Init, New, Unused
    <2> QED
      BY <2>1, InitType DEF KeyInv, Indexed, Reserved, Held, Ids, Plain
  <1>2. KeyInv /\ [Next]_vars => KeyInv'
    <2> SUFFICES ASSUME KeyInv, [Next]_vars PROVE KeyInv'
      OBVIOUS
    <2>1. CASE UNCHANGED vars
      BY <2>1 DEF vars, KeyInv, TypeOK, Indexed, Reserved, Held, Ids, Plain, Protects
    <2>2. CASE Next
      BY <2>2, LookupKeepsKeys, StepKeepsKeys, OthersKeepKeys DEF Next
    <2> QED
      BY <2>1, <2>2
  <1>3. KeyInv => OneLiveObject
    BY DEF KeyInv, Indexed, OneLiveObject
  <1> QED
    BY <1>1, <1>2, <1>3, PTL DEF Spec
=============================================================================
