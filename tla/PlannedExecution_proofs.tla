----------------------- MODULE PlannedExecution_proofs -----------------------
(***************************************************************************)
(* Theorems of PlannedExecution, for every number of plans, requests,      *)
(* workers and transactions: what links point to, then that a plan is      *)
(* booked once, then that a booking agrees with its plan.                  *)
(***************************************************************************)
EXTENDS PlannedExecution, TLAPS

\* The history variables appear in UNCHANGED by this name.
USE DEF history

\* A request that has started knows its plan, and one about to save has a row;
\* so does a task that has a message.
Shape ==
  /\ \A c \in Clients : client[c].pc # "idle" => client[c].plan \in Plans
  /\ \A c \in Clients : client[c].pc = "save" => client[c].row \in Row
  /\ \A w \in Workers : worker[w].pc # "free" => worker[w].plan \in Plans

TypeInv == TypeOK /\ Shape

LEMMA IdleIsClient == Idle \in Client
  BY DEF Idle, Client

LEMMA FreeIsWorker == Free \in Worker
  BY ConstantsAssumption DEF Free, Worker

LEMMA UnusedIsBooking == Unused \in Booking
  BY DEF Unused, Booking

\* The rows the handlers compute are rows.
LEMMA EditedIsRow ==
  ASSUME NEW r \in Row, NEW a \in Amounts, NEW d \in Dates, NEW s \in Status
  PROVE  Edited(r, a, d, s) \in Row /\ Edited(r, a, d, s).txn = r.txn
  BY DEF Edited, Row

LEMMA ExecutedIsRow ==
  ASSUME NEW r \in Row, NEW d \in Dates \cup {None}, NEW a \in Amounts \cup {None}
  PROVE  Executed(r, d, a) \in Row /\ Executed(r, d, a).txn = r.txn
  BY DEF Executed, Row, Status

LEMMA PrepareKeepsType ==
  ASSUME TypeInv, NEW c \in Clients, NEW step \in {"save", "dispatch", "remove"},
         NEW p \in Plans, NEW r \in Row \cup {None}, NEW b \in BOOLEAN,
         step = "save" => r \in Row,
         Prepare(c, step, p, r, b)
  PROVE  /\ client' \in [Clients -> Client]
         /\ \A e \in Clients : client'[e].pc # "idle" => client'[e].plan \in Plans
         /\ \A e \in Clients : client'[e].pc = "save" => client'[e].row \in Row
  <1> DEFINE new == [pc |-> step, plan |-> p, row |-> r, sends |-> b]
  <1>1. new \in Client
    BY DEF Client
  <1>2. client' = [client EXCEPT ![c] = new]
    BY DEF Prepare
  <1>3. client \in [Clients -> Client]
    BY DEF TypeInv, TypeOK
  <1>4. new.pc = step /\ new.plan = p /\ new.row = r
    OBVIOUS
  <1> HIDE DEF new
  <1>5. client' \in [Clients -> Client]
    BY <1>1, <1>2, <1>3
  <1>6. \A e \in Clients : client'[e] = IF e = c THEN new ELSE client[e]
    BY <1>2, <1>3
  <1> QED
    BY <1>4, <1>5, <1>6 DEF TypeInv, Shape

\* A request that ends, or moves on to send its message, keeps the types.
LEMMA FinishKeepsType ==
  ASSUME TypeInv, NEW c \in Clients, client[c].pc # "idle",
         Finish(c) \/ client' = [client EXCEPT ![c] = Idle]
  PROVE  /\ client' \in [Clients -> Client]
         /\ \A e \in Clients : client'[e].pc # "idle" => client'[e].plan \in Plans
         /\ \A e \in Clients : client'[e].pc = "save" => client'[e].row \in Row
  <1>1. client \in [Clients -> Client] /\ client[c] \in Client /\ client[c].plan \in Plans
    BY DEF TypeInv, TypeOK, Shape
  <1> DEFINE next == [client[c] EXCEPT !.pc = "dispatch", !.row = None]
  <1>2. next \in Client /\ next.pc = "dispatch" /\ next.plan \in Plans
    BY <1>1 DEF Client
  <1>a. Idle.pc = "idle"
    BY DEF Idle
  <1>b. client' = [client EXCEPT ![c] = next] \/ client' = [client EXCEPT ![c] = Idle]
    BY DEF Finish
  <1> HIDE DEF next
  <1>3. PICK new : new \in {Idle, next} /\ client' = [client EXCEPT ![c] = new]
    BY <1>b
  <1>4. /\ new \in Client
        /\ new.pc # "idle" => new.plan \in Plans
        /\ new.pc # "save"
    BY <1>2, <1>3, <1>a, IdleIsClient
  <1>5. \A e \in Clients : client'[e] = IF e = c THEN new ELSE client[e]
    BY <1>1, <1>3
  <1>6. client' \in [Clients -> Client]
    BY <1>1, <1>3, <1>4
  <1> QED
    BY <1>4, <1>5, <1>6 DEF TypeInv, Shape

LEMMA ReleaseKeepsType ==
  ASSUME TypeInv, NEW w \in Workers, Release(w)
  PROVE  /\ worker' \in [Workers -> Worker]
         /\ \A v \in Workers : worker'[v].pc # "free" => worker'[v].plan \in Plans
  <1>1. worker \in [Workers -> Worker]
    BY DEF TypeInv, TypeOK
  <1>2. worker' = [worker EXCEPT ![w] = Free]
    BY DEF Release
  <1>3. worker' \in [Workers -> Worker]
    BY <1>1, <1>2, FreeIsWorker
  <1>4. \A v \in Workers : worker'[v] = IF v = w THEN Free ELSE worker[v]
    BY <1>1, <1>2
  <1> QED
    BY <1>3, <1>4 DEF TypeInv, Shape, Free

LEMMA InitType == Init => TypeInv
  <1> SUFFICES ASSUME Init PROVE TypeInv
    OBVIOUS
  <1>1. TypeOK
    BY UnusedIsBooking, IdleIsClient, FreeIsWorker DEF Init, TypeOK
  <1>2. Idle.pc = "idle" /\ Free.pc = "free"
    BY DEF Idle, Free
  <1>3. /\ \A c \in Clients : client[c].pc = "idle"
        /\ \A w \in Workers : worker[w].pc = "free"
    BY <1>2 DEF Init
  <1>4. Shape
    BY <1>3 DEF Shape
  <1> QED
    BY <1>1, <1>4 DEF TypeInv

LEMMA RequestKeepsType ==
  ASSUME TypeInv, NEW c \in Clients, NEW p \in Plans,
         Create(c, p) \/ BeginExecute(c, p) \/ BeginUpdate(c, p) \/ BeginDelete(c, p)
  PROVE  TypeInv'
  <1>1. row[p] \in Row \cup {None}
    BY DEF TypeInv, TypeOK
  <1>2. CASE Create(c, p)
    <2>1. PICK a \in Amounts, d \in Dates, s \in Status :
            /\ row' = [row EXCEPT ![p] = NewRow(a, d, s)]
            /\ Prepare(c, "dispatch", p, None, TRUE) \/ UNCHANGED client
      BY <1>2 DEF Create
    <2>2. NewRow(a, d, s) \in Row
      BY DEF NewRow, Row
    <2>3. row' \in [Plans -> Row \cup {None}]
      BY <2>1, <2>2 DEF TypeInv, TypeOK
    <2>4. CASE Prepare(c, "dispatch", p, None, TRUE)
      BY <1>2, <2>3, <2>4, PrepareKeepsType DEF Create, TypeInv, TypeOK, Shape
    <2>5. CASE UNCHANGED client
      BY <1>2, <2>3, <2>5 DEF Create, TypeInv, TypeOK, Shape
    <2> QED
      BY <2>1, <2>4, <2>5
  <1>3. CASE BeginExecute(c, p)
    <2>1. row[p] \in Row
      BY <1>1, <1>3 DEF BeginExecute, Exists
    <2>2. PICK d \in Dates \cup {None}, a \in Amounts \cup {None} :
            Prepare(c, "save", p, Executed(row[p], d, a), TRUE)
      BY <1>3 DEF BeginExecute
    <2> QED
      BY <1>3, <2>1, <2>2, ExecutedIsRow, PrepareKeepsType
         DEF BeginExecute, TypeInv, TypeOK, Shape
  <1>4. CASE BeginUpdate(c, p)
    <2>1. row[p] \in Row
      BY <1>1, <1>4 DEF BeginUpdate, Exists
    <2>2. PICK a \in Amounts, d \in Dates, s \in Status :
            Prepare(c, "save", p, Edited(row[p], a, d, s), Executes(row[p], s))
      BY <1>4 DEF BeginUpdate
    <2>3. Executes(row[p], s) \in BOOLEAN
      BY DEF Executes
    <2>4. Edited(row[p], a, d, s) \in Row
      BY <2>1, EditedIsRow
    <2>5. /\ client' \in [Clients -> Client]
          /\ \A e \in Clients : client'[e].pc # "idle" => client'[e].plan \in Plans
          /\ \A e \in Clients : client'[e].pc = "save" => client'[e].row \in Row
      <3> HIDE DEF TypeInv
      <3> QED
        BY <2>2, <2>3, <2>4, PrepareKeepsType
    <2> QED
      BY <1>4, <2>5 DEF BeginUpdate, TypeInv, TypeOK, Shape
  <1>5. CASE BeginDelete(c, p)
    BY <1>5, PrepareKeepsType DEF BeginDelete, TypeInv, TypeOK, Shape
  <1> QED
    BY <1>2, <1>3, <1>4, <1>5

LEMMA RequestStepKeepsType ==
  ASSUME TypeInv, NEW c \in Clients, RequestStep(c) \/ ClientCrash(c)
  PROVE  TypeInv'
  <1>1. CASE Save(c)
    <2> DEFINE p == client[c].plan
               r == client[c].row
    <2>1. p \in Plans /\ r \in Row
      BY <1>1 DEF Save, TypeInv, Shape
    <2>2. row' \in [Plans -> Row \cup {None}]
      BY <1>1, <2>1 DEF Save, TypeInv, TypeOK
    <2>3. MirrorAmount(r) \in Amounts
      BY <2>1 DEF MirrorAmount, EffectiveAmount, Row
    <2>4. ledger' \in [Txns -> Booking]
      <3>1. CASE ~client[c].sends /\ r.txn # None
        <4>1. r.txn \in Txns
          BY <2>1, <3>1 DEF Row
        <4>2. [ledger[r.txn] EXCEPT !.amount = MirrorAmount(r)] \in Booking
          BY <2>3, <4>1 DEF TypeInv, TypeOK, Booking
        <4>3. ledger' = [ledger EXCEPT ![r.txn] =
                           [ledger[r.txn] EXCEPT !.amount = MirrorAmount(r)]]
          BY <1>1, <3>1 DEF Save
        <4> QED
          BY <4>2, <4>3 DEF TypeInv, TypeOK
      <3>2. CASE ~(~client[c].sends /\ r.txn # None)
        BY <1>1, <3>2 DEF Save, TypeInv, TypeOK
      <3> QED
        BY <3>1, <3>2
    <2> QED
      BY <1>1, <2>2, <2>4, FinishKeepsType DEF Save, TypeInv, TypeOK, Shape
  <1>2. CASE SaveFails(c)
    BY <1>2, FinishKeepsType DEF SaveFails, TypeInv, TypeOK, Shape
  <1>3. CASE Remove(c)
    <2>1. row' \in [Plans -> Row \cup {None}]
      BY <1>3 DEF Remove, TypeInv, TypeOK
    <2> QED
      BY <1>3, <2>1, FinishKeepsType DEF Remove, TypeInv, TypeOK, Shape
  <1>4. ASSUME NEW w \in Workers, Dispatch(c, w)
        PROVE  TypeInv'
    <2> DEFINE new == [Free EXCEPT !.pc = "queued", !.plan = client[c].plan]
    <2>1. client[c].plan \in Plans /\ client[c].pc # "idle"
      BY <1>4 DEF Dispatch, TypeInv, Shape
    <2>2. new \in Worker /\ new.plan \in Plans
      BY <2>1, FreeIsWorker DEF Worker
    <2>3. worker' = [worker EXCEPT ![w] = new]
      BY <1>4 DEF Dispatch
    <2> HIDE DEF new
    <2>4. /\ worker' \in [Workers -> Worker]
          /\ \A v \in Workers : worker'[v] = IF v = w THEN new ELSE worker[v]
      BY <2>2, <2>3 DEF TypeInv, TypeOK
    <2>5. \A v \in Workers : worker'[v].pc # "free" => worker'[v].plan \in Plans
      BY <2>2, <2>4 DEF TypeInv, Shape
    <2> QED
      BY <1>4, <2>1, <2>4, <2>5, FinishKeepsType DEF Dispatch, TypeInv, TypeOK, Shape
  <1>5. CASE ClientCrash(c)
    BY <1>5, FinishKeepsType DEF ClientCrash, TypeInv, TypeOK, Shape
  <1> QED
    BY <1>1, <1>2, <1>3, <1>4, <1>5 DEF RequestStep

LEMMA TaskStepKeepsType ==
  ASSUME TypeInv, NEW w \in Workers, TaskStep(w) \/ WorkerCrash(w)
  PROVE  TypeInv'
  <1>0. worker[w] \in Worker /\ worker \in [Workers -> Worker]
    BY DEF TypeInv, TypeOK
  <1>1. CASE Skip(w)
    BY <1>1, ReleaseKeepsType DEF Skip, TypeInv, TypeOK, Shape
  <1>2. CASE Start(w)
    <2> DEFINE new == [worker[w] EXCEPT !.pc = "book", !.date = row[worker[w].plan].payment]
    <2>1. worker[w].plan \in Plans
      BY <1>2 DEF Start, TypeInv, Shape
    <2>2. row[worker[w].plan].payment \in Dates
      BY <1>2, <2>1 DEF Start, Due, Unlinked, Exists, TypeInv, TypeOK, Row
    <2>3. new \in Worker /\ new.plan \in Plans
      BY <1>0, <2>1, <2>2 DEF Worker
    <2>4. worker' = [worker EXCEPT ![w] = new]
      BY <1>2 DEF Start
    <2> HIDE DEF new
    <2>5. /\ worker' \in [Workers -> Worker]
          /\ \A v \in Workers : worker'[v] = IF v = w THEN new ELSE worker[v]
      BY <1>0, <2>3, <2>4
    <2>6. \A v \in Workers : worker'[v].pc # "free" => worker'[v].plan \in Plans
      BY <2>3, <2>5 DEF TypeInv, Shape
    <2> QED
      BY <1>2, <2>5, <2>6 DEF Start, TypeInv, TypeOK, Shape
  <1>3. CASE Book(w)
    <2> DEFINE p == worker[w].plan
    <2>1. p \in Plans /\ row[p] \in Row
      BY <1>3 DEF Book, LockedUnlinked, Unlinked, Exists, TypeInv, TypeOK, Shape
    <2>2. PICK x \in Txns :
            /\ ledger' = [ledger EXCEPT ![x] =
                       [state |-> "live", plan |-> p,
                        amount |-> EffectiveAmount(row[p]), date |-> worker[w].date]]
            /\ row' = [row EXCEPT ![p].txn = x]
      BY <1>3 DEF Book
    <2>3. EffectiveAmount(row[p]) \in Amounts
      BY <2>1 DEF EffectiveAmount, Row
    <2>4. [state |-> "live", plan |-> p, amount |-> EffectiveAmount(row[p]),
           date |-> worker[w].date] \in Booking
      BY <1>0, <2>1, <2>3 DEF Booking, Worker
    <2>5. ledger' \in [Txns -> Booking]
      BY <2>2, <2>4 DEF TypeInv, TypeOK
    <2>6. [row[p] EXCEPT !.txn = x] \in Row
      BY <2>1 DEF Row
    <2>7. row' \in [Plans -> Row \cup {None}]
      BY <2>1, <2>2, <2>6 DEF TypeInv, TypeOK
    <2> QED
      BY <1>3, <2>5, <2>7, ReleaseKeepsType DEF Book, TypeInv, TypeOK, Shape
  <1>4. CASE AlreadyBooked(w)
    BY <1>4, ReleaseKeepsType DEF AlreadyBooked, TypeInv, TypeOK, Shape
  <1>5. CASE Retry(w)
    <2> DEFINE new == [worker[w] EXCEPT !.pc = "queued", !.date = None, !.tries = worker[w].tries + 1]
    <2>1. worker[w].plan \in Plans
      BY <1>5 DEF Retry, Raises, TypeInv, Shape
    <2>2. worker[w].tries + 1 \in 0..MaxRetries
      BY <1>0, <1>5, ConstantsAssumption DEF Retry, RetriesLeft, Worker
    <2>3. new \in Worker /\ new.plan \in Plans
      BY <1>0, <2>1, <2>2 DEF Worker
    <2>4. worker' = [worker EXCEPT ![w] = new]
      BY <1>5 DEF Retry
    <2> HIDE DEF new
    <2>5. /\ worker' \in [Workers -> Worker]
          /\ \A v \in Workers : worker'[v] = IF v = w THEN new ELSE worker[v]
      BY <1>0, <2>3, <2>4
    <2>6. \A v \in Workers : worker'[v].pc # "free" => worker'[v].plan \in Plans
      BY <2>3, <2>5 DEF TypeInv, Shape
    <2> QED
      BY <1>5, <2>5, <2>6 DEF Retry, TypeInv, TypeOK, Shape
  <1>6. CASE GiveUp(w)
    <2>1. worker[w].plan \in Plans
      BY <1>6 DEF GiveUp, Raises, TypeInv, Shape
    <2> QED
      BY <1>6, <2>1, ReleaseKeepsType DEF GiveUp, TypeInv, TypeOK, Shape
  <1>7. CASE WorkerCrash(w)
    <2>1. worker[w].plan \in Plans
      BY <1>7 DEF WorkerCrash, TypeInv, Shape
    <2> QED
      BY <1>7, <2>1, ReleaseKeepsType DEF WorkerCrash, TypeInv, TypeOK, Shape
  <1> QED
    BY <1>1, <1>2, <1>3, <1>4, <1>5, <1>6, <1>7 DEF TaskStep

LEMMA EnvironmentKeepsType ==
  ASSUME TypeInv,
         \/ \E w, v \in Workers : Redeliver(w, v)
         \/ SetArchived
         \/ \E x \in Txns : DeleteTransaction(x)
  PROVE  TypeInv'
  <1>1. ASSUME NEW w \in Workers, NEW v \in Workers, Redeliver(w, v)
        PROVE  TypeInv'
    <2>1. /\ worker' \in [Workers -> Worker]
          /\ \A u \in Workers : worker'[u] = IF u = v THEN worker[w] ELSE worker[u]
      BY <1>1 DEF Redeliver, TypeInv, TypeOK
    <2> QED
      BY <1>1, <2>1 DEF Redeliver, TypeInv, TypeOK, Shape
  <1>2. CASE SetArchived
    BY <1>2 DEF SetArchived, TypeInv, TypeOK, Shape
  <1>3. ASSUME NEW x \in Txns, DeleteTransaction(x)
        PROVE  TypeInv'
    <2>1. [ledger[x] EXCEPT !.state = "deleted"] \in Booking
      BY DEF TypeInv, TypeOK, Booking
    <2>2. ledger' \in [Txns -> Booking]
      BY <1>3, <2>1 DEF DeleteTransaction, TypeInv, TypeOK
    <2>3. \A p \in Plans : LinkCleared(row[p], x) \in Row \cup {None}
      BY DEF LinkCleared, TypeInv, TypeOK, Row
    <2>4. row' \in [Plans -> Row \cup {None}]
      BY <1>3, <2>3 DEF DeleteTransaction
    <2> QED
      BY <1>3, <2>2, <2>4 DEF DeleteTransaction, TypeInv, TypeOK, Shape
  <1> QED
    BY <1>1, <1>2, <1>3

LEMMA NextKeepsType == TypeInv /\ [Next]_vars => TypeInv'
  <1> SUFFICES ASSUME TypeInv, [Next]_vars PROVE TypeInv'
    OBVIOUS
  <1>1. CASE UNCHANGED vars
    BY <1>1 DEF vars, TypeInv, TypeOK, Shape
  <1>2. CASE Next
    BY <1>2, RequestKeepsType, RequestStepKeepsType, TaskStepKeepsType, EnvironmentKeepsType
       DEF Next
  <1> QED
    BY <1>1, <1>2

\* The variables keep their types, and requests and tasks always know the plan
\* they work on.
THEOREM TypeCorrect == Spec => []TypeOK
  <1>1. TypeInv => TypeOK
    BY DEF TypeInv
  <1> QED
    BY <1>1, InitType, NextKeepsType, PTL DEF Spec

-----------------------------------------------------------------------------
(* Links.  What a request has read may be stale, but the transaction it    *)
(* names was booked for the plan the request is about.                     *)

SnapshotsOwn ==
  \A c \in Clients :
    client[c].pc = "save" /\ client[c].row.txn # None =>
      /\ ledger[client[c].row.txn].plan = client[c].plan
      /\ ledger[client[c].row.txn].state # "unused"

LinkInv == TypeInv /\ LinkIsOwn /\ SnapshotsOwn

\* A step that changes no plan and no booking, and starts no save, keeps links.
LEMMA LinksFrame ==
  ASSUME LinkInv, TypeInv', UNCHANGED <<row, ledger>>,
         \A c \in Clients : client'[c].pc = "save" =>
           client'[c].row = client[c].row /\ client'[c].plan = client[c].plan
           /\ client[c].pc = "save"
  PROVE  LinkInv'
  BY DEF LinkInv, LinkIsOwn, SnapshotsOwn, Exists

LEMMA RequestKeepsLinks ==
  ASSUME LinkInv, NEW c \in Clients, NEW p \in Plans,
         Create(c, p) \/ BeginExecute(c, p) \/ BeginUpdate(c, p) \/ BeginDelete(c, p)
  PROVE  LinkInv'
  <1>0. TypeInv /\ TypeInv'
    BY RequestKeepsType DEF LinkInv
  <1>c. client \in [Clients -> Client] /\ row \in [Plans -> Row \cup {None}]
    BY <1>0 DEF TypeInv, TypeOK
  <1>1. CASE Create(c, p)
    <2>1. PICK a \in Amounts, d \in Dates, s \in Status :
            row' = [row EXCEPT ![p] = NewRow(a, d, s)]
      BY <1>1 DEF Create
    <2>2. NewRow(a, d, s).txn = None
      BY DEF NewRow
    <2>3. LinkIsOwn'
      BY <1>1, <1>c, <2>1, <2>2 DEF Create, LinkInv, LinkIsOwn, Exists
    <2>4. \A e \in Clients : client'[e].pc = "save" => client'[e] = client[e]
      BY <1>1, <1>c DEF Create, Prepare
    <2>5. SnapshotsOwn'
      BY <1>1, <2>4 DEF Create, LinkInv, SnapshotsOwn
    <2> QED
      BY <1>0, <2>3, <2>5 DEF LinkInv
  <1>2. ASSUME NEW r, r.txn = row[p].txn, Exists(p),
               NEW b, Prepare(c, "save", p, r, b), UNCHANGED <<row, ledger>>
        PROVE  LinkInv'
    <2>1. \A e \in Clients : client'[e] =
             IF e = c THEN [pc |-> "save", plan |-> p, row |-> r, sends |-> b] ELSE client[e]
      BY <1>2, <1>c DEF Prepare
    <2>2. SnapshotsOwn'
      BY <1>2, <2>1 DEF LinkInv, LinkIsOwn, SnapshotsOwn
    <2>3. LinkIsOwn'
      BY <1>2 DEF LinkInv, LinkIsOwn, Exists
    <2> QED
      BY <1>0, <2>2, <2>3 DEF LinkInv
  <1>3. CASE BeginExecute(c, p)
    <2>1. row[p] \in Row /\ Exists(p)
      BY <1>3, <1>c DEF BeginExecute, Exists
    <2>2. PICK d \in Dates \cup {None}, a \in Amounts \cup {None} :
            Prepare(c, "save", p, Executed(row[p], d, a), TRUE)
      BY <1>3 DEF BeginExecute
    <2> QED
      BY <1>2, <1>3, <2>1, <2>2, ExecutedIsRow DEF BeginExecute
  <1>4. CASE BeginUpdate(c, p)
    <2>1. row[p] \in Row /\ Exists(p)
      BY <1>4, <1>c DEF BeginUpdate, Exists
    <2>2. PICK a \in Amounts, d \in Dates, s \in Status :
            Prepare(c, "save", p, Edited(row[p], a, d, s), Executes(row[p], s))
      BY <1>4 DEF BeginUpdate
    <2> QED
      BY <1>2, <1>4, <2>1, <2>2, EditedIsRow DEF BeginUpdate
  <1>5. CASE BeginDelete(c, p)
    <2>1. \A e \in Clients : client'[e].pc = "save" => client'[e] = client[e]
      BY <1>5, <1>c DEF BeginDelete, Prepare
    <2> QED
      BY <1>0, <1>5, <2>1, LinksFrame DEF BeginDelete
  <1> QED
    BY <1>1, <1>3, <1>4, <1>5

\* After a request's step no other request has changed, and it saves no more.
LEMMA FinishEndsSave ==
  ASSUME TypeInv, NEW c \in Clients,
         Finish(c) \/ client' = [client EXCEPT ![c] = Idle]
  PROVE  \A e \in Clients : client'[e].pc = "save" => client'[e] = client[e] /\ e # c
  <1>1. client \in [Clients -> Client] /\ client[c] \in Client
    BY DEF TypeInv, TypeOK
  <1>2. PICK new : new.pc # "save" /\ client' = [client EXCEPT ![c] = new]
    BY <1>1 DEF Finish, Idle, Client
  <1> QED
    BY <1>1, <1>2

LEMMA RequestStepKeepsLinks ==
  ASSUME LinkInv, NEW c \in Clients, RequestStep(c) \/ ClientCrash(c)
  PROVE  LinkInv'
  <1>0. TypeInv /\ TypeInv'
    BY RequestStepKeepsType DEF LinkInv
  <1>1. CASE Save(c)
    <2> DEFINE p == client[c].plan
               r == client[c].row
    <2>1. p \in Plans /\ r \in Row
      BY <1>0, <1>1 DEF Save, TypeInv, Shape
    <2>2. r.txn # None => /\ ledger[r.txn].state = "live"
                          /\ ledger[r.txn].plan = p
      BY <1>1 DEF Save, ForeignKeyHolds, LinkInv, SnapshotsOwn
    <2>3. \A x \in Txns : ledger'[x].state = ledger[x].state /\ ledger'[x].plan = ledger[x].plan
      BY <1>0, <1>1 DEF Save, TypeInv, TypeOK, Booking
    <2>4. \A q \in Plans : row'[q] = IF q = p THEN r ELSE row[q]
      BY <1>0, <1>1, <2>1 DEF Save, TypeInv, TypeOK
    <2>5. \A q \in Plans : row'[q] \in Row \cup {None}
      BY <1>0 DEF TypeInv, TypeOK
    <2>6. LinkIsOwn'
      <3> SUFFICES ASSUME NEW q \in Plans, row'[q] # None, row'[q].txn # None
                   PROVE  ledger'[row'[q].txn].state = "live" /\ ledger'[row'[q].txn].plan = q
        BY DEF LinkIsOwn, Exists
      <3>1. row'[q].txn \in Txns
        BY <2>5 DEF Row
      <3>2. CASE q = p
        BY <2>2, <2>3, <2>4, <3>1, <3>2
      <3>3. CASE q # p
        BY <2>3, <2>4, <3>1, <3>3 DEF LinkInv, LinkIsOwn, Exists
      <3> QED
        BY <3>2, <3>3
    <2>7. \A e \in Clients : client'[e].pc = "save" => client'[e] = client[e] /\ e # c
      BY <1>0, <1>1, FinishEndsSave DEF Save
    <2>8. SnapshotsOwn'
      <3> SUFFICES ASSUME NEW e \in Clients, client'[e].pc = "save", client'[e].row.txn # None
                   PROVE  /\ ledger'[client'[e].row.txn].plan = client'[e].plan
                          /\ ledger'[client'[e].row.txn].state # "unused"
        BY DEF SnapshotsOwn
      <3>1. client'[e].row.txn \in Txns
        BY <1>0 DEF TypeInv, Shape, Row
      <3> QED
        BY <2>3, <2>7, <3>1 DEF LinkInv, SnapshotsOwn
    <2> QED
      BY <1>0, <2>6, <2>8 DEF LinkInv
  <1>2. CASE Remove(c)
    <2>1. \A e \in Clients : client'[e].pc = "save" => client'[e] = client[e] /\ e # c
      BY <1>0, <1>2, FinishEndsSave DEF Remove
    <2>2. \A q \in Plans : row'[q] = row[q] \/ row'[q] = None
      BY <1>0, <1>2 DEF Remove, TypeInv, TypeOK
    <2> QED
      BY <1>0, <1>2, <2>1, <2>2 DEF Remove, LinkInv, LinkIsOwn, SnapshotsOwn, Exists
  <1>3. CASE SaveFails(c) \/ ClientCrash(c) \/ \E w \in Workers : Dispatch(c, w)
    <2>1. \A e \in Clients : client'[e].pc = "save" => client'[e] = client[e] /\ e # c
      BY <1>0, <1>3, FinishEndsSave DEF SaveFails, ClientCrash, Dispatch
    <2> QED
      BY <1>0, <1>3, <2>1, LinksFrame DEF SaveFails, ClientCrash, Dispatch
  <1> QED
    BY <1>1, <1>2, <1>3 DEF RequestStep

LEMMA TaskStepKeepsLinks ==
  ASSUME LinkInv, NEW w \in Workers, TaskStep(w) \/ WorkerCrash(w)
  PROVE  LinkInv'
  <1>0. TypeInv /\ TypeInv'
    BY TaskStepKeepsType DEF LinkInv
  <1>1. CASE Book(w)
    <2> DEFINE p == worker[w].plan
    <2>1. p \in Plans /\ row[p] \in Row
      BY <1>0, <1>1 DEF Book, LockedUnlinked, Unlinked, Exists, TypeInv, TypeOK, Shape
    <2>2. PICK x \in Txns :
            /\ ledger[x].state = "unused"
            /\ ledger' = [ledger EXCEPT ![x] =
                       [state |-> "live", plan |-> p,
                        amount |-> EffectiveAmount(row[p]), date |-> worker[w].date]]
            /\ row' = [row EXCEPT ![p].txn = x]
      BY <1>1 DEF Book
    <2>3. /\ ledger'[x].state = "live" /\ ledger'[x].plan = p
          /\ \A y \in Txns : y # x => ledger'[y] = ledger[y]
      BY <1>0, <2>2 DEF TypeInv, TypeOK
    <2>4. /\ row'[p].txn = x
          /\ \A q \in Plans : q # p => row'[q] = row[q]
      BY <1>0, <2>1, <2>2 DEF TypeInv, TypeOK, Row
    <2>5. \A q \in Plans : row[q] \in Row \cup {None}
      BY <1>0 DEF TypeInv, TypeOK
    <2>6. LinkIsOwn'
      <3> SUFFICES ASSUME NEW q \in Plans, row'[q] # None, row'[q].txn # None
                   PROVE  ledger'[row'[q].txn].state = "live" /\ ledger'[row'[q].txn].plan = q
        BY DEF LinkIsOwn, Exists
      <3>1. CASE q = p
        BY <2>3, <2>4, <3>1
      <3>2. CASE q # p
        <4>1. row[q].txn \in Txns /\ ledger[row[q].txn].state = "live"
          BY <2>4, <2>5, <3>2 DEF LinkInv, LinkIsOwn, Exists, Row
        <4>2. row[q].txn # x
          BY <2>2, <4>1
        <4> QED
          BY <2>3, <2>4, <3>2, <4>1, <4>2 DEF LinkInv, LinkIsOwn, Exists
      <3> QED
        BY <3>1, <3>2
    <2>7. SnapshotsOwn'
      <3> SUFFICES ASSUME NEW e \in Clients, client[e].pc = "save", client[e].row.txn # None
                   PROVE  /\ ledger'[client[e].row.txn].plan = client[e].plan
                          /\ ledger'[client[e].row.txn].state # "unused"
        BY <1>1 DEF SnapshotsOwn, Book
      <3>1. client[e].row.txn \in Txns
        BY <1>0 DEF TypeInv, Shape, Row
      <3>2. client[e].row.txn # x
        BY <2>2 DEF LinkInv, SnapshotsOwn
      <3> QED
        BY <2>3, <3>1, <3>2 DEF LinkInv, SnapshotsOwn
    <2> QED
      BY <1>0, <2>6, <2>7 DEF LinkInv
  <1>2. CASE Skip(w) \/ Start(w) \/ AlreadyBooked(w) \/ Retry(w) \/ GiveUp(w) \/ WorkerCrash(w)
    <2>1. UNCHANGED <<row, ledger, client>>
      BY <1>2 DEF Skip, Start, AlreadyBooked, Retry, GiveUp, WorkerCrash
    <2> QED
      BY <1>0, <2>1, LinksFrame
  <1> QED
    BY <1>1, <1>2 DEF TaskStep

LEMMA EnvironmentKeepsLinks ==
  ASSUME LinkInv,
         \/ \E w, v \in Workers : Redeliver(w, v)
         \/ SetArchived
         \/ \E x \in Txns : DeleteTransaction(x)
  PROVE  LinkInv'
  <1>0. TypeInv /\ TypeInv'
    BY EnvironmentKeepsType DEF LinkInv
  <1>1. CASE SetArchived \/ \E w, v \in Workers : Redeliver(w, v)
    <2>1. UNCHANGED <<row, ledger, client>>
      BY <1>1 DEF SetArchived, Redeliver
    <2> QED
      BY <1>0, <2>1, LinksFrame
  <1>2. ASSUME NEW x \in Txns, DeleteTransaction(x)
        PROVE  LinkInv'
    <2>1. /\ ledger'[x].plan = ledger[x].plan /\ ledger'[x].state = "deleted"
          /\ \A y \in Txns : y # x => ledger'[y] = ledger[y]
      BY <1>0, <1>2 DEF DeleteTransaction, TypeInv, TypeOK, Booking
    <2>2. \A q \in Plans : row'[q] # None /\ row'[q].txn # None =>
            row'[q] = row[q] /\ row[q].txn # x /\ row[q].txn \in Txns
      BY <1>0, <1>2 DEF DeleteTransaction, LinkCleared, TypeInv, TypeOK, Row
    <2>3. LinkIsOwn'
      BY <2>1, <2>2 DEF LinkInv, LinkIsOwn, Exists
    <2>4. \A c \in Clients : client[c].pc = "save" /\ client[c].row.txn # None =>
            client[c].row.txn \in Txns
      BY <1>0 DEF TypeInv, Shape, Row
    <2>5. SnapshotsOwn'
      BY <1>2, <2>1, <2>4 DEF DeleteTransaction, LinkInv, SnapshotsOwn
    <2> QED
      BY <1>0, <2>3, <2>5 DEF LinkInv
  <1> QED
    BY <1>1, <1>2

LEMMA InitLinks == Init => LinkInv
  <1> SUFFICES ASSUME Init PROVE LinkInv
    OBVIOUS
  <1>1. \A c \in Clients : client[c].pc = "idle"
    BY DEF Init, Idle
  <1> QED
    BY <1>1, InitType DEF Init, LinkInv, LinkIsOwn, SnapshotsOwn, Exists

LEMMA NextKeepsLinks == LinkInv /\ [Next]_vars => LinkInv'
  <1> SUFFICES ASSUME LinkInv, [Next]_vars PROVE LinkInv'
    OBVIOUS
  <1>1. CASE UNCHANGED vars
    <2>1. TypeInv'
      BY <1>1, NextKeepsType DEF LinkInv
    <2> QED
      BY <1>1, <2>1, LinksFrame DEF vars
  <1>2. CASE Next
    BY <1>2, RequestKeepsLinks, RequestStepKeepsLinks, TaskStepKeepsLinks,
       EnvironmentKeepsLinks DEF Next
  <1> QED
    BY <1>1, <1>2

\* A link always names a live transaction booked for that plan, under any
\* number of concurrent requests, tasks, crashes and duplicate messages.
THEOREM LinksCorrect == Spec => []LinkIsOwn
  <1>1. LinkInv => LinkIsOwn
    BY DEF LinkInv
  <1> QED
    BY <1>1, InitLinks, NextKeepsLinks, PTL DEF Spec

-----------------------------------------------------------------------------
(* Booking, however requests and messages interleave.                      *)

\* Rows, requests and bookings are of plans that were inserted.
Known ==
  /\ \A p \in Plans : Exists(p) => p \in born
  /\ \A c \in Clients : client[c].pc # "idle" => client[c].plan \in born
  /\ \A x \in Txns : ledger[x].plan \in Plans => ledger[x].plan \in born

\* A live transaction is linked by its plan, and by the row of every request that
\* read the plan since it was booked, unless a row read before was saved.
Carried ==
  \A x \in Txns :
    ledger[x].state = "live" /\ ledger[x].plan \in Plans \ overwritten =>
      /\ Exists(ledger[x].plan) => row[ledger[x].plan].txn = x
      /\ \A c \in Clients \ overtaken :
           client[c].pc = "save" /\ client[c].plan = ledger[x].plan
             => client[c].row.txn = x

BookingInv == TypeInv /\ Known /\ Carried /\ OneLiveBooking

\* A step that changes no link and no booking, and starts no save.
LEMMA BookingFrame ==
  ASSUME BookingInv, TypeInv', Known', overwritten \subseteq overwritten',
         \A p \in Plans : row'[p] # None => row[p] # None /\ row'[p].txn = row[p].txn,
         \A x \in Txns : ledger'[x].state = "live" =>
           ledger[x].state = "live" /\ ledger'[x].plan = ledger[x].plan,
         \A c \in Clients : client'[c].pc = "save" /\ c \notin overtaken' =>
           client'[c] = client[c] /\ c \notin overtaken
  PROVE  BookingInv'
  <1>1. Carried'
    BY DEF BookingInv, Carried, Exists
  <1>2. OneLiveBooking'
    <2> SUFFICES ASSUME NEW p \in Plans \ overwritten',
                        NEW x \in Txns, NEW y \in Txns,
                        ledger'[x].plan = p, ledger'[y].plan = p,
                        ledger'[x].state = "live", ledger'[y].state = "live"
                 PROVE  x = y
      BY DEF OneLiveBooking, BookingsOf
    <2>1. /\ p \in Plans \ overwritten
          /\ ledger[x].plan = p /\ ledger[x].state = "live"
          /\ ledger[y].plan = p /\ ledger[y].state = "live"
      OBVIOUS
    <2> QED
      BY <2>1 DEF BookingInv, OneLiveBooking, BookingsOf
  <1> QED
    BY <1>1, <1>2 DEF BookingInv

\* What keeps plans known: only Create makes one appear.
LEMMA KnownFrame ==
  ASSUME Known, born \subseteq born',
         \A p \in Plans : row'[p] # None => row[p] # None \/ p \in born',
         \A c \in Clients : client'[c].pc # "idle" =>
           (client[c].pc # "idle" /\ client'[c].plan = client[c].plan) \/ client'[c].plan \in born',
         \A x \in Txns : ledger'[x].plan \in Plans =>
           ledger'[x].plan = ledger[x].plan \/ ledger'[x].plan \in born'
  PROVE  Known'
  BY DEF Known, Exists

LEMMA RequestKeepsBooking ==
  ASSUME BookingInv, NEW c \in Clients, NEW p \in Plans,
         Create(c, p) \/ BeginExecute(c, p) \/ BeginUpdate(c, p) \/ BeginDelete(c, p)
  PROVE  BookingInv'
  <1>0. TypeInv /\ TypeInv'
    BY RequestKeepsType DEF BookingInv
  <1>c. client \in [Clients -> Client] /\ row \in [Plans -> Row \cup {None}]
    BY <1>0 DEF TypeInv, TypeOK
  <1>k. Known /\ Carried
    BY DEF BookingInv
  <1>1. CASE Create(c, p)
    <2>1. PICK a \in Amounts, d \in Dates, s \in Status :
            row' = [row EXCEPT ![p] = NewRow(a, d, s)]
      BY <1>1 DEF Create
    <2>2. /\ \A q \in Plans : q # p => row'[q] = row[q]
          /\ p \in born' /\ born \subseteq born'
      BY <1>1, <1>c, <2>1 DEF Create
    <2>3. \A e \in Clients : \/ client'[e] = client[e]
                             \/ client'[e].pc = "dispatch" /\ client'[e].plan = p
      BY <1>1, <1>c DEF Create, Prepare
    <2>4. Known'
      BY <1>1, <1>k, <2>2, <2>3, KnownFrame DEF Create
    <2>5. \A x \in Txns : ledger[x].plan # p
      BY <1>1, <1>k DEF Create, Known
    <2>6. Carried'
      BY <1>1, <1>k, <2>2, <2>3, <2>5 DEF Create, Carried, Exists
    <2>7. OneLiveBooking'
      BY <1>1 DEF Create, BookingInv, OneLiveBooking, BookingsOf
    <2> QED
      BY <1>0, <2>4, <2>6, <2>7 DEF BookingInv
  <1>2. ASSUME NEW r, r.txn = row[p].txn, Exists(p),
               NEW b, Prepare(c, "save", p, r, b),
               UNCHANGED <<born, row, ledger, overtaken, overwritten>>
        PROVE  BookingInv'
    <2>1. \A e \in Clients : client'[e] =
             IF e = c THEN [pc |-> "save", plan |-> p, row |-> r, sends |-> b] ELSE client[e]
      BY <1>2, <1>c DEF Prepare
    <2>2. p \in born
      BY <1>2, <1>k DEF Known
    <2>3. Known'
      BY <1>2, <1>k, <2>1, <2>2, KnownFrame
    <2>4. Carried'
      BY <1>2, <1>k, <2>1 DEF Carried, Exists
    <2>5. OneLiveBooking'
      BY <1>2 DEF BookingInv, OneLiveBooking, BookingsOf
    <2> QED
      BY <1>0, <2>3, <2>4, <2>5 DEF BookingInv
  <1>3. CASE BeginExecute(c, p)
    <2>1. row[p] \in Row /\ Exists(p)
      BY <1>3, <1>c DEF BeginExecute, Exists
    <2>2. PICK d \in Dates \cup {None}, a \in Amounts \cup {None} :
            Prepare(c, "save", p, Executed(row[p], d, a), TRUE)
      BY <1>3 DEF BeginExecute
    <2> QED
      BY <1>2, <1>3, <2>1, <2>2, ExecutedIsRow DEF BeginExecute
  <1>4. CASE BeginUpdate(c, p)
    <2>1. row[p] \in Row /\ Exists(p)
      BY <1>4, <1>c DEF BeginUpdate, Exists
    <2>2. PICK a \in Amounts, d \in Dates, s \in Status :
            Prepare(c, "save", p, Edited(row[p], a, d, s), Executes(row[p], s))
      BY <1>4 DEF BeginUpdate
    <2> QED
      BY <1>2, <1>4, <2>1, <2>2, EditedIsRow DEF BeginUpdate
  <1>5. CASE BeginDelete(c, p)
    <2>1. \A e \in Clients : \/ client'[e] = client[e]
                             \/ client'[e].pc = "remove" /\ client'[e].plan = p
      BY <1>5, <1>c DEF BeginDelete, Prepare
    <2>2. p \in born
      BY <1>5, <1>k DEF BeginDelete, Known
    <2>3. Known'
      BY <1>5, <1>k, <2>1, <2>2, KnownFrame DEF BeginDelete
    <2> QED
      BY <1>0, <1>5, <2>1, <2>3, BookingFrame DEF BeginDelete
  <1> QED
    BY <1>1, <1>3, <1>4, <1>5

LEMMA RequestStepKeepsBooking ==
  ASSUME BookingInv, NEW c \in Clients, RequestStep(c) \/ ClientCrash(c)
  PROVE  BookingInv'
  <1>0. TypeInv /\ TypeInv'
    BY RequestStepKeepsType DEF BookingInv
  <1>c. client \in [Clients -> Client] /\ row \in [Plans -> Row \cup {None}]
    BY <1>0 DEF TypeInv, TypeOK
  <1>k. Known /\ Carried /\ OneLiveBooking
    BY DEF BookingInv
  <1>e. ASSUME client[c].pc # "idle", Finish(c) \/ client' = [client EXCEPT ![c] = Idle]
        PROVE  \A e \in Clients : /\ client'[e].pc # "idle" =>
                                       client[e].pc # "idle" /\ client'[e].plan = client[e].plan
                                  /\ client'[e].pc = "save" => client'[e] = client[e] /\ e # c
    <2>1. \A e \in Clients : client'[e].pc = "save" => client'[e] = client[e] /\ e # c
      BY <1>0, <1>e, FinishEndsSave
    <2>2. client[c] \in Client
      BY <1>c
    <2>3. PICK new : /\ new.pc # "idle" => new.plan = client[c].plan
                     /\ client' = [client EXCEPT ![c] = new]
      BY <1>e, <2>2 DEF Finish, Idle, Client
    <2> QED
      BY <1>c, <1>e, <2>1, <2>3
  <1>1. CASE Save(c)
    <2> DEFINE p == client[c].plan
               r == client[c].row
    <2>1. p \in Plans /\ r \in Row /\ client[c].pc = "save"
      BY <1>0, <1>1 DEF Save, TypeInv, Shape
    <2>2. \A x \in Txns : ledger'[x].state = ledger[x].state /\ ledger'[x].plan = ledger[x].plan
      BY <1>0, <1>1 DEF Save, TypeInv, TypeOK, Booking
    <2>3. \A q \in Plans : row'[q] = IF q = p THEN r ELSE row[q]
      BY <1>c, <1>1, <2>1 DEF Save
    <2>4. \A e \in Clients : /\ client'[e].pc # "idle" =>
                                  client[e].pc # "idle" /\ client'[e].plan = client[e].plan
                             /\ client'[e].pc = "save" => client'[e] = client[e] /\ e # c
      BY <1>1, <1>e, <2>1 DEF Save
    <2>5. born' = born /\ p \in born
      BY <1>1, <1>k, <2>1 DEF Save, Known
    <2>6. Known'
      BY <1>k, <2>2, <2>3, <2>4, <2>5, KnownFrame
    <2>7. /\ overtaken' = overtaken \ {c}
          /\ c \in overtaken => overwritten' = overwritten \cup {p}
          /\ c \notin overtaken => overwritten' = overwritten
      BY <1>1 DEF Save
    <2>8. Carried'
      <3> SUFFICES ASSUME NEW x \in Txns, ledger'[x].state = "live",
                          ledger'[x].plan \in Plans \ overwritten'
                   PROVE  /\ row'[ledger'[x].plan] # None => row'[ledger'[x].plan].txn = x
                          /\ \A e \in Clients \ overtaken' :
                               client'[e].pc = "save" /\ client'[e].plan = ledger'[x].plan
                                 => client'[e].row.txn = x
        BY DEF Carried, Exists
      <3>1. ledger[x].state = "live" /\ ledger[x].plan \in Plans \ overwritten
        BY <2>2, <2>7
      <3>2. ledger[x].plan = p => c \notin overtaken /\ r.txn = x
        BY <1>k, <2>1, <2>2, <2>7, <3>1 DEF Carried
      <3>3. row'[ledger'[x].plan] # None => row'[ledger'[x].plan].txn = x
        BY <1>k, <2>2, <2>3, <3>1, <3>2 DEF Carried, Exists
      <3>4. ASSUME NEW e \in Clients \ overtaken',
                   client'[e].pc = "save", client'[e].plan = ledger'[x].plan
            PROVE  client'[e].row.txn = x
        <4>1. e \in Clients \ overtaken /\ client'[e] = client[e]
          BY <2>4, <2>7, <3>4
        <4> QED
          BY <1>k, <2>2, <3>1, <3>4, <4>1 DEF Carried
      <3> QED
        BY <3>3, <3>4
    <2>9. OneLiveBooking'
      BY <1>k, <2>2, <2>7 DEF OneLiveBooking, BookingsOf
    <2> QED
      BY <1>0, <2>6, <2>8, <2>9 DEF BookingInv
  <1>2. CASE Remove(c)
    <2>1. \A e \in Clients : /\ client'[e].pc # "idle" =>
                                  client[e].pc # "idle" /\ client'[e].plan = client[e].plan
                             /\ client'[e].pc = "save" => client'[e] = client[e] /\ e # c
      BY <1>2, <1>e DEF Remove
    <2>2. \A q \in Plans : row'[q] = row[q] \/ row'[q] = None
      BY <1>c, <1>2 DEF Remove
    <2>3. UNCHANGED <<born, ledger, overtaken, overwritten>>
      BY <1>2 DEF Remove
    <2>4. Known'
      BY <1>k, <2>1, <2>2, <2>3, KnownFrame
    <2> QED
      BY <1>0, <2>1, <2>2, <2>3, <2>4, BookingFrame
  <1>3. CASE SaveFails(c) \/ ClientCrash(c) \/ \E w \in Workers : Dispatch(c, w)
    <2>1. \A e \in Clients : /\ client'[e].pc # "idle" =>
                                  client[e].pc # "idle" /\ client'[e].plan = client[e].plan
                             /\ client'[e].pc = "save" => client'[e] = client[e] /\ e # c
      BY <1>3, <1>e DEF SaveFails, ClientCrash, Dispatch
    <2>2. /\ UNCHANGED <<born, row, ledger, overwritten>>
          /\ overtaken' = overtaken \ {c} \/ overtaken' = overtaken
      BY <1>3 DEF SaveFails, ClientCrash, Dispatch
    <2>3. Known'
      BY <1>k, <2>1, <2>2, KnownFrame
    <2>4. \A e \in Clients : client'[e].pc = "save" /\ e \notin overtaken' =>
            client'[e] = client[e] /\ e \notin overtaken
      BY <2>1, <2>2
    <2> QED
      BY <1>0, <2>2, <2>3, <2>4, BookingFrame
  <1> QED
    BY <1>1, <1>2, <1>3 DEF RequestStep

\* The booking: the plan is unlinked under the lock, so no live transaction of it
\* is carried by its row, and there is none unless a stale row was saved.
LEMMA BookKeepsBooking ==
  ASSUME BookingInv, NEW w \in Workers, Book(w)
  PROVE  BookingInv'
  <1> DEFINE p == worker[w].plan
  <1>0. TypeInv /\ TypeInv'
    BY TaskStepKeepsType DEF BookingInv, TaskStep
  <1>k. Known /\ Carried /\ OneLiveBooking
    BY DEF BookingInv
  <1>1. p \in Plans /\ row[p] \in Row /\ Exists(p) /\ row[p].txn = None
    BY <1>0 DEF Book, LockedUnlinked, Unlinked, Exists, TypeInv, TypeOK, Shape
  <1>2. PICK x \in Txns :
          /\ ledger[x].state = "unused"
          /\ ledger' = [ledger EXCEPT ![x] =
                     [state |-> "live", plan |-> p,
                      amount |-> EffectiveAmount(row[p]), date |-> worker[w].date]]
          /\ row' = [row EXCEPT ![p].txn = x]
    BY DEF Book
  <1>3. /\ ledger'[x].state = "live" /\ ledger'[x].plan = p
        /\ \A y \in Txns : y # x => ledger'[y] = ledger[y]
    BY <1>0, <1>2 DEF TypeInv, TypeOK
  <1>4. /\ row'[p].txn = x
        /\ \A q \in Plans : q # p => row'[q] = row[q]
    BY <1>0, <1>1, <1>2 DEF TypeInv, TypeOK, Row
  <1>5. /\ UNCHANGED <<born, client, overwritten>>
        /\ overtaken' = overtaken \cup {c \in Clients : client[c].pc = "save" /\ client[c].plan = p}
    BY DEF Book
  <1>6. Known'
    <2>1. p \in born
      BY <1>k, <1>1 DEF Known
    <2>2. \A q \in Plans : row'[q] # None => row[q] # None \/ q \in born'
      BY <1>4, <1>5, <2>1
    <2>3. \A y \in Txns : ledger'[y].plan = ledger[y].plan \/ ledger'[y].plan \in born'
      BY <1>3, <1>5, <2>1
    <2> QED
      BY <1>k, <1>5, <2>2, <2>3, KnownFrame
  <1>7. ASSUME p \notin overwritten, NEW y \in Txns, ledger[y].state = "live"
        PROVE  ledger[y].plan # p
    <2>1. y # None
      BY <1>7, ConstantsAssumption
    <2> QED
      BY <1>k, <1>1, <1>7, <2>1 DEF Carried
  <1>8. Carried'
    <2> SUFFICES ASSUME NEW y \in Txns, ledger'[y].state = "live",
                        ledger'[y].plan \in Plans \ overwritten'
                 PROVE  /\ row'[ledger'[y].plan] # None => row'[ledger'[y].plan].txn = y
                        /\ \A e \in Clients \ overtaken' :
                             client'[e].pc = "save" /\ client'[e].plan = ledger'[y].plan
                               => client'[e].row.txn = y
      BY DEF Carried, Exists
    <2>1. CASE y = x
      BY <1>3, <1>4, <1>5, <2>1
    <2>2. CASE y # x
      <3>1. ledger'[y] = ledger[y] /\ ledger[y].plan \in Plans \ overwritten /\ ledger[y].plan # p
        BY <1>3, <1>5, <1>7, <2>2
      <3> QED
        BY <1>k, <1>4, <1>5, <3>1 DEF Carried, Exists
    <2> QED
      BY <2>1, <2>2
  <1>9. OneLiveBooking'
    <2> SUFFICES ASSUME NEW q \in Plans \ overwritten,
                        NEW y \in Txns, NEW z \in Txns,
                        ledger'[y].plan = q, ledger'[z].plan = q,
                        ledger'[y].state = "live", ledger'[z].state = "live"
                 PROVE  y = z
      BY <1>5 DEF OneLiveBooking, BookingsOf
    <2>1. CASE q = p
      BY <1>3, <1>7, <2>1
    <2>2. CASE q # p
      <3>1. ledger'[y] = ledger[y] /\ ledger'[z] = ledger[z]
        BY <1>3, <2>2
      <3> QED
        BY <1>k, <3>1 DEF OneLiveBooking, BookingsOf
    <2> QED
      BY <2>1, <2>2
  <1> QED
    BY <1>0, <1>6, <1>8, <1>9 DEF BookingInv

LEMMA OtherStepsKeepBooking ==
  ASSUME BookingInv, TypeInv',
         \/ \E w \in Workers : \/ Skip(w) \/ Start(w) \/ AlreadyBooked(w) \/ Retry(w)
                               \/ GiveUp(w) \/ WorkerCrash(w)
         \/ \E w, v \in Workers : Redeliver(w, v)
         \/ SetArchived
         \/ \E x \in Txns : DeleteTransaction(x)
  PROVE  BookingInv'
  <1>1. ASSUME UNCHANGED <<born, row, ledger, client, overtaken, overwritten>>
        PROVE  BookingInv'
    <2>1. Known'
      BY <1>1, KnownFrame DEF BookingInv
    <2> QED
      BY <1>1, <2>1, BookingFrame
  <1>2. ASSUME NEW x \in Txns, DeleteTransaction(x)
        PROVE  BookingInv'
    <2>1. /\ ledger'[x].plan = ledger[x].plan /\ ledger'[x].state = "deleted"
          /\ \A y \in Txns : y # x => ledger'[y] = ledger[y]
      BY <1>2 DEF DeleteTransaction, BookingInv, TypeInv, TypeOK, Booking
    <2>2. /\ UNCHANGED <<born, client, overtaken, overwritten>>
          /\ \A q \in Plans : row'[q] = LinkCleared(row[q], x)
      BY <1>2 DEF DeleteTransaction
    <2>3. \A q \in Plans : row'[q] # None => row[q] # None
      BY <2>2 DEF LinkCleared
    <2>4. Known'
      BY <2>1, <2>2, <2>3, KnownFrame DEF BookingInv
    <2>5. Carried'
      <3> SUFFICES ASSUME NEW y \in Txns, ledger'[y].state = "live",
                          ledger'[y].plan \in Plans \ overwritten
                   PROVE  /\ row'[ledger'[y].plan] # None => row'[ledger'[y].plan].txn = y
                          /\ \A e \in Clients \ overtaken :
                               client[e].pc = "save" /\ client[e].plan = ledger'[y].plan
                                 => client[e].row.txn = y
        BY <2>2 DEF Carried, Exists
      <3>1. y # x /\ ledger'[y] = ledger[y]
        BY <2>1
      <3>2. row[ledger[y].plan] # None => row[ledger[y].plan].txn = y
        BY <3>1 DEF BookingInv, Carried, Exists
      <3>3. row'[ledger[y].plan] # None => row'[ledger[y].plan].txn = y
        BY <2>2, <2>3, <3>1, <3>2 DEF LinkCleared
      <3> QED
        BY <3>1, <3>3 DEF BookingInv, Carried
    <2>6. OneLiveBooking'
      <3>1. \A y \in Txns : ledger'[y].plan = ledger[y].plan
                            /\ (ledger'[y].state = "live" => ledger[y].state = "live")
        BY <2>1
      <3> QED
        BY <2>2, <3>1 DEF BookingInv, OneLiveBooking, BookingsOf
    <2> QED
      BY <2>4, <2>5, <2>6 DEF BookingInv
  <1>3. (\E w \in Workers : \/ Skip(w) \/ Start(w) \/ AlreadyBooked(w) \/ Retry(w)
                            \/ GiveUp(w) \/ WorkerCrash(w))
        \/ (\E w, v \in Workers : Redeliver(w, v)) \/ SetArchived
          => UNCHANGED <<born, row, ledger, client, overtaken, overwritten>>
    BY DEF Skip, Start, AlreadyBooked, Retry, GiveUp, WorkerCrash, Redeliver, SetArchived
  <1> QED
    BY <1>1, <1>2, <1>3

\* Whatever requests, tasks, retries, duplicate messages, crashes and deletions
\* interleave, a plan has one live transaction at most, unless a request saved a row
\* that it read before the plan was booked.
THEOREM OneLive == Spec => []OneLiveBooking
  <1>1. Init => BookingInv
    <2> SUFFICES ASSUME Init PROVE BookingInv
      OBVIOUS
    <2>1. /\ \A c \in Clients : client[c].pc = "idle"
          /\ \A x \in Txns : ledger[x].state = "unused" /\ ledger[x].plan = None
          /\ \A p \in Plans : row[p] = None
      BY DEF Init, Idle, Unused
    <2>2. Known /\ Carried /\ OneLiveBooking
      BY <2>1, ConstantsAssumption DEF Known, Carried, OneLiveBooking, BookingsOf, Exists
    <2> QED
      BY <2>2, InitType DEF BookingInv
  <1>2. BookingInv /\ [Next]_vars => BookingInv'
    <2> SUFFICES ASSUME BookingInv, [Next]_vars PROVE BookingInv'
      OBVIOUS
    <2>1. TypeInv'
      BY NextKeepsType DEF BookingInv
    <2>2. CASE UNCHANGED vars
      <3>1. UNCHANGED <<born, row, ledger, client, overtaken, overwritten>>
        BY <2>2 DEF vars
      <3>2. Known'
        BY <3>1, KnownFrame DEF BookingInv
      <3> QED
        BY <2>1, <3>1, <3>2, BookingFrame
    <2>3. CASE Next
      BY <2>1, <2>3, RequestKeepsBooking, RequestStepKeepsBooking, BookKeepsBooking,
         OtherStepsKeepBooking DEF Next, TaskStep
    <2> QED
      BY <2>2, <2>3
  <1>3. BookingInv => OneLiveBooking
    BY DEF BookingInv
  <1> QED
    BY <1>1, <1>2, <1>3, PTL DEF Spec

-----------------------------------------------------------------------------
(* One request in flight at a time, and no message delivered twice.        *)

OneAtATime ==
  /\ \A c, e \in Clients : c = e
  /\ "redeliver" \notin Environment

\* The plan has been executed, or is gone.
Settled(p) == p \in born /\ (Exists(p) => row[p].status = "done")

\* Its booking is still ahead.
Ahead(p) == Settled(p) /\ \A x \in Txns : ledger[x].plan # p

\* No two messages or tasks are about one plan.
OneTask ==
  \A w, v \in Workers :
    worker[w].pc # "free" /\ worker[v].pc # "free" /\ worker[w].plan = worker[v].plan
      => w = v

\* The right to book a plan is in a message, in a task or with the request
\* about to send it, never in two of them and never once it was used.
TasksAhead ==
  \A w \in Workers : worker[w].pc # "free" =>
    /\ Ahead(worker[w].plan)
    /\ \A c \in Clients : client[c].pc = "dispatch" => client[c].plan # worker[w].plan

DispatchAhead ==
  \A c \in Clients : client[c].pc = "dispatch" => Ahead(client[c].plan)

\* Only executed plans were booked; and ids are not reused.
BookedSettled ==
  /\ \A x \in Txns : ledger[x].plan # None => Settled(ledger[x].plan)
  /\ \A p \in Plans : Exists(p) => p \in born

\* What the request is about to write was decided on a status that is still
\* the plan's.
SaveFresh ==
  \A c \in Clients : client[c].pc = "save" =>
    /\ Exists(client[c].plan)
    /\ client[c].sends => /\ row[client[c].plan].status # "done"
                          /\ client[c].row.status = "done"
    /\ ~client[c].sends =>
         (client[c].row.status = "done" <=> row[client[c].plan].status = "done")

OnceInv ==
  /\ TypeInv /\ OneTask /\ TasksAhead /\ DispatchAhead
  /\ BookedSettled /\ SaveFresh /\ AtMostOneBooking

-----------------------------------------------------------------------------
\* A step that books nothing, executes nothing and starts no save or task.
LEMMA OnceFrame ==
  ASSUME OnceInv, TypeInv', born' = born,
         \A p \in Plans : /\ row'[p] # None <=> row[p] # None
                          /\ row[p] # None => row'[p].status = row[p].status,
         \A x \in Txns : ledger'[x].plan = ledger[x].plan,
         \A w \in Workers : worker'[w].pc # "free" =>
           worker[w].pc # "free" /\ worker'[w].plan = worker[w].plan,
         \A c \in Clients : client'[c].pc \in {"save", "dispatch"} => client'[c] = client[c]
  PROVE  OnceInv'
  <1>1. \A p \in Plans : /\ Exists(p)' <=> Exists(p)
                         /\ Settled(p) <=> Settled(p)'
                         /\ Ahead(p) <=> Ahead(p)'
    BY DEF Exists, Settled, Ahead
  <1>2. /\ \A c \in Clients : client'[c].pc # "idle" => client'[c].plan \in Plans
        /\ \A w \in Workers : worker'[w].pc # "free" => worker'[w].plan \in Plans
        /\ \A x \in Txns : ledger[x].plan \in Plans \cup {None}
    BY DEF OnceInv, TypeInv, TypeOK, Shape, Booking
  <1>3. OneTask'
    BY DEF OnceInv, OneTask
  <1>4. TasksAhead'
    BY <1>1, <1>2 DEF OnceInv, TasksAhead
  <1>5. DispatchAhead'
    BY <1>1, <1>2 DEF OnceInv, DispatchAhead
  <1>6. BookedSettled'
    BY <1>1, <1>2 DEF OnceInv, BookedSettled
  <1>7. SaveFresh'
    <2> SUFFICES ASSUME NEW c \in Clients, client'[c].pc = "save"
                 PROVE  /\ row'[client'[c].plan] # None
                        /\ client'[c].sends => /\ row'[client'[c].plan].status # "done"
                                               /\ client'[c].row.status = "done"
                        /\ ~client'[c].sends =>
                             (client'[c].row.status = "done"
                                <=> row'[client'[c].plan].status = "done")
      BY DEF SaveFresh, Exists
    <2>1. client'[c] = client[c] /\ client[c].pc = "save" /\ client[c].plan \in Plans
      BY <1>2
    <2> QED
      BY <2>1, <1>1 DEF OnceInv, SaveFresh, Exists
  <1>8. AtMostOneBooking'
    BY DEF OnceInv, AtMostOneBooking, BookingsOf
  <1> QED
    BY <1>3, <1>4, <1>5, <1>6, <1>7, <1>8 DEF OnceInv

LEMMA QuietStepsKeepOnce ==
  ASSUME OneAtATime, OnceInv, TypeInv',
         \/ \E c \in Clients, p \in Plans : BeginDelete(c, p)
         \/ \E c \in Clients : SaveFails(c) \/ ClientCrash(c)
         \/ \E w \in Workers : \/ Skip(w) \/ Start(w) \/ AlreadyBooked(w)
                               \/ Retry(w) \/ GiveUp(w) \/ WorkerCrash(w)
         \/ \E w, v \in Workers : Redeliver(w, v)
         \/ SetArchived
         \/ \E x \in Txns : DeleteTransaction(x)
  PROVE  OnceInv'
  <1>0. /\ client \in [Clients -> Client] /\ worker \in [Workers -> Worker]
        /\ row \in [Plans -> Row \cup {None}] /\ ledger \in [Txns -> Booking]
    BY DEF OnceInv, TypeInv, TypeOK
  <1>1. ASSUME NEW c \in Clients, NEW p \in Plans, BeginDelete(c, p)
        PROVE  OnceInv'
    <2>1. \A e \in Clients : client'[e].pc \in {"save", "dispatch"} => client'[e] = client[e]
      BY <1>0, <1>1 DEF BeginDelete, Prepare
    <2> QED
      BY <1>1, <2>1, OnceFrame DEF BeginDelete
  <1>2. ASSUME NEW c \in Clients, SaveFails(c) \/ ClientCrash(c)
        PROVE  OnceInv'
    <2>1. \A e \in Clients : client'[e].pc \in {"save", "dispatch"} => client'[e] = client[e]
      BY <1>0, <1>2 DEF SaveFails, ClientCrash, Idle
    <2> QED
      BY <1>2, <2>1, OnceFrame DEF SaveFails, ClientCrash
  <1>3. ASSUME NEW w \in Workers,
               \/ Skip(w) \/ Start(w) \/ AlreadyBooked(w)
               \/ Retry(w) \/ GiveUp(w) \/ WorkerCrash(w)
        PROVE  OnceInv'
    <2>1. worker[w].pc # "free" /\ worker[w] \in Worker
      BY <1>0, <1>3 DEF Skip, Start, AlreadyBooked, Retry, GiveUp, Raises, WorkerCrash
    <2>2. CASE Release(w)
      <3>1. \A v \in Workers : worker'[v].pc # "free" =>
              worker[v].pc # "free" /\ worker'[v].plan = worker[v].plan
        BY <1>0, <2>2 DEF Release, Free
      <3>2. UNCHANGED <<born, row, ledger, client>>
        BY <1>3 DEF Skip, Start, AlreadyBooked, Retry, GiveUp, WorkerCrash
      <3> QED
        BY <3>1, <3>2, OnceFrame
    <2>3. CASE Start(w)
      <3>1. \A v \in Workers : worker'[v].plan = worker[v].plan
                               /\ (worker'[v].pc # "free" => worker[v].pc # "free")
        BY <1>0, <2>1, <2>3 DEF Start, Worker
      <3> QED
        BY <2>3, <3>1, OnceFrame DEF Start
    <2>4. CASE Retry(w)
      <3>1. \A v \in Workers : worker'[v].plan = worker[v].plan
                               /\ (worker'[v].pc # "free" => worker[v].pc # "free")
        BY <1>0, <2>1, <2>4 DEF Retry, Worker
      <3> QED
        BY <2>4, <3>1, OnceFrame DEF Retry
    <2> QED
      BY <1>3, <2>2, <2>3, <2>4 DEF Skip, AlreadyBooked, GiveUp, WorkerCrash
  <1>4. ASSUME NEW w \in Workers, NEW v \in Workers, Redeliver(w, v)
        PROVE  OnceInv'
    BY <1>4 DEF Redeliver, OneAtATime
  <1>5. CASE SetArchived
    BY <1>5, OnceFrame DEF SetArchived
  <1>6. ASSUME NEW x \in Txns, DeleteTransaction(x)
        PROVE  OnceInv'
    <2>1. \A y \in Txns : ledger'[y].plan = ledger[y].plan
      BY <1>0, <1>6 DEF DeleteTransaction, Booking
    <2>2. \A p \in Plans : /\ row'[p] # None <=> row[p] # None
                           /\ row[p] # None => row'[p].status = row[p].status
      <3> SUFFICES ASSUME NEW p \in Plans
                   PROVE  /\ row'[p] # None <=> row[p] # None
                          /\ row[p] # None => row'[p].status = row[p].status
        OBVIOUS
      <3>1. row'[p] = LinkCleared(row[p], x)
        BY <1>6 DEF DeleteTransaction
      <3>2. CASE row[p] # None /\ row[p].txn = x
        <4>1. row'[p] = [row[p] EXCEPT !.txn = None]
          BY <3>1, <3>2 DEF LinkCleared
        <4>2. row[p] \in Row
          BY <1>0, <3>2
        <4>3. row'[p] \in Row /\ row'[p].status = row[p].status
          BY <4>1, <4>2 DEF Row
        <4> QED
          BY <3>2, <4>3, NullAssumption
      <3>3. CASE ~(row[p] # None /\ row[p].txn = x)
        BY <3>1, <3>3 DEF LinkCleared
      <3> QED
        BY <3>2, <3>3
    <2> QED
      BY <1>6, <2>1, <2>2, OnceFrame DEF DeleteTransaction
  <1> QED
    BY <1>1, <1>2, <1>3, <1>4, <1>5, <1>6

\* The unlocked read: with no other request in flight it stays true.
LEMMA ReadsKeepOnce ==
  ASSUME OneAtATime, OnceInv, TypeInv', NEW c \in Clients, NEW p \in Plans,
         BeginExecute(c, p) \/ BeginUpdate(c, p)
  PROVE  OnceInv'
  <1>0. client \in [Clients -> Client] /\ row[p] \in Row /\ UNCHANGED <<born, row, ledger, worker>>
    BY DEF OnceInv, TypeInv, TypeOK, BeginExecute, BeginUpdate, Exists
  <1>1. PICK r, b : /\ client' = [client EXCEPT ![c] =
                                    [pc |-> "save", plan |-> p, row |-> r, sends |-> b]]
                    /\ b => r.status = "done" /\ row[p].status # "done"
                    /\ ~b => (r.status = "done" <=> row[p].status = "done")
    <2>1. CASE BeginExecute(c, p)
      <3>1. PICK d \in Dates \cup {None}, a \in Amounts \cup {None} :
              Prepare(c, "save", p, Executed(row[p], d, a), TRUE)
        BY <2>1 DEF BeginExecute
      <3>2. Executed(row[p], d, a).status = "done" /\ row[p].status # "done"
        BY <1>0, <2>1 DEF Executed, Row, BeginExecute
      <3> QED
        BY <3>1, <3>2 DEF Prepare
    <2>2. CASE BeginUpdate(c, p)
      <3>1. PICK a \in Amounts, d \in Dates, s \in Status :
              /\ StatusAllowed(row[p], s)
              /\ Prepare(c, "save", p, Edited(row[p], a, d, s), Executes(row[p], s))
        BY <2>2 DEF BeginUpdate
      <3>2. Edited(row[p], a, d, s).status = s
        BY <1>0 DEF Edited, Row
      <3> QED
        BY <3>1, <3>2 DEF Prepare, StatusAllowed, Executes
    <2> QED
      BY <2>1, <2>2
  <1>2. client'[c] = [pc |-> "save", plan |-> p, row |-> r, sends |-> b]
    BY <1>0, <1>1
  <1>3. \A e \in Clients : e = c
    BY DEF OneAtATime
  <1>4. Exists(p)
    BY DEF BeginExecute, BeginUpdate
  <1>5. OneTask' /\ BookedSettled' /\ AtMostOneBooking'
    BY <1>0 DEF OnceInv, OneTask, BookedSettled, Settled, Exists, AtMostOneBooking, BookingsOf
  <1>6. TasksAhead'
    BY <1>0, <1>2, <1>3 DEF OnceInv, TasksAhead, Ahead, Settled, Exists
  <1>7. DispatchAhead'
    BY <1>2, <1>3 DEF DispatchAhead
  <1>8. SaveFresh'
    BY <1>0, <1>1, <1>2, <1>3, <1>4 DEF SaveFresh, Exists
  <1> QED
    BY <1>5, <1>6, <1>7, <1>8 DEF OnceInv

\* Creating a plan: its id was never used, so nothing was booked for it.
LEMMA CreateKeepsOnce ==
  ASSUME OneAtATime, OnceInv, TypeInv', NEW c \in Clients, NEW p \in Plans, Create(c, p)
  PROVE  OnceInv'
  <1>0. /\ client \in [Clients -> Client] /\ row \in [Plans -> Row \cup {None}]
        /\ \A e \in Clients : e = c
        /\ client[c].pc = "idle" /\ p \notin born
        /\ born' = born \cup {p} /\ UNCHANGED <<ledger, worker>>
    BY DEF OnceInv, TypeInv, TypeOK, OneAtATime, Create
  <1>1. PICK a \in Amounts, d \in Dates, s \in Status :
          /\ row' = [row EXCEPT ![p] = NewRow(a, d, s)]
          /\ IF s = "done" THEN Prepare(c, "dispatch", p, None, TRUE) ELSE UNCHANGED client
    BY DEF Create
  <1>2. row'[p] = NewRow(a, d, s) /\ \A q \in Plans : q # p => row'[q] = row[q]
    BY <1>0, <1>1
  <1>3. NewRow(a, d, s).status = s
    BY DEF NewRow
  <1>4. \A q \in Plans : q # p =>
          /\ Exists(q)' <=> Exists(q)
          /\ Settled(q) <=> Settled(q)'
          /\ Ahead(q) <=> Ahead(q)'
    BY <1>0, <1>2 DEF Exists, Settled, Ahead
  <1>5. \A x \in Txns : ledger[x].plan # p
    BY <1>0, ConstantsAssumption DEF OnceInv, BookedSettled, Settled
  <1>6. \A w \in Workers : worker[w].pc # "free" => worker[w].plan # p /\ worker[w].plan \in Plans
    BY <1>0 DEF OnceInv, TasksAhead, Ahead, Settled, TypeInv, Shape
  <1>7. CASE s = "done"
    <2>1. client'[c].pc = "dispatch" /\ client'[c].plan = p
      BY <1>0, <1>1, <1>7 DEF Prepare
    <2>2. Ahead(p)'
      BY <1>0, <1>2, <1>3, <1>5, <1>7 DEF Ahead, Settled
    <2>3. TasksAhead'
      BY <1>0, <1>4, <1>6, <2>1 DEF OnceInv, TasksAhead
    <2>4. DispatchAhead' /\ SaveFresh'
      BY <1>0, <2>1, <2>2 DEF DispatchAhead, SaveFresh
    <2> QED
      BY <1>0, <1>4, <1>5, <2>3, <2>4
         DEF OnceInv, OneTask, BookedSettled, AtMostOneBooking, BookingsOf,
             TypeInv, TypeOK, Booking, Exists
  <1>8. CASE s # "done"
    <2>1. client' = client
      BY <1>1, <1>8
    <2>2. TasksAhead'
      BY <1>0, <1>4, <1>6, <2>1 DEF OnceInv, TasksAhead
    <2>3. DispatchAhead' /\ SaveFresh'
      BY <1>0, <2>1 DEF DispatchAhead, SaveFresh
    <2> QED
      BY <1>0, <1>4, <1>5, <2>2, <2>3
         DEF OnceInv, OneTask, BookedSettled, AtMostOneBooking, BookingsOf,
             TypeInv, TypeOK, Booking, Exists
  <1> QED
    BY <1>7, <1>8

\* The commit.  A save that executes turns an open plan into a done one, for
\* which nothing can have been booked or sent; any other save leaves the
\* plan as done, or as open, as it was.
LEMMA SaveKeepsOnce ==
  ASSUME OneAtATime, OnceInv, TypeInv', NEW c \in Clients, Save(c)
  PROVE  OnceInv'
  <1>a. client[c].plan \in Plans /\ client[c].row \in Row
    BY DEF OnceInv, TypeInv, Shape, Save
  <1>b. PICK p \in Plans, r \in Row : client[c].plan = p /\ client[c].row = r
    BY <1>a
  <1>0. /\ client \in [Clients -> Client] /\ row \in [Plans -> Row \cup {None}]
        /\ ledger \in [Txns -> Booking]
        /\ client[c].pc = "save" /\ client[c].plan = p /\ client[c].row = r
        /\ \A e \in Clients : e = c
        /\ row' = [row EXCEPT ![p] = r] /\ Finish(c) /\ UNCHANGED <<born, worker>>
    BY <1>b DEF OnceInv, TypeInv, TypeOK, Shape, OneAtATime, Save
  <1>1. \A x \in Txns : ledger'[x].plan = ledger[x].plan
    BY <1>0 DEF Save, Booking
  <1>2. \A q \in Plans : row'[q] = IF q = p THEN r ELSE row[q]
    BY <1>0
  <1>3. Exists(p) /\ p \in born /\ r # None
    BY <1>0, NullAssumption DEF OnceInv, SaveFresh, BookedSettled
  <1>4. CASE client[c].sends
    <2>1. client'[c].pc = "dispatch" /\ client'[c].plan = p
      BY <1>0, <1>4 DEF Finish, Client
    <2>2. row[p].status # "done" /\ r.status = "done"
      BY <1>0, <1>4 DEF OnceInv, SaveFresh
    <2>3. ~Settled(p)
      BY <1>3, <2>2 DEF Settled
    <2>4. \A x \in Txns : ledger[x].plan # p
      BY <1>0, <2>3, ConstantsAssumption DEF OnceInv, BookedSettled
    <2>5. \A w \in Workers : worker[w].pc # "free" => worker[w].plan # p /\ worker[w].plan \in Plans
      BY <1>0, <2>3 DEF OnceInv, TasksAhead, Ahead, TypeInv, Shape
    <2>6. \A q \in Plans : q # p => /\ Exists(q)' <=> Exists(q)
                                    /\ Settled(q) <=> Settled(q)'
                                    /\ Ahead(q) <=> Ahead(q)'
      BY <1>0, <1>1, <1>2 DEF Exists, Settled, Ahead
    <2>7. Ahead(p)'
      BY <1>0, <1>1, <1>2, <1>3, <2>2, <2>4 DEF Ahead, Settled
    <2>8. TasksAhead'
      BY <1>0, <2>1, <2>5, <2>6 DEF OnceInv, TasksAhead
    <2>9. DispatchAhead' /\ SaveFresh'
      BY <1>0, <2>1, <2>7 DEF DispatchAhead, SaveFresh
    <2>10. BookedSettled'
      BY <1>0, <1>1, <1>3, <2>4, <2>6 DEF OnceInv, BookedSettled, Booking
    <2> QED
      BY <1>0, <1>1, <2>8, <2>9, <2>10 DEF OnceInv, OneTask, AtMostOneBooking, BookingsOf
  <1>5. CASE ~client[c].sends
    <2>1. \A e \in Clients : client'[e].pc = "idle"
      BY <1>0, <1>5 DEF Finish, Idle
    <2>2. r.status = "done" <=> row[p].status = "done"
      BY <1>0, <1>5 DEF OnceInv, SaveFresh
    <2>3. \A q \in Plans : /\ Exists(q)' <=> Exists(q)
                           /\ Settled(q) <=> Settled(q)'
                           /\ Ahead(q) <=> Ahead(q)'
      BY <1>0, <1>1, <1>2, <1>3, <2>2 DEF Exists, Settled, Ahead
    <2>4. TasksAhead' /\ DispatchAhead' /\ SaveFresh'
      BY <1>0, <2>1, <2>3
         DEF OnceInv, TasksAhead, DispatchAhead, SaveFresh, TypeInv, Shape
    <2>5. BookedSettled'
      BY <1>0, <1>1, <2>3 DEF OnceInv, BookedSettled, Booking
    <2> QED
      BY <1>0, <1>1, <2>4, <2>5 DEF OnceInv, OneTask, AtMostOneBooking, BookingsOf
  <1> QED
    BY <1>4, <1>5

LEMMA RemoveKeepsOnce ==
  ASSUME OneAtATime, OnceInv, TypeInv', NEW c \in Clients, Remove(c)
  PROVE  OnceInv'
  <1>0. /\ client \in [Clients -> Client] /\ row \in [Plans -> Row \cup {None}]
        /\ ledger \in [Txns -> Booking] /\ client[c].plan \in Plans
        /\ row' = [row EXCEPT ![client[c].plan] = None]
        /\ client' = [client EXCEPT ![c] = Idle]
        /\ UNCHANGED <<born, ledger, worker>>
        /\ \A e \in Clients : e = c
    BY DEF OnceInv, TypeInv, TypeOK, Shape, OneAtATime, Remove
  <1>1. \A e \in Clients : client'[e].pc = "idle"
    BY <1>0 DEF Idle
  <1>2. \A q \in Plans : /\ Exists(q)' => Exists(q)
                         /\ Settled(q) => Settled(q)'
                         /\ Ahead(q) => Ahead(q)'
    BY <1>0 DEF Exists, Settled, Ahead
  <1>3. TasksAhead' /\ DispatchAhead' /\ SaveFresh'
    BY <1>0, <1>1, <1>2 DEF OnceInv, TasksAhead, DispatchAhead, SaveFresh, TypeInv, Shape
  <1>4. BookedSettled'
    BY <1>0, <1>2 DEF OnceInv, BookedSettled, Booking
  <1> QED
    BY <1>0, <1>3, <1>4 DEF OnceInv, OneTask, AtMostOneBooking, BookingsOf

\* The right to book passes from the request to the message.
LEMMA DispatchKeepsOnce ==
  ASSUME OneAtATime, OnceInv, TypeInv', NEW c \in Clients, NEW w \in Workers, Dispatch(c, w)
  PROVE  OnceInv'
  <1> DEFINE p == client[c].plan
  <1>0. /\ client \in [Clients -> Client] /\ worker \in [Workers -> Worker]
        /\ client[c].pc = "dispatch" /\ p \in Plans
        /\ worker' = [worker EXCEPT ![w] = [Free EXCEPT !.pc = "queued", !.plan = p]]
        /\ client' = [client EXCEPT ![c] = Idle]
        /\ UNCHANGED <<born, row, ledger>>
        /\ \A e \in Clients : e = c
    BY DEF OnceInv, TypeInv, TypeOK, Shape, OneAtATime, Dispatch
  <1>1. \A e \in Clients : client'[e].pc = "idle"
    BY <1>0 DEF Idle
  <1>2. /\ worker'[w].plan = p
        /\ \A v \in Workers : v # w => worker'[v] = worker[v]
    BY <1>0 DEF Free
  <1>3. \A q \in Plans : Settled(q)' <=> Settled(q)
    BY <1>0 DEF Exists, Settled
  <1>4. Ahead(p)
    BY <1>0 DEF OnceInv, DispatchAhead
  <1>5. \A v \in Workers : worker[v].pc # "free" => worker[v].plan # p
    BY <1>0 DEF OnceInv, TasksAhead
  <1>6. OneTask'
    BY <1>2, <1>5 DEF OnceInv, OneTask
  <1>7. \A q \in Plans : Ahead(q)' <=> Ahead(q)
    BY <1>0 DEF Ahead, Settled, Exists
  <1>8. TasksAhead'
    <2> SUFFICES ASSUME NEW v \in Workers, worker'[v].pc # "free"
                 PROVE  worker'[v].plan \in Plans /\ Ahead(worker'[v].plan)
      BY <1>0, <1>1, <1>7 DEF TasksAhead, Ahead, Settled, Exists
    <2>1. CASE v = w
      BY <1>0, <1>2, <1>4, <2>1
    <2>2. CASE v # w
      BY <1>2, <2>2 DEF OnceInv, TasksAhead, TypeInv, Shape
    <2> QED
      BY <2>1, <2>2
  <1>9. DispatchAhead' /\ SaveFresh'
    BY <1>1 DEF DispatchAhead, SaveFresh
  <1>10. BookedSettled' /\ AtMostOneBooking'
    BY <1>0 DEF OnceInv, BookedSettled, Settled, Exists, AtMostOneBooking, BookingsOf
  <1> QED
    BY <1>6, <1>8, <1>9, <1>10 DEF OnceInv

\* The right to book is used, and was the only one.
LEMMA BookKeepsOnce ==
  ASSUME OneAtATime, OnceInv, TypeInv', NEW w \in Workers, Book(w)
  PROVE  OnceInv'
  <1> DEFINE p == worker[w].plan
  <1>0. /\ worker \in [Workers -> Worker] /\ row \in [Plans -> Row \cup {None}]
        /\ ledger \in [Txns -> Booking]
        /\ worker[w].pc # "free" /\ p \in Plans /\ row[p] \in Row /\ Exists(p)
        /\ worker' = [worker EXCEPT ![w] = Free] /\ UNCHANGED <<born, client>>
    BY DEF OnceInv, TypeInv, TypeOK, Shape, Book, LockedUnlinked, Unlinked, Exists, Release
  <1>1. PICK x \in Txns :
          /\ ledger' = [ledger EXCEPT ![x] =
                     [state |-> "live", plan |-> p,
                      amount |-> EffectiveAmount(row[p]), date |-> worker[w].date]]
          /\ row' = [row EXCEPT ![p].txn = x]
    BY DEF Book
  <1>2. /\ ledger'[x].plan = p
        /\ \A y \in Txns : y # x => ledger'[y] = ledger[y]
    BY <1>0, <1>1
  <1>3. \A q \in Plans : /\ row'[q] # None <=> row[q] # None
                         /\ row'[q].status = row[q].status
    BY <1>0, <1>1, NullAssumption DEF Row, Exists
  <1>4. Ahead(p) /\ Settled(p)
    BY <1>0 DEF OnceInv, TasksAhead, Ahead
  <1>5. \A q \in Plans : Settled(q)' <=> Settled(q)
    BY <1>0, <1>3 DEF Settled, Exists
  <1>6. \A q \in Plans : q # p => (Ahead(q) => Ahead(q)')
    BY <1>0, <1>2, <1>5 DEF Ahead
  <1>7. \A v \in Workers : worker'[v].pc # "free" =>
          worker'[v] = worker[v] /\ worker[v].plan # p /\ worker[v].plan \in Plans
    BY <1>0 DEF OnceInv, OneTask, Free, TypeInv, Shape
  <1>8. OneTask'
    BY <1>7 DEF OnceInv, OneTask
  <1>9. TasksAhead'
    BY <1>0, <1>6, <1>7 DEF OnceInv, TasksAhead
  <1>10. DispatchAhead'
    BY <1>0, <1>6 DEF OnceInv, TasksAhead, DispatchAhead, TypeInv, Shape
  <1>11. BookedSettled'
    BY <1>0, <1>2, <1>3, <1>4, <1>5 DEF OnceInv, BookedSettled, Booking, Exists
  <1>12. SaveFresh'
    BY <1>0, <1>3 DEF OnceInv, SaveFresh, Exists, TypeInv, Shape
  <1>13. AtMostOneBooking'
    BY <1>2, <1>4 DEF OnceInv, AtMostOneBooking, BookingsOf, Ahead
  <1> QED
    BY <1>8, <1>9, <1>10, <1>11, <1>12, <1>13 DEF OnceInv

LEMMA InitOnce == Init => OnceInv
  <1> SUFFICES ASSUME Init PROVE OnceInv
    OBVIOUS
  <1>1. /\ \A c \in Clients : client[c].pc = "idle"
        /\ \A w \in Workers : worker[w].pc = "free"
        /\ \A x \in Txns : ledger[x].plan = None
        /\ \A p \in Plans : row[p] = None
    BY DEF Init, Idle, Free, Unused
  <1> QED
    BY <1>1, InitType, ConstantsAssumption
       DEF OnceInv, OneTask, TasksAhead, DispatchAhead, BookedSettled, SaveFresh,
           AtMostOneBooking, BookingsOf, Exists

LEMMA NextKeepsOnce ==
  ASSUME OneAtATime, OnceInv, [Next]_vars
  PROVE  OnceInv'
  <1>1. TypeInv'
    BY NextKeepsType DEF OnceInv
  <1>2. CASE UNCHANGED vars
    BY <1>1, <1>2, OnceFrame DEF vars
  <1>3. CASE Next
    BY <1>1, <1>3, QuietStepsKeepOnce, ReadsKeepOnce, CreateKeepsOnce, SaveKeepsOnce,
       RemoveKeepsOnce, DispatchKeepsOnce, BookKeepsOnce DEF Next, RequestStep, TaskStep
  <1> QED
    BY <1>2, <1>3

\* Where requests are served one at a time and messages are delivered once, a
\* plan is booked at most once, through crashes, retries, edits and deletions.
THEOREM BookedOnce ==
  ASSUME OneAtATime
  PROVE  Spec => []AtMostOneBooking
  <1>1. OnceInv /\ [Next]_vars => OnceInv'
    BY NextKeepsOnce
  <1>2. OnceInv => AtMostOneBooking
    BY DEF OnceInv
  <1> QED
    BY <1>1, <1>2, InitOnce, PTL DEF Spec

-----------------------------------------------------------------------------
(* Where requests are served one at a time and messages are delivered      *)
(* once, plans settle as Settlement says.                                  *)

\* A transaction id that was not used yet belongs to no plan.
UnusedUnowned == \A x \in Txns : ledger[x].state = "unused" => ledger[x].plan = None

SettleInv == OnceInv /\ UnusedUnowned

\* A step that accepts, executes, books and deletes no plan is a stutter.
LEMMA SettleFrame ==
  ASSUME born' = born,
         \A p \in Plans : /\ row'[p] # None <=> row[p] # None
                          /\ row[p] # None => row'[p].status = row[p].status,
         \A x \in Txns : ledger'[x].plan = ledger[x].plan
  PROVE  UNCHANGED Settling!settlement
  BY DEF Settling!settlement, Exists, IsDone, BookingsOf

\* Requests that read or fail, tasks that do not book, and the environment.
Quiet ==
  \/ \E c \in Clients, p \in Plans :
       BeginExecute(c, p) \/ BeginUpdate(c, p) \/ BeginDelete(c, p)
  \/ \E c \in Clients :
       SaveFails(c) \/ ClientCrash(c) \/ \E w \in Workers : Dispatch(c, w)
  \/ \E w \in Workers : \/ Skip(w) \/ Start(w) \/ AlreadyBooked(w)
                        \/ Retry(w) \/ GiveUp(w) \/ WorkerCrash(w)
  \/ \E w, v \in Workers : Redeliver(w, v)
  \/ SetArchived

LEMMA QuietStepsStutter ==
  ASSUME SettleInv, Quiet
  PROVE  UnusedUnowned' /\ UNCHANGED Settling!settlement
  <1>1. ASSUME NEW c \in Clients, NEW p \in Plans,
               BeginExecute(c, p) \/ BeginUpdate(c, p) \/ BeginDelete(c, p)
        PROVE  UNCHANGED <<born, row, ledger>>
    BY <1>1 DEF BeginExecute, BeginUpdate, BeginDelete
  <1>2. ASSUME NEW c \in Clients,
               SaveFails(c) \/ ClientCrash(c) \/ \E w \in Workers : Dispatch(c, w)
        PROVE  UNCHANGED <<born, row, ledger>>
    BY <1>2 DEF SaveFails, ClientCrash, Dispatch
  <1>3. ASSUME NEW w \in Workers,
               \/ Skip(w) \/ Start(w) \/ AlreadyBooked(w)
               \/ Retry(w) \/ GiveUp(w) \/ WorkerCrash(w)
        PROVE  UNCHANGED <<born, row, ledger>>
    BY <1>3 DEF Skip, Start, AlreadyBooked, Retry, GiveUp, WorkerCrash
  <1>4. ASSUME \/ \E w, v \in Workers : Redeliver(w, v)
               \/ SetArchived
        PROVE  UNCHANGED <<born, row, ledger>>
    BY <1>4 DEF Redeliver, SetArchived
  <1>5. UNCHANGED <<born, row, ledger>>
    BY <1>1, <1>2, <1>3, <1>4 DEF Quiet
  <1> QED
    BY <1>5, SettleFrame DEF SettleInv, UnusedUnowned

LEMMA CreateSettles ==
  ASSUME SettleInv, NEW c \in Clients, NEW p \in Plans, Create(c, p)
  PROVE  UnusedUnowned' /\ Settling!Accept(p)
  <1>0. /\ row \in [Plans -> Row \cup {None}] /\ UNCHANGED ledger
        /\ p \notin born /\ born' = born \cup {p} /\ row[p] = None
    BY DEF SettleInv, OnceInv, TypeInv, TypeOK, BookedSettled, Exists, Create
  <1>1. PICK a \in Amounts, d \in Dates, s \in Status : row' = [row EXCEPT ![p] = NewRow(a, d, s)]
    BY DEF Create
  <1>2. /\ row'[p] # None /\ row'[p].status = s
        /\ \A q \in Plans : q # p => row'[q] = row[q]
    <2>1. NewRow(a, d, s) \in Row /\ NewRow(a, d, s).status = s
      BY DEF NewRow, Row
    <2> QED
      BY <1>0, <1>1, <2>1, NullAssumption
  <1>3. CASE s = "done"
    BY <1>0, <1>2, <1>3 DEF SettleInv, UnusedUnowned, Settling!Accept, Exists, IsDone, BookingsOf
  <1>4. CASE s # "done"
    BY <1>0, <1>2, <1>4 DEF SettleInv, UnusedUnowned, Settling!Accept, Exists, IsDone, BookingsOf
  <1> QED
    BY <1>3, <1>4

\* A commit executes an open plan, for which nothing was booked, or keeps the status.
LEMMA SaveSettles ==
  ASSUME SettleInv, NEW c \in Clients, Save(c)
  PROVE  /\ UnusedUnowned'
         /\ \/ Settling!Execute(client[c].plan)
            \/ UNCHANGED Settling!settlement
  <1>a. client[c].plan \in Plans /\ client[c].row \in Row
    BY DEF SettleInv, OnceInv, TypeInv, Shape, Save
  <1>b. PICK p \in Plans, r \in Row : client[c].plan = p /\ client[c].row = r
    BY <1>a
  <1>0. /\ row \in [Plans -> Row \cup {None}] /\ ledger \in [Txns -> Booking]
        /\ client[c].pc = "save" /\ client[c].plan = p /\ client[c].row = r
        /\ row' = [row EXCEPT ![p] = r] /\ UNCHANGED born
    BY <1>b DEF SettleInv, OnceInv, TypeInv, TypeOK, Save
  <1>1. \A x \in Txns : ledger'[x].plan = ledger[x].plan /\ ledger'[x].state = ledger[x].state
    BY <1>0 DEF Save, Booking
  <1>2. /\ row[p] # None /\ row'[p] = r /\ r # None
        /\ \A q \in Plans : q # p => row'[q] = row[q]
    BY <1>0, NullAssumption DEF SettleInv, OnceInv, SaveFresh, Exists
  <1>3. UnusedUnowned'
    BY <1>1 DEF SettleInv, UnusedUnowned
  <1>4. CASE client[c].sends
    <2>1. row[p].status # "done" /\ r.status = "done"
      BY <1>0, <1>4 DEF SettleInv, OnceInv, SaveFresh
    <2> QED
      BY <1>0, <1>1, <1>2, <1>3, <2>1 DEF Settling!Execute, Exists, IsDone, BookingsOf
  <1>5. CASE ~client[c].sends
    <2>1. r.status = "done" <=> row[p].status = "done"
      BY <1>0, <1>5 DEF SettleInv, OnceInv, SaveFresh
    <2> QED
      BY <1>0, <1>1, <1>2, <1>3, <2>1 DEF Settling!settlement, Exists, IsDone, BookingsOf
  <1> QED
    BY <1>4, <1>5

LEMMA RemoveSettles ==
  ASSUME SettleInv, NEW c \in Clients, Remove(c)
  PROVE  /\ UnusedUnowned'
         /\ \/ Settling!Drop(client[c].plan)
            \/ UNCHANGED Settling!settlement
  <1>0. /\ row \in [Plans -> Row \cup {None}] /\ client[c].plan \in Plans
        /\ row' = [row EXCEPT ![client[c].plan] = None] /\ UNCHANGED <<born, ledger>>
    BY DEF SettleInv, OnceInv, TypeInv, TypeOK, Shape, Remove
  <1>1. UnusedUnowned'
    BY <1>0 DEF SettleInv, UnusedUnowned
  <1>2. CASE row[client[c].plan] = None
    <2>1. row' = row
      BY <1>0, <1>2
    <2> QED
      BY <1>0, <1>1, <2>1, SettleFrame
  <1>3. CASE row[client[c].plan] # None
    BY <1>0, <1>1, <1>3 DEF Settling!Drop, Exists, IsDone, BookingsOf
  <1> QED
    BY <1>2, <1>3

\* The plan of a task about to book is done and was not booked.
LEMMA BookSettles ==
  ASSUME SettleInv, NEW w \in Workers, Book(w)
  PROVE  UnusedUnowned' /\ \E x \in Txns : Settling!Settle(worker[w].plan, x)
  <1>a. worker[w].plan \in Plans
    BY DEF SettleInv, OnceInv, TypeInv, Shape, Book
  <1>b. PICK p \in Plans : p = worker[w].plan
    BY <1>a
  <1>0. /\ row \in [Plans -> Row \cup {None}] /\ ledger \in [Txns -> Booking]
        /\ row[p] # None /\ row[p] \in Row /\ Ahead(p) /\ UNCHANGED born
    BY <1>b DEF SettleInv, OnceInv, TypeInv, TypeOK, Shape, TasksAhead, Book, LockedUnlinked,
           Unlinked, Exists
  <1>1. PICK x \in Txns :
          /\ ledger[x].state = "unused"
          /\ ledger' = [ledger EXCEPT ![x] =
                     [state |-> "live", plan |-> p,
                      amount |-> EffectiveAmount(row[p]), date |-> worker[w].date]]
          /\ row' = [row EXCEPT ![p].txn = x]
    BY <1>b DEF Book
  <1>2. /\ ledger'[x].plan = p /\ ledger'[x].state = "live"
        /\ \A y \in Txns : y # x => ledger'[y] = ledger[y]
        /\ ledger[x].plan = None
    BY <1>0, <1>1 DEF SettleInv, UnusedUnowned
  <1>3. \A q \in Plans : /\ row'[q] # None <=> row[q] # None
                         /\ row[q] # None => row'[q].status = row[q].status
    BY <1>0, <1>1, NullAssumption DEF Row
  <1>4. UnusedUnowned'
    BY <1>2 DEF SettleInv, UnusedUnowned
  <1>5. /\ IsDone(p) /\ BookingsOf(p) = {}
        /\ \A q \in Plans : x \notin BookingsOf(q)
    BY <1>0, <1>2, ConstantsAssumption DEF Ahead, Settled, IsDone, Exists, BookingsOf
  <1>6. /\ BookingsOf(p)' = {x}
        /\ \A q \in Plans : q # p => BookingsOf(q)' = BookingsOf(q)
    <2>1. None \notin Plans
      BY ConstantsAssumption
    <2>2. \A y \in Txns : ledger'[y].plan = p <=> y = x
      BY <1>2, <1>5 DEF BookingsOf
    <2>3. BookingsOf(p)' = {x}
      BY <2>2 DEF BookingsOf
    <2>4. ASSUME NEW q \in Plans, q # p
          PROVE  BookingsOf(q)' = BookingsOf(q)
      <3>1. \A y \in Txns : ledger'[y].plan = q <=> ledger[y].plan = q
        BY <1>2, <2>1, <2>4
      <3> QED
        BY <3>1 DEF BookingsOf
    <2> QED
      BY <2>3, <2>4
  <1>7. [q \in Plans |-> BookingsOf(q)]' = [[q \in Plans |-> BookingsOf(q)] EXCEPT ![p] = {x}]
    BY <1>0, <1>6 DEF BookingsOf
  <1>8. /\ {q \in Plans : Exists(q) /\ ~IsDone(q)}' = {q \in Plans : Exists(q) /\ ~IsDone(q)}
        /\ {q \in Plans : IsDone(q)}' = {q \in Plans : IsDone(q)}
    BY <1>3 DEF Exists, IsDone
  <1>9. Settling!Settle(p, x)
    BY <1>0, <1>5, <1>7, <1>8 DEF Settling!Settle
  <1> QED
    BY <1>b, <1>4, <1>9

LEMMA DeleteTransactionStutters ==
  ASSUME SettleInv, NEW x \in Txns, DeleteTransaction(x)
  PROVE  UnusedUnowned' /\ UNCHANGED Settling!settlement
  <1>0. row \in [Plans -> Row \cup {None}] /\ ledger \in [Txns -> Booking] /\ UNCHANGED born
    BY DEF SettleInv, OnceInv, TypeInv, TypeOK, DeleteTransaction
  <1>1. \A y \in Txns : /\ ledger'[y].plan = ledger[y].plan
                        /\ ledger'[y].state = "unused" => ledger[y].state = "unused"
    BY <1>0 DEF DeleteTransaction, Booking
  <1>2. ASSUME NEW p \in Plans
        PROVE  /\ row'[p] # None <=> row[p] # None
               /\ row[p] # None => row'[p].status = row[p].status
    <2>1. row'[p] = LinkCleared(row[p], x)
      BY DEF DeleteTransaction
    <2>2. CASE row[p] # None /\ row[p].txn = x
      <3>1. row[p] \in Row /\ row'[p] = [row[p] EXCEPT !.txn = None]
        BY <1>0, <2>1, <2>2 DEF LinkCleared
      <3>2. row'[p] \in Row /\ row'[p].status = row[p].status
        BY <3>1 DEF Row
      <3> QED
        BY <2>2, <3>2, NullAssumption
    <2>3. CASE ~(row[p] # None /\ row[p].txn = x)
      BY <2>1, <2>3 DEF LinkCleared
    <2> QED
      BY <2>2, <2>3
  <1> QED
    BY <1>0, <1>1, <1>2, SettleFrame DEF SettleInv, UnusedUnowned

LEMMA NextSettles ==
  ASSUME SettleInv, [Next]_vars
  PROVE  UnusedUnowned' /\ [Settling!Next]_(Settling!settlement)
  <1>1. CASE UNCHANGED vars
    BY <1>1, SettleFrame DEF SettleInv, UnusedUnowned, vars
  <1>2. ASSUME NEW c \in Clients, Save(c) \/ Remove(c)
        PROVE  UnusedUnowned' /\ [Settling!Next]_(Settling!settlement)
    <2>1. client[c].plan \in Plans
      BY <1>2 DEF SettleInv, OnceInv, TypeInv, Shape, Save, Remove
    <2> QED
      BY <1>2, <2>1, SaveSettles, RemoveSettles DEF Settling!Next
  <1>3. ASSUME NEW w \in Workers, Book(w)
        PROVE  UnusedUnowned' /\ [Settling!Next]_(Settling!settlement)
    <2>1. worker[w].pc = "book" /\ worker[w].plan \in Plans
      BY <1>3 DEF SettleInv, OnceInv, TypeInv, Shape, Book
    <2> QED
      BY <1>3, <2>1, BookSettles DEF Settling!Next
  <1>4. ASSUME NEW c \in Clients, NEW p \in Plans, Create(c, p)
        PROVE  UnusedUnowned' /\ [Settling!Next]_(Settling!settlement)
    BY <1>4, CreateSettles DEF Settling!Next
  <1>5. CASE Next
    BY <1>2, <1>3, <1>4, <1>5, QuietStepsStutter, DeleteTransactionStutters
       DEF Quiet, Next, RequestStep, TaskStep
  <1> QED
    BY <1>1, <1>5

LEMMA InitSettles == Init => SettleInv /\ Settling!Init
  <1> SUFFICES ASSUME Init PROVE SettleInv /\ Settling!Init
    OBVIOUS
  <1>1. /\ \A x \in Txns : ledger[x].plan = None
        /\ \A p \in Plans : row[p] = None
        /\ born = {}
    BY DEF Init, Unused
  <1>2. ASSUME NEW p \in Plans
        PROVE  ~Exists(p) /\ ~IsDone(p) /\ BookingsOf(p) = {}
    <2>1. ~Exists(p) /\ ~IsDone(p)
      BY <1>1 DEF Exists, IsDone
    <2>2. \A x \in Txns : ledger[x].plan # p
      BY <1>1, ConstantsAssumption
    <2> QED
      BY <2>1, <2>2 DEF BookingsOf
  <1> QED
    BY <1>1, <1>2, InitOnce DEF SettleInv, UnusedUnowned, Settling!Init

\* Where requests are served one at a time and messages are delivered once, the
\* handlers and the worker implement Settlement: a plan is executed once and stays so
\* until it is deleted, is booked once, and does not come back.
THEOREM PlansSettle ==
  ASSUME OneAtATime
  PROVE  Spec => SettlesOnce
  <1>1. SettleInv /\ [Next]_vars => SettleInv'
    BY NextKeepsOnce, NextSettles DEF SettleInv
  <1>2. SettleInv /\ [Next]_vars => [Settling!Next]_(Settling!settlement)
    BY NextSettles
  <1> QED
    BY <1>1, <1>2, InitSettles, PTL DEF Spec, SettlesOnce, Settling!Spec

\* Under the same assumptions a done plan is done until it is deleted: the status an
\* update checked when it read the plan is still the plan's when it writes it back.
THEOREM DoneStays ==
  ASSUME OneAtATime
  PROVE  Spec => DoneIsFinal
  <1> DEFINE Guarded == \A p \in Plans : IsDone(p) /\ row'[p] # None
                                           => row'[p].status = "done"
  <1>1. SettleInv /\ [Next]_vars => [Guarded]_vars
    <2> SUFFICES ASSUME SettleInv, Next, NEW p \in Plans, IsDone(p), row'[p] # None
                 PROVE  row'[p].status = "done"
      OBVIOUS
    <2> DEFINE waiting == {q \in Plans : Exists(q) /\ ~IsDone(q)}
    <2>1. p \notin waiting /\ p \in born
      BY DEF SettleInv, OnceInv, BookedSettled, IsDone
    <2>2. p \notin waiting'
      <3>1. CASE UNCHANGED Settling!settlement
        BY <2>1, <3>1 DEF Settling!settlement
      <3>2. ASSUME NEW q \in Plans, Settling!Accept(q)
            PROVE  p \notin waiting'
        BY <2>1, <3>2 DEF Settling!Accept
      <3>3. ASSUME NEW q \in Plans, Settling!Execute(q)
            PROVE  p \notin waiting'
        BY <2>1, <3>3 DEF Settling!Execute
      <3>4. ASSUME NEW q \in Plans, NEW x \in Txns, Settling!Settle(q, x)
            PROVE  p \notin waiting'
        BY <2>1, <3>4 DEF Settling!Settle
      <3>5. ASSUME NEW q \in Plans, Settling!Drop(q)
            PROVE  p \notin waiting'
        BY <2>1, <3>5 DEF Settling!Drop
      <3>6. CASE Settling!Next
        BY <3>2, <3>3, <3>4, <3>5, <3>6 DEF Settling!Next
      <3>7. Settling!Next \/ UNCHANGED Settling!settlement
        BY NextSettles
      <3> QED
        BY <3>1, <3>6, <3>7
    <2> QED
      BY <2>2 DEF IsDone, Exists
  <1>2. SettleInv /\ [Next]_vars => SettleInv'
    BY NextKeepsOnce, NextSettles DEF SettleInv
  <1>3. [][Guarded]_vars => DoneIsFinal
    BY DEF DoneIsFinal
  <1> HIDE DEF Guarded
  <1> QED
    BY <1>1, <1>2, <1>3, InitSettles, PTL DEF Spec

-----------------------------------------------------------------------------
(* Where requests are served one at a time, a booking agrees with its plan *)
(* as long as it is linked.                                                *)

\* The date a task read before it had the lock is still the plan's: a plan that
\* was executed keeps its payment date through every edit.
TaskDate ==
  \A w \in Workers : worker[w].pc = "book" /\ Unlinked(worker[w].plan) =>
    worker[w].date = row[worker[w].plan].payment

\* A request executes a plan that has no link yet, and edits it without touching
\* the payment date.  What it will mirror into was booked on that date.  The plan
\* may be booked, or its booking be deleted, meanwhile.
SaveMatches ==
  \A c \in Clients : client[c].pc = "save" =>
    /\ client[c].sends => client[c].row.txn = None
    /\ ~client[c].sends => client[c].row.payment = row[client[c].plan].payment
    /\ client[c].row.txn # None =>
         /\ client[c].row.status = "done"
         /\ ledger[client[c].row.txn].date = client[c].row.payment

MatchInv == OnceInv /\ LinkInv /\ TaskDate /\ SaveMatches /\ LinkedBookingMatches

-----------------------------------------------------------------------------
\* A step that leaves plans and bookings alone, and starts no save or booking.
LEMMA MatchFrame ==
  ASSUME MatchInv, OnceInv', LinkInv', UNCHANGED <<row, ledger>>,
         \A c \in Clients : client'[c].pc = "save" => client'[c] = client[c],
         \A w \in Workers : worker'[w].pc = "book" => worker'[w] = worker[w]
  PROVE  MatchInv'
  <1>1. TaskDate'
    BY DEF MatchInv, TaskDate, Unlinked, Exists
  <1>2. SaveMatches'
    BY DEF MatchInv, SaveMatches
  <1>3. LinkedBookingMatches'
    BY DEF MatchInv, LinkedBookingMatches, Exists, EffectiveAmount
  <1> QED
    BY <1>1, <1>2, <1>3 DEF MatchInv

LEMMA QuietStepsKeepMatch ==
  ASSUME MatchInv, OnceInv', LinkInv',
         \/ \E c \in Clients, p \in Plans : BeginDelete(c, p)
         \/ \E c \in Clients : SaveFails(c) \/ ClientCrash(c) \/ \E w \in Workers : Dispatch(c, w)
         \/ \E w \in Workers : Skip(w) \/ AlreadyBooked(w) \/ Retry(w) \/ GiveUp(w) \/ WorkerCrash(w)
         \/ \E w, v \in Workers : Redeliver(w, v)
         \/ SetArchived
  PROVE  MatchInv'
  <1>0. /\ client \in [Clients -> Client] /\ worker \in [Workers -> Worker]
        /\ TypeInv
    BY DEF MatchInv, OnceInv, TypeInv, TypeOK
  <1>1. ASSUME NEW c \in Clients, NEW p \in Plans, BeginDelete(c, p)
        PROVE  MatchInv'
    <2>1. \A e \in Clients : client'[e].pc = "save" => client'[e] = client[e]
      BY <1>0, <1>1 DEF BeginDelete, Prepare
    <2> QED
      BY <1>1, <2>1, MatchFrame DEF BeginDelete
  <1>2. ASSUME NEW c \in Clients, SaveFails(c) \/ ClientCrash(c)
        PROVE  MatchInv'
    <2>1. \A e \in Clients : client'[e].pc = "save" => client'[e] = client[e]
      BY <1>0, <1>2, FinishEndsSave DEF SaveFails, ClientCrash
    <2> QED
      BY <1>2, <2>1, MatchFrame DEF SaveFails, ClientCrash
  <1>3. ASSUME NEW c \in Clients, NEW w \in Workers, Dispatch(c, w)
        PROVE  MatchInv'
    <2>1. \A e \in Clients : client'[e].pc = "save" => client'[e] = client[e]
      BY <1>0, <1>3, FinishEndsSave DEF Dispatch
    <2>2. \A v \in Workers : worker'[v].pc = "book" => worker'[v] = worker[v]
      BY <1>0, <1>3 DEF Dispatch, Free
    <2> QED
      BY <1>3, <2>1, <2>2, MatchFrame DEF Dispatch
  <1>4. ASSUME NEW w \in Workers,
               Skip(w) \/ AlreadyBooked(w) \/ Retry(w) \/ GiveUp(w) \/ WorkerCrash(w)
        PROVE  MatchInv'
    <2>1. CASE Release(w)
      <3>1. \A v \in Workers : worker'[v].pc = "book" => worker'[v] = worker[v]
        BY <1>0, <2>1 DEF Release, Free
      <3>2. UNCHANGED <<row, ledger, client>>
        BY <1>4 DEF Skip, AlreadyBooked, Retry, GiveUp, WorkerCrash
      <3> QED
        BY <3>1, <3>2, MatchFrame
    <2>2. CASE Retry(w)
      <3>1. \A v \in Workers : worker'[v].pc = "book" => worker'[v] = worker[v]
        BY <1>0, <2>2 DEF Retry, Worker
      <3> QED
        BY <2>2, <3>1, MatchFrame DEF Retry
    <2> QED
      BY <1>4, <2>1, <2>2 DEF Skip, AlreadyBooked, GiveUp, WorkerCrash
  <1>5. ASSUME NEW w \in Workers, NEW v \in Workers, Redeliver(w, v)
        PROVE  MatchInv'
    <2>1. \A u \in Workers : worker'[u].pc = "book" => worker'[u] = worker[u]
      BY <1>0, <1>5 DEF Redeliver
    <2> QED
      BY <1>5, <2>1, MatchFrame DEF Redeliver
  <1>6. CASE SetArchived
    BY <1>6, MatchFrame DEF SetArchived
  <1> QED
    BY <1>1, <1>2, <1>3, <1>4, <1>5, <1>6

\* A task reads the payment date.
LEMMA StartKeepsMatch ==
  ASSUME MatchInv, OnceInv', LinkInv', NEW w \in Workers, Start(w)
  PROVE  MatchInv'
  <1>0. worker \in [Workers -> Worker] /\ worker[w] \in Worker /\ UNCHANGED <<row, ledger, client>>
    BY DEF MatchInv, OnceInv, TypeInv, TypeOK, Start
  <1>1. worker'[w].date = row[worker[w].plan].payment /\ worker'[w].plan = worker[w].plan
    BY <1>0 DEF Start, Worker
  <1>2. \A v \in Workers : v # w => worker'[v] = worker[v]
    BY <1>0 DEF Start
  <1>3. TaskDate'
    <2> SUFFICES ASSUME NEW v \in Workers, worker'[v].pc = "book", row'[worker'[v].plan] # None,
                        row'[worker'[v].plan].txn = None
                 PROVE  worker'[v].date = row'[worker'[v].plan].payment
      BY DEF TaskDate, Unlinked, Exists
    <2>1. CASE v = w
      BY <1>0, <1>1, <2>1
    <2>2. CASE v # w
      BY <1>0, <1>2, <2>2 DEF MatchInv, TaskDate, Unlinked, Exists
    <2> QED
      BY <2>1, <2>2
  <1> QED
    BY <1>0, <1>3 DEF MatchInv, SaveMatches, LinkedBookingMatches, Exists, EffectiveAmount

\* The unlocked read.
LEMMA ReadsKeepMatch ==
  ASSUME MatchInv, OnceInv', LinkInv', NEW c \in Clients, NEW p \in Plans,
         BeginExecute(c, p) \/ BeginUpdate(c, p)
  PROVE  MatchInv'
  <1>0. /\ client \in [Clients -> Client] /\ row[p] \in Row /\ Exists(p)
        /\ UNCHANGED <<born, row, ledger, worker>>
    BY DEF MatchInv, OnceInv, TypeInv, TypeOK, BeginExecute, BeginUpdate, Exists
  <1>1. row[p].txn # None => /\ row[p].status = "done"
                             /\ ledger[row[p].txn].date = row[p].payment
    BY <1>0 DEF MatchInv, LinkedBookingMatches
  <1>2. PICK r, b : /\ client' = [client EXCEPT ![c] =
                                    [pc |-> "save", plan |-> p, row |-> r, sends |-> b]]
                    /\ r.txn = row[p].txn
                    /\ b => r.txn = None
                    /\ ~b => r.payment = row[p].payment
                    /\ r.txn # None => r.status = "done"
    <2>1. CASE BeginExecute(c, p)
      <3>1. PICK d \in Dates \cup {None}, a \in Amounts \cup {None} :
              Prepare(c, "save", p, Executed(row[p], d, a), TRUE)
        BY <2>1 DEF BeginExecute
      <3>2. Executed(row[p], d, a).txn = row[p].txn /\ row[p].txn = None
        BY <1>0, <1>1, <2>1, ExecutedIsRow DEF BeginExecute
      <3> QED
        BY <3>1, <3>2 DEF Prepare
    <2>2. CASE BeginUpdate(c, p)
      <3>1. PICK a \in Amounts, d \in Dates, s \in Status :
              /\ StatusAllowed(row[p], s)
              /\ Prepare(c, "save", p, Edited(row[p], a, d, s), Executes(row[p], s))
        BY <2>2 DEF BeginUpdate
      <3>2. /\ Edited(row[p], a, d, s).txn = row[p].txn
            /\ Edited(row[p], a, d, s).status = s
            /\ ~Executes(row[p], s) => Edited(row[p], a, d, s).payment = row[p].payment
        BY <1>0 DEF Edited, Row
      <3>3. row[p].txn # None => s = "done" /\ ~Executes(row[p], s)
        BY <1>1, <3>1 DEF StatusAllowed, Executes
      <3> QED
        BY <3>1, <3>2, <3>3 DEF Prepare, Executes
    <2> QED
      BY <2>1, <2>2
  <1>3. client'[c] = [pc |-> "save", plan |-> p, row |-> r, sends |-> b]
    BY <1>0, <1>2
  <1>4. \A e \in Clients : e # c => client'[e] = client[e]
    BY <1>0, <1>2
  <1>5. r.txn # None => ledger[r.txn].date = r.payment
    BY <1>1, <1>2
  <1>6. SaveMatches'
    <2> SUFFICES ASSUME NEW e \in Clients, client'[e].pc = "save"
                 PROVE  /\ client'[e].sends => client'[e].row.txn = None
                        /\ ~client'[e].sends => client'[e].row.payment = row'[client'[e].plan].payment
                        /\ client'[e].row.txn # None =>
                             /\ client'[e].row.status = "done"
                             /\ ledger'[client'[e].row.txn].date = client'[e].row.payment
      BY DEF SaveMatches
    <2>1. CASE e = c
      BY <1>0, <1>2, <1>3, <1>5, <2>1
    <2>2. CASE e # c
      BY <1>0, <1>4, <2>2 DEF MatchInv, SaveMatches
    <2> QED
      BY <2>1, <2>2
  <1> QED
    BY <1>0, <1>6 DEF MatchInv, TaskDate, Unlinked, LinkedBookingMatches, Exists, EffectiveAmount

\* A new plan is not linked, and no task is about it.
LEMMA CreateKeepsMatch ==
  ASSUME MatchInv, OnceInv', LinkInv', NEW c \in Clients, NEW p \in Plans, Create(c, p)
  PROVE  MatchInv'
  <1>0. /\ client \in [Clients -> Client] /\ row \in [Plans -> Row \cup {None}]
        /\ p \notin born /\ UNCHANGED <<ledger, worker>>
    BY DEF MatchInv, OnceInv, TypeInv, TypeOK, Create
  <1>1. PICK a \in Amounts, d \in Dates, s \in Status :
          /\ row' = [row EXCEPT ![p] = NewRow(a, d, s)]
          /\ IF s = "done" THEN Prepare(c, "dispatch", p, None, TRUE) ELSE UNCHANGED client
    BY DEF Create
  <1>2. row'[p].txn = None /\ \A q \in Plans : q # p => row'[q] = row[q]
    BY <1>0, <1>1 DEF NewRow
  <1>3. \A w \in Workers : worker[w].pc # "free" => worker[w].plan # p /\ worker[w].plan \in Plans
    BY <1>0 DEF MatchInv, OnceInv, TasksAhead, Ahead, Settled, TypeInv, Shape
  <1>4. TaskDate'
    BY <1>0, <1>2, <1>3 DEF MatchInv, TaskDate, Unlinked, Exists
  <1>5. \A e \in Clients : client'[e].pc = "save" =>
          client'[e] = client[e] /\ client[e].plan \in Plans /\ client[e].plan # p
    <2>1. \A e \in Clients : client'[e].pc = "save" => client'[e] = client[e]
      BY <1>0, <1>1 DEF Prepare
    <2>2. \A e \in Clients : client[e].pc = "save" =>
            client[e].plan \in Plans /\ client[e].plan \in born
      BY DEF MatchInv, OnceInv, SaveFresh, BookedSettled, TypeInv, Shape
    <2> QED
      BY <1>0, <2>1, <2>2
  <1>6. SaveMatches'
    BY <1>0, <1>2, <1>5 DEF MatchInv, SaveMatches
  <1>7. LinkedBookingMatches'
    BY <1>0, <1>2 DEF MatchInv, LinkedBookingMatches, Exists, EffectiveAmount
  <1> QED
    BY <1>4, <1>6, <1>7 DEF MatchInv

\* The commit mirrors the amount into the booking the row names, which no other
\* plan names.
LEMMA SaveKeepsMatch ==
  ASSUME OneAtATime, MatchInv, OnceInv', LinkInv', NEW c \in Clients, Save(c)
  PROVE  MatchInv'
  <1>a. client[c].plan \in Plans /\ client[c].row \in Row
    BY DEF MatchInv, OnceInv, TypeInv, Shape, Save
  <1>b. PICK p \in Plans, r \in Row : client[c].plan = p /\ client[c].row = r
    BY <1>a
  <1>0. /\ TypeInv /\ row \in [Plans -> Row \cup {None}] /\ ledger \in [Txns -> Booking]
        /\ client[c].pc = "save"
        /\ row' = [row EXCEPT ![p] = r] /\ Finish(c) /\ UNCHANGED worker
        /\ r.txn \in Txns \cup {None}
    BY <1>b DEF MatchInv, OnceInv, TypeInv, TypeOK, Save, Row
  <1>1. \A e \in Clients : client'[e].pc # "save"
    <2>1. \A e \in Clients : client'[e].pc = "save" => e # c
      BY <1>0, FinishEndsSave
    <2> QED
      BY <2>1 DEF OneAtATime
  <1>2. SaveMatches'
    BY <1>1 DEF SaveMatches
  <1>3. \A q \in Plans : row'[q] = IF q = p THEN r ELSE row[q]
    BY <1>0
  <1>4. /\ client[c].sends => r.txn = None
        /\ ~client[c].sends => r.payment = row[p].payment
        /\ r.txn # None => r.status = "done" /\ ledger[r.txn].date = r.payment
    BY <1>b, <1>0 DEF MatchInv, SaveMatches
  <1>5. TaskDate'
    <2> SUFFICES ASSUME NEW w \in Workers, worker[w].pc = "book",
                        row'[worker[w].plan] # None, row'[worker[w].plan].txn = None
                 PROVE  worker[w].date = row'[worker[w].plan].payment
      BY <1>0 DEF TaskDate, Unlinked, Exists
    <2>1. worker[w].plan \in Plans /\ Settled(worker[w].plan)
      BY <1>0 DEF MatchInv, OnceInv, TasksAhead, Ahead, TypeInv, Shape
    <2>2. CASE worker[w].plan = p
      <3>1. Exists(p) /\ row[p].status = "done"
        BY <1>b, <1>0, <2>1, <2>2 DEF MatchInv, OnceInv, SaveFresh, Settled
      <3>2. ~client[c].sends
        BY <1>b, <1>0, <3>1 DEF MatchInv, OnceInv, SaveFresh
      <3>3. \A x \in Txns : ledger[x].plan # p
        BY <2>2 DEF MatchInv, OnceInv, TasksAhead, Ahead
      <3>4. row[p].txn = None
        <4> SUFFICES ASSUME row[p].txn # None PROVE FALSE
          OBVIOUS
        <4>1. row[p] \in Row
          BY <1>0, <3>1 DEF Exists
        <4>2. row[p].txn \in Txns /\ ledger[row[p].txn].plan = p
          BY <3>1, <4>1 DEF MatchInv, LinkInv, LinkIsOwn, Row
        <4> QED
          BY <3>3, <4>2
      <3>5. worker[w].date = row[p].payment
        BY <2>2, <3>1, <3>4 DEF MatchInv, TaskDate, Unlinked
      <3> QED
        BY <1>3, <1>4, <2>2, <3>2, <3>5
    <2>3. CASE worker[w].plan # p
      BY <1>3, <2>1, <2>3 DEF MatchInv, TaskDate, Unlinked, Exists
    <2> QED
      BY <2>2, <2>3
  <1>6. LinkedBookingMatches'
    <2> SUFFICES ASSUME NEW q \in Plans, row'[q] # None, row'[q].txn # None
                 PROVE  /\ row'[q].status = "done"
                        /\ ledger'[row'[q].txn].amount = EffectiveAmount(row'[q])
                        /\ ledger'[row'[q].txn].date = row'[q].payment
      BY DEF LinkedBookingMatches, Exists, EffectiveAmount
    <2>1. CASE q = p
      <3>1. r.txn \in Txns /\ ~client[c].sends
        BY <1>0, <1>3, <1>4, <2>1
      <3>2. ledger' = [ledger EXCEPT ![r.txn].amount = EffectiveAmount(r)]
        BY <1>b, <1>0, <3>1, <2>1, <1>3 DEF Save, MirrorAmount
      <3>3. ledger[r.txn] \in Booking
        BY <1>0, <3>1
      <3>4. ledger'[r.txn].amount = EffectiveAmount(r) /\ ledger'[r.txn].date = ledger[r.txn].date
        BY <1>0, <3>1, <3>2, <3>3 DEF Booking
      <3> QED
        BY <1>3, <1>4, <2>1, <3>4
    <2>2. CASE q # p
      <3>1. row'[q] = row[q] /\ row[q] \in Row
        BY <1>0, <1>3, <2>2
      <3>2. row[q].txn \in Txns /\ ledger[row[q].txn].plan = q
        BY <3>1 DEF MatchInv, LinkInv, LinkIsOwn, Exists, Row
      <3>3. r.txn # None => ledger[r.txn].plan = p
        BY <1>b, <1>0 DEF MatchInv, LinkInv, SnapshotsOwn
      <3>4. ledger'[row[q].txn] = ledger[row[q].txn]
        BY <1>b, <1>0, <2>2, <3>2, <3>3 DEF Save
      <3> QED
        BY <3>1, <3>4 DEF MatchInv, LinkedBookingMatches, Exists
    <2> QED
      BY <2>1, <2>2
  <1> QED
    BY <1>2, <1>5, <1>6 DEF MatchInv

LEMMA RemoveKeepsMatch ==
  ASSUME OneAtATime, MatchInv, OnceInv', LinkInv', NEW c \in Clients, Remove(c)
  PROVE  MatchInv'
  <1>0. TypeInv /\ row \in [Plans -> Row \cup {None}] /\ UNCHANGED <<ledger, worker>>
    BY DEF MatchInv, OnceInv, TypeInv, TypeOK, Remove
  <1>1. \A e \in Clients : client'[e].pc # "save"
    <2>1. \A e \in Clients : client'[e].pc = "save" => e # c
      BY <1>0, FinishEndsSave DEF Remove
    <2> QED
      BY <2>1 DEF OneAtATime
  <1>2. \A q \in Plans : row'[q] # None => row'[q] = row[q]
    BY <1>0 DEF Remove
  <1>3. \A w \in Workers : worker[w].pc # "free" => worker[w].plan \in Plans
    BY <1>0 DEF TypeInv, Shape
  <1>4. TaskDate'
    BY <1>0, <1>2, <1>3 DEF MatchInv, TaskDate, Unlinked, Exists
  <1>5. SaveMatches'
    BY <1>1 DEF SaveMatches
  <1>6. LinkedBookingMatches'
    BY <1>0, <1>2 DEF MatchInv, LinkedBookingMatches, Exists, EffectiveAmount
  <1> QED
    BY <1>4, <1>5, <1>6 DEF MatchInv

\* The booking takes the amount of the row under the lock, and the date that was
\* read before it.
LEMMA BookKeepsMatch ==
  ASSUME MatchInv, OnceInv', LinkInv', NEW w \in Workers, Book(w)
  PROVE  MatchInv'
  <1>a. PICK p \in Plans : worker[w].plan = p
    BY DEF MatchInv, OnceInv, TypeInv, Shape, Book
  <1>0. /\ worker \in [Workers -> Worker] /\ row \in [Plans -> Row \cup {None}]
        /\ ledger \in [Txns -> Booking]
        /\ worker[w].pc = "book" /\ row[p] \in Row /\ Unlinked(p) /\ Exists(p)
        /\ worker' = [worker EXCEPT ![w] = Free] /\ UNCHANGED client
    BY <1>a DEF MatchInv, OnceInv, TypeInv, TypeOK, Book, LockedUnlinked, Unlinked, Exists, Release
  <1>1. PICK x \in Txns :
          /\ ledger[x].state = "unused"
          /\ ledger' = [ledger EXCEPT ![x] =
                     [state |-> "live", plan |-> p,
                      amount |-> EffectiveAmount(row[p]), date |-> worker[w].date]]
          /\ row' = [row EXCEPT ![p].txn = x]
    BY <1>a DEF Book
  <1>2. /\ ledger'[x].amount = EffectiveAmount(row[p]) /\ ledger'[x].date = worker[w].date
        /\ \A y \in Txns : y # x => ledger'[y] = ledger[y]
    BY <1>0, <1>1
  <1>3. /\ row'[p] = [row[p] EXCEPT !.txn = x]
        /\ \A q \in Plans : q # p => row'[q] = row[q]
    BY <1>0, <1>1
  <1>4. /\ row'[p].txn = x /\ row'[p].status = row[p].status /\ row'[p].amount = row[p].amount
        /\ row'[p].paid = row[p].paid /\ row'[p].payment = row[p].payment
    BY <1>0, <1>3 DEF Row
  <1>5. row[p].status = "done"
    BY <1>a, <1>0 DEF MatchInv, OnceInv, TasksAhead, Ahead, Settled
  <1>6. worker[w].date = row[p].payment
    BY <1>a, <1>0 DEF MatchInv, TaskDate
  <1>7. x # None
    BY ConstantsAssumption
  <1>8. TaskDate'
    <2> SUFFICES ASSUME NEW v \in Workers, worker'[v].pc = "book",
                        row'[worker'[v].plan] # None, row'[worker'[v].plan].txn = None
                 PROVE  worker'[v].date = row'[worker'[v].plan].payment
      BY DEF TaskDate, Unlinked, Exists
    <2>1. worker'[v] = worker[v] /\ worker[v].pc = "book"
      BY <1>0 DEF Free
    <2>2. worker[v].plan \in Plans
      BY <2>1 DEF MatchInv, OnceInv, TypeInv, Shape
    <2>3. worker[v].plan # p
      BY <1>4, <1>7, <2>1
    <2> QED
      BY <1>3, <2>1, <2>2, <2>3 DEF MatchInv, TaskDate, Unlinked, Exists
  <1>9. SaveMatches'
    <2> SUFFICES ASSUME NEW e \in Clients, client[e].pc = "save"
                 PROVE  /\ client[e].sends => client[e].row.txn = None
                        /\ ~client[e].sends => client[e].row.payment = row'[client[e].plan].payment
                        /\ client[e].row.txn # None =>
                             /\ client[e].row.status = "done"
                             /\ ledger'[client[e].row.txn].date = client[e].row.payment
      BY <1>0 DEF SaveMatches
    <2>1. client[e].plan \in Plans /\ client[e].row \in Row
      BY DEF MatchInv, OnceInv, TypeInv, Shape
    <2>2. row'[client[e].plan].payment = row[client[e].plan].payment
      BY <1>3, <1>4, <2>1
    <2>3. client[e].row.txn # None =>
            client[e].row.txn \in Txns /\ client[e].row.txn # x
      BY <1>1, <2>1 DEF MatchInv, LinkInv, SnapshotsOwn, Row
    <2> QED
      BY <1>2, <2>2, <2>3 DEF MatchInv, SaveMatches
  <1>10. LinkedBookingMatches'
    <2> SUFFICES ASSUME NEW q \in Plans, row'[q] # None, row'[q].txn # None
                 PROVE  /\ row'[q].status = "done"
                        /\ ledger'[row'[q].txn].amount = EffectiveAmount(row'[q])
                        /\ ledger'[row'[q].txn].date = row'[q].payment
      BY DEF LinkedBookingMatches, Exists, EffectiveAmount
    <2>1. CASE q = p
      BY <1>2, <1>4, <1>5, <1>6, <2>1 DEF EffectiveAmount
    <2>2. CASE q # p
      <3>1. row'[q] = row[q] /\ row[q] \in Row
        BY <1>0, <1>3, <2>2
      <3>2. row[q].txn \in Txns /\ ledger[row[q].txn].state = "live"
        BY <3>1 DEF MatchInv, LinkInv, LinkIsOwn, Exists, Row
      <3>3. ledger'[row[q].txn] = ledger[row[q].txn]
        BY <1>1, <1>2, <3>2
      <3> QED
        BY <3>1, <3>3 DEF MatchInv, LinkedBookingMatches, Exists
    <2> QED
      BY <2>1, <2>2
  <1> QED
    BY <1>8, <1>9, <1>10 DEF MatchInv

\* Deleting a transaction clears the links to it and changes no date or amount.
LEMMA DeleteTransactionKeepsMatch ==
  ASSUME MatchInv, OnceInv', LinkInv', NEW x \in Txns, DeleteTransaction(x)
  PROVE  MatchInv'
  <1>0. /\ row \in [Plans -> Row \cup {None}] /\ ledger \in [Txns -> Booking]
        /\ UNCHANGED <<client, worker>>
    BY DEF MatchInv, OnceInv, TypeInv, TypeOK, DeleteTransaction
  <1>1. \A y \in Txns : ledger'[y].amount = ledger[y].amount /\ ledger'[y].date = ledger[y].date
    BY <1>0 DEF DeleteTransaction, Booking
  <1>2. \A q \in Plans : /\ row'[q] = LinkCleared(row[q], x)
                         /\ row'[q] # None => row[q] \in Row
    BY <1>0 DEF DeleteTransaction, LinkCleared
  <1>3. \A q \in Plans : row'[q] # None =>
          row'[q].payment = row[q].payment /\ (row'[q] = row[q] \/ row'[q].txn = None)
    BY <1>2 DEF LinkCleared, Row
  <1>4. \A w \in Workers : worker[w].pc = "book" /\ Exists(worker[w].plan) /\ row[worker[w].plan].txn # None =>
          FALSE
    <2> SUFFICES ASSUME NEW w \in Workers, worker[w].pc = "book", Exists(worker[w].plan),
                        row[worker[w].plan].txn # None
                 PROVE  FALSE
      OBVIOUS
    <2>1. worker[w].plan \in Plans
      BY DEF MatchInv, OnceInv, TypeInv, Shape
    <2>2. row[worker[w].plan] \in Row
      BY <1>0, <2>1 DEF Exists
    <2>3. row[worker[w].plan].txn \in Txns /\ ledger[row[worker[w].plan].txn].plan = worker[w].plan
      BY <2>1, <2>2 DEF MatchInv, LinkInv, LinkIsOwn, Row
    <2> QED
      BY <2>3 DEF MatchInv, OnceInv, TasksAhead, Ahead
  <1>5. TaskDate'
    <2> SUFFICES ASSUME NEW w \in Workers, worker[w].pc = "book",
                        row'[worker[w].plan] # None
                 PROVE  worker[w].date = row'[worker[w].plan].payment
      BY <1>0 DEF TaskDate, Unlinked, Exists
    <2>1. worker[w].plan \in Plans
      BY DEF MatchInv, OnceInv, TypeInv, Shape
    <2>2. Exists(worker[w].plan)
      BY <1>2, <2>1, NullAssumption DEF Exists
    <2> QED
      BY <1>3, <1>4, <2>1, <2>2 DEF MatchInv, TaskDate, Unlinked
  <1>6. SaveMatches'
    <2> SUFFICES ASSUME NEW e \in Clients, client[e].pc = "save"
                 PROVE  /\ client[e].sends => client[e].row.txn = None
                        /\ ~client[e].sends => client[e].row.payment = row'[client[e].plan].payment
                        /\ client[e].row.txn # None =>
                             /\ client[e].row.status = "done"
                             /\ ledger'[client[e].row.txn].date = client[e].row.payment
      BY <1>0 DEF SaveMatches
    <2>1. client[e].plan \in Plans /\ client[e].row \in Row /\ row'[client[e].plan] # None
      BY <1>0 DEF MatchInv, OnceInv, SaveFresh, Exists, TypeInv, Shape
    <2>2. row'[client[e].plan].payment = row[client[e].plan].payment
      BY <1>3, <2>1
    <2>3. client[e].row.txn # None => client[e].row.txn \in Txns
      BY <2>1 DEF Row
    <2> QED
      BY <1>1, <2>2, <2>3 DEF MatchInv, SaveMatches
  <1>7. LinkedBookingMatches'
    <2> SUFFICES ASSUME NEW q \in Plans, row'[q] # None, row'[q].txn # None
                 PROVE  /\ row'[q].status = "done"
                        /\ ledger'[row'[q].txn].amount = EffectiveAmount(row'[q])
                        /\ ledger'[row'[q].txn].date = row'[q].payment
      BY DEF LinkedBookingMatches, Exists, EffectiveAmount
    <2>1. row'[q] = row[q] /\ row[q] \in Row
      BY <1>2, <1>3
    <2>2. row[q].txn \in Txns
      BY <2>1 DEF Row
    <2> QED
      BY <1>1, <2>1, <2>2 DEF MatchInv, LinkedBookingMatches, Exists
  <1> QED
    BY <1>5, <1>6, <1>7 DEF MatchInv

\* Where requests are served one at a time and messages are delivered once, a linked
\* booking carries its plan's effective amount and payment date, though the task
\* reads the date before it has the lock and edits mirror what they read earlier.
THEOREM BookingMatches ==
  ASSUME OneAtATime
  PROVE  Spec => []LinkedBookingMatches
  <1>1. Init => MatchInv
    <2> SUFFICES ASSUME Init PROVE MatchInv
      OBVIOUS
    <2>1. /\ \A c \in Clients : client[c].pc = "idle"
          /\ \A w \in Workers : worker[w].pc = "free"
          /\ \A p \in Plans : row[p] = None
      BY DEF Init, Idle, Free
    <2> QED
      BY <2>1, InitOnce, InitLinks
         DEF MatchInv, TaskDate, SaveMatches, LinkedBookingMatches, Exists
  <1>2. MatchInv /\ [Next]_vars => MatchInv'
    <2> SUFFICES ASSUME MatchInv, [Next]_vars PROVE MatchInv'
      OBVIOUS
    <2>1. OnceInv' /\ LinkInv'
      BY NextKeepsOnce, NextKeepsLinks DEF MatchInv
    <2>2. CASE UNCHANGED vars
      BY <2>1, <2>2, MatchFrame DEF vars
    <2>3. CASE Next
      BY <2>1, <2>3, QuietStepsKeepMatch, StartKeepsMatch, ReadsKeepMatch, CreateKeepsMatch,
         SaveKeepsMatch, RemoveKeepsMatch, BookKeepsMatch, DeleteTransactionKeepsMatch
         DEF Next, RequestStep, TaskStep
    <2> QED
      BY <2>2, <2>3
  <1>3. MatchInv => LinkedBookingMatches
    BY DEF MatchInv
  <1> QED
    BY <1>1, <1>2, <1>3, PTL DEF Spec
=============================================================================
