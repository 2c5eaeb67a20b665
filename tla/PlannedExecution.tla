-------------------------- MODULE PlannedExecution --------------------------
(***************************************************************************)
(* Planned transactions and the worker that books them                     *)
(* (backend/planned_transactions: services.py, tasks.py, models.py).       *)
(*                                                                         *)
(* An API request is a process: it reads the plan without a lock, computes *)
(* a complete new row, commits it with save(), and only then sends the     *)
(* Celery message.  PostgreSQL (READ COMMITTED) makes each commit one step *)
(* and lets anything happen between the read and the commit.  A worker     *)
(* reads the plan without a lock, then books it in one transaction that    *)
(* holds the row lock.                                                     *)
(*                                                                         *)
(* amount stands for the five fields the mirror copies with the same five  *)
(* assignments (name, amount, category, account, currency).                *)
(***************************************************************************)
EXTENDS Naturals

CONSTANTS
  Plans,        \* ids of planned_transactions rows
  Txns,         \* ids of transactions rows, a bound: a booking needs a fresh one
  Clients,      \* API requests that can be in flight together
  Workers,      \* messages and running tasks that can coexist, a bound
  Amounts,      \* what a plan may cost
  Dates,        \* calendar days
  None,         \* SQL NULL
  MaxRetries,   \* max_retries of execute_planned_transaction
  Operations,   \* which endpoints the clients call
  Environment   \* which mishaps may happen, a subset of Mishaps

Mishaps == {"crash", "fault", "archive", "delete_txn", "redeliver"}

ASSUME ConstantsAssumption ==
  /\ None \notin Plans \cup Txns \cup Amounts \cup Dates
  /\ MaxRetries \in Nat
  /\ Operations \subseteq {"create", "update", "execute", "delete"}
  /\ Environment \subseteq Mishaps

VARIABLES
  born,       \* the plan ids ever inserted
  row,        \* row[p]: the columns of plan p, None while no such row exists
  ledger,     \* ledger[x]: the transaction booked under the id x
  client,     \* client[c]: what a request has read and is about to write
  worker,     \* worker[w]: a queued message or the task running it
  active,     \* the account and category the plans name are not archived
  lost,       \* history: the plans whose execution a crash or the retry limit dropped
  overtaken,  \* history: the requests whose plan a task booked since they read it
  overwritten \* history: the plans that such a request saved

history == <<lost, overtaken, overwritten>>
vars == <<born, row, ledger, client, worker, active, history>>

-----------------------------------------------------------------------------
Status == {"pending", "done", "cancelled"}

Row == [status  : Status,
        amount  : Amounts,
        paid    : Amounts \cup {None},    \* payment_amount
        planned : Dates,                  \* planned_date
        payment : Dates \cup {None},      \* payment_date
        txn     : Txns \cup {None}]       \* transaction_id

Booking == [state  : {"unused", "live", "deleted"},
            plan   : Plans \cup {None},
            amount : Amounts \cup {None},
            date   : Dates \cup {None}]

Unused == [state |-> "unused", plan |-> None, amount |-> None, date |-> None]

Client == [pc    : {"idle", "save", "dispatch", "remove"},
           plan  : Plans \cup {None},
           row   : Row \cup {None},
           sends : BOOLEAN]               \* the commit is followed by .delay()

Idle == [pc |-> "idle", plan |-> None, row |-> None, sends |-> FALSE]

Worker == [pc    : {"free", "queued", "book"},
           plan  : Plans \cup {None},
           date  : Dates \cup {None},     \* payment_date, read before the lock
           tries : 0..MaxRetries]

Free == [pc |-> "free", plan |-> None, date |-> None, tries |-> 0]

ASSUME NullAssumption == None \notin Row

\* PlannedTransaction.effective_amount: the actual wins over the plan.
EffectiveAmount(r) == IF r.paid # None THEN r.paid ELSE r.amount

\* A row that names a transaction can be committed only while that exists.
ForeignKeyHolds(r) == r.txn # None => ledger[r.txn].state = "live"

Exists(p) == row[p] # None

IsDone(p) == Exists(p) /\ row[p].status = "done"

Unlinked(p) == Exists(p) /\ row[p].txn = None

\* What the task's first read requires of the plan.
Due(p) == Unlinked(p) /\ row[p].payment # None

BookingsOf(p) == {x \in Txns : ledger[x].plan = p}

Init ==
  /\ born = {}
  /\ row = [p \in Plans |-> None]
  /\ ledger = [x \in Txns |-> Unused]
  /\ client = [c \in Clients |-> Idle]
  /\ worker = [w \in Workers |-> Free]
  /\ active = TRUE
  /\ lost = {} /\ overtaken = {} /\ overwritten = {}

-----------------------------------------------------------------------------
(* Pure parts of the handlers: the row each computes.                      *)

StatusAllowed(r, s) == r.status = "done" => s = "done"

\* Mutation: saving a done plan as done sends its message again.
ExecutesAgain(r, s) == s = "done"

\* Whether this update is the one that executes the plan.
Executes(r, s) == s = "done" /\ r.status # "done"

\* What _do_create inserts.
NewRow(a, d, s) ==
  [status |-> s, amount |-> a, paid |-> None, planned |-> d,
   payment |-> IF s = "done" THEN d ELSE None, txn |-> None]

\* What execute() makes of the row: by default paid as planned, on the planned date.
Executed(r, d, a) ==
  [r EXCEPT !.status = "done",
            !.payment = IF d # None THEN d ELSE r.planned,
            !.paid = IF a # None THEN a ELSE @]

\* Mutation: marking a plan done forgets its payment date.
EditedUndated(r, a, d, s) == [r EXCEPT !.status = s, !.amount = a, !.planned = d]

Edited(r, a, d, s) ==
  [r EXCEPT !.status = s, !.amount = a, !.planned = d,
            !.payment = IF Executes(r, s) THEN d ELSE @]

\* Mutation: the linked transaction takes the planned, not the actual amount.
MirrorPlannedAmount(r) == r.amount

\* What the linked transaction's amount becomes when its plan is edited.
MirrorAmount(r) == EffectiveAmount(r)

-----------------------------------------------------------------------------
(* Requests: the unlocked read, with the checks made on what it saw.       *)

Prepare(c, step, p, r, sends) ==
  client' = [client EXCEPT ![c] =
               [pc |-> step, plan |-> p, row |-> r, sends |-> sends]]

\* POST /planned-transactions/{id}/execute.
BeginExecute(c, p) ==
  /\ "execute" \in Operations
  /\ client[c].pc = "idle"
  /\ Exists(p)
  /\ row[p].status # "done"
  /\ \E d \in Dates \cup {None}, a \in Amounts \cup {None} :
       Prepare(c, "save", p, Executed(row[p], d, a), TRUE)
  /\ UNCHANGED <<born, row, ledger, worker, active, history>>

\* PUT /planned-transactions/{id}.  A done plan stays done; marking a plan
\* done here executes it on its planned date.
BeginUpdate(c, p) ==
  /\ "update" \in Operations
  /\ client[c].pc = "idle"
  /\ Exists(p)
  /\ active
  /\ \E a \in Amounts, d \in Dates, s \in Status :
       /\ StatusAllowed(row[p], s)
       /\ Prepare(c, "save", p, Edited(row[p], a, d, s), Executes(row[p], s))
  /\ UNCHANGED <<born, row, ledger, worker, active, history>>

\* DELETE /planned-transactions/{id}.
BeginDelete(c, p) ==
  /\ "delete" \in Operations
  /\ client[c].pc = "idle"
  /\ Exists(p)
  /\ Prepare(c, "remove", p, None, FALSE)
  /\ UNCHANGED <<born, row, ledger, worker, active, history>>

-----------------------------------------------------------------------------
(* Requests: the commit, and the message sent after it.                    *)

Finish(c) == client' = [client EXCEPT ![c] =
               IF client[c].sends THEN [@ EXCEPT !.pc = "dispatch", !.row = None]
               ELSE Idle]

\* POST /planned-transactions.  The checks read nothing the insert depends on,
\* so they and the insert are one step.  status is a field the client sends: a
\* plan created done is due at once, and its message is sent after the commit.
Create(c, p) ==
  /\ "create" \in Operations
  /\ client[c].pc = "idle"
  /\ p \notin born
  /\ active
  /\ \E a \in Amounts, d \in Dates, s \in Status :
       /\ row' = [row EXCEPT ![p] = NewRow(a, d, s)]
       /\ IF s = "done" THEN Prepare(c, "dispatch", p, None, TRUE)
                        ELSE UNCHANGED client
  /\ born' = born \cup {p}
  /\ UNCHANGED <<ledger, worker, active, history>>

\* Every column is written, from the row read earlier.  save() updates by
\* id and inserts when no row matched, so a plan deleted meanwhile comes
\* back.  An update that does not execute also rewrites the linked
\* transaction, in the same database transaction.
Save(c) ==
  LET p == client[c].plan
      r == client[c].row IN
  /\ client[c].pc = "save"
  /\ ForeignKeyHolds(r)
  /\ row' = [row EXCEPT ![p] = r]
  /\ ledger' = IF ~client[c].sends /\ r.txn # None
               THEN [ledger EXCEPT ![r.txn].amount = MirrorAmount(r)]
               ELSE ledger
  /\ Finish(c)
  /\ overwritten' = IF c \in overtaken THEN overwritten \cup {p} ELSE overwritten
  /\ overtaken' = overtaken \ {c}
  /\ UNCHANGED <<born, worker, active, lost>>

\* The row read names a transaction deleted since: the commit fails, a 500.
SaveFails(c) ==
  /\ client[c].pc = "save"
  /\ ~ForeignKeyHolds(client[c].row)
  /\ client' = [client EXCEPT ![c] = Idle]
  /\ overtaken' = overtaken \ {c}
  /\ UNCHANGED <<born, row, ledger, worker, active, lost, overwritten>>

Remove(c) ==
  /\ client[c].pc = "remove"
  /\ row' = [row EXCEPT ![client[c].plan] = None]
  /\ client' = [client EXCEPT ![c] = Idle]
  /\ UNCHANGED <<born, ledger, worker, active, history>>

\* execute_planned_transaction.delay(id), once the row is committed.
Dispatch(c, w) ==
  /\ client[c].pc = "dispatch"
  /\ worker[w].pc = "free"
  /\ worker' = [worker EXCEPT ![w] =
                  [Free EXCEPT !.pc = "queued", !.plan = client[c].plan]]
  /\ client' = [client EXCEPT ![c] = Idle]
  /\ UNCHANGED <<born, row, ledger, active, history>>

-----------------------------------------------------------------------------
(* The Celery task.                                                        *)

Release(w) == worker' = [worker EXCEPT ![w] = Free]

\* The first read, without a lock: nothing to do for a plan that is gone,
\* already linked, or without a payment date.
Skip(w) ==
  /\ worker[w].pc = "queued"
  /\ ~Due(worker[w].plan)
  /\ Release(w)
  /\ UNCHANGED <<born, row, ledger, client, active, history>>

Start(w) ==
  /\ worker[w].pc = "queued"
  /\ Due(worker[w].plan)
  /\ worker' = [worker EXCEPT ![w].pc = "book", ![w].date = row[worker[w].plan].payment]
  /\ UNCHANGED <<born, row, ledger, client, active, history>>

\* Mutation: no second check under the row lock.
LockedAnyway(p) == Exists(p)

\* The check repeated under the row lock.
LockedUnlinked(p) == Unlinked(p)

\* select_for_update, the second check, TransactionService.create and the
\* link, committed together.
Book(w) ==
  LET p == worker[w].plan IN
  /\ worker[w].pc = "book"
  /\ LockedUnlinked(p)
  /\ active
  /\ \E x \in Txns :
       /\ ledger[x].state = "unused"
       /\ ledger' = [ledger EXCEPT ![x] =
                       [state |-> "live", plan |-> p,
                        amount |-> EffectiveAmount(row[p]), date |-> worker[w].date]]
       /\ row' = [row EXCEPT ![p].txn = x]
  /\ Release(w)
  /\ overtaken' = overtaken \cup {c \in Clients : client[c].pc = "save" /\ client[c].plan = p}
  /\ UNCHANGED <<born, client, active, lost, overwritten>>

\* Another task booked it between the first read and the lock.
AlreadyBooked(w) ==
  /\ worker[w].pc = "book"
  /\ Exists(worker[w].plan) /\ row[worker[w].plan].txn # None
  /\ Release(w)
  /\ UNCHANGED <<born, row, ledger, client, active, history>>

\* What makes the booking raise: the row is gone (get() finds nothing), its
\* account or category is archived, or a fault of the infrastructure.
Raises(w) ==
  \/ worker[w].pc = "book" /\ ~Exists(worker[w].plan)
  \/ worker[w].pc = "book" /\ Unlinked(worker[w].plan) /\ ~active
  \/ worker[w].pc # "free" /\ "fault" \in Environment

RetriesLeft(w) == worker[w].tries < MaxRetries

\* autoretry_for=(Exception,): the whole task runs again, max_retries times.
Retry(w) ==
  /\ Raises(w)
  /\ RetriesLeft(w)
  /\ worker' = [worker EXCEPT ![w].pc = "queued", ![w].date = None, ![w].tries = @ + 1]
  /\ UNCHANGED <<born, row, ledger, client, active, history>>

GiveUp(w) ==
  /\ Raises(w)
  /\ ~RetriesLeft(w)
  /\ lost' = lost \cup {worker[w].plan}
  /\ Release(w)
  /\ UNCHANGED <<born, row, ledger, client, active, overtaken, overwritten>>

-----------------------------------------------------------------------------
(* The environment.                                                        *)

\* The web process dies between the read and the end of the request.
ClientCrash(c) ==
  /\ "crash" \in Environment
  /\ client[c].pc # "idle"
  /\ client' = [client EXCEPT ![c] = Idle]
  /\ lost' = IF client[c].pc = "dispatch" THEN lost \cup {client[c].plan} ELSE lost
  /\ overtaken' = overtaken \ {c}
  /\ UNCHANGED <<born, row, ledger, worker, active, overwritten>>

\* Messages are acknowledged before the task runs: a dead worker's is gone.
WorkerCrash(w) ==
  /\ "crash" \in Environment
  /\ worker[w].pc # "free"
  /\ lost' = lost \cup {worker[w].plan}
  /\ Release(w)
  /\ UNCHANGED <<born, row, ledger, client, active, overtaken, overwritten>>

\* A message held unacknowledged past the broker's visibility timeout is
\* delivered a second time.
Redeliver(w, v) ==
  /\ "redeliver" \in Environment
  /\ worker[w].pc = "queued" /\ worker[v].pc = "free"
  /\ worker' = [worker EXCEPT ![v] = worker[w]]
  /\ UNCHANGED <<born, row, ledger, client, active, history>>

\* The account or category of the plans is archived or restored.
SetArchived ==
  /\ "archive" \in Environment
  /\ active' = ~active
  /\ UNCHANGED <<born, row, ledger, client, worker, history>>

\* Mutation: deleting a transaction leaves the link to it (DO_NOTHING).
LinkKept(r, x) == r

\* on_delete=SET_NULL, for one row of planned_transactions.
LinkCleared(r, x) == IF r # None /\ r.txn = x THEN [r EXCEPT !.txn = None] ELSE r

\* TransactionService.delete on a booked transaction.
DeleteTransaction(x) ==
  /\ "delete_txn" \in Environment
  /\ ledger[x].state = "live"
  /\ ledger' = [ledger EXCEPT ![x].state = "deleted"]
  /\ row' = [p \in Plans |-> LinkCleared(row[p], x)]
  /\ UNCHANGED <<born, client, worker, active, history>>

-----------------------------------------------------------------------------
RequestStep(c) ==
  \/ Save(c) \/ SaveFails(c) \/ Remove(c)
  \/ \E w \in Workers : Dispatch(c, w)

TaskStep(w) == Skip(w) \/ Start(w) \/ Book(w) \/ AlreadyBooked(w) \/ Retry(w) \/ GiveUp(w)

Next ==
  \/ \E c \in Clients, p \in Plans :
       Create(c, p) \/ BeginExecute(c, p) \/ BeginUpdate(c, p) \/ BeginDelete(c, p)
  \/ \E c \in Clients : RequestStep(c) \/ ClientCrash(c)
  \/ \E w \in Workers : TaskStep(w) \/ WorkerCrash(w)
  \/ \E w, v \in Workers : Redeliver(w, v)
  \/ SetArchived
  \/ \E x \in Txns : DeleteTransaction(x)

Spec == Init /\ [][Next]_vars

\* A request that has started is run to its end by its web process, and the
\* Celery workers keep taking messages.  Nobody has to send a request.
Fairness ==
  /\ \A c \in Clients : WF_vars(RequestStep(c))
  /\ \A w \in Workers : WF_vars(TaskStep(w))

FairSpec == Spec /\ Fairness
-----------------------------------------------------------------------------
(* Properties.                                                             *)

TypeOK ==
  /\ born \subseteq Plans
  /\ row \in [Plans -> Row \cup {None}]
  /\ ledger \in [Txns -> Booking]
  /\ client \in [Clients -> Client]
  /\ worker \in [Workers -> Worker]
  /\ active \in BOOLEAN
  /\ lost \subseteq Plans /\ overtaken \subseteq Clients /\ overwritten \subseteq Plans

\* Two different transactions never come from one plan.  (update and execute are
\* guarded only by the status they read.)
AtMostOneBooking ==
  \A p \in Plans : \A x, y \in BookingsOf(p) : x = y

\* What is to be seen of a plan, and what was booked for it.
Settling == INSTANCE Settlement WITH
  known  <- born,
  open   <- {p \in Plans : Exists(p) /\ ~IsDone(p)},
  done   <- {p \in Plans : IsDone(p)},
  booked <- [p \in Plans |-> BookingsOf(p)]

\* Through retries, crashes, archived accounts and deletions of the booking, a plan
\* that was executed stays executed until it is deleted, is booked once and as a
\* transaction of its own, and does not come back once it is gone.
SettlesOnce == Settling!Spec

\* As long as the link stands, the booking carries the plan's effective amount
\* and its payment date, whatever edits, retries and mirrors ran in between.
LinkedBookingMatches ==
  \A p \in Plans :
    Exists(p) /\ row[p].txn # None =>
      /\ row[p].status = "done"
      /\ ledger[row[p].txn].amount = EffectiveAmount(row[p])
      /\ ledger[row[p].txn].date = row[p].payment

\* "Cannot change status of an executed planned transaction"
\* (PlannedTransactionCannotRevertError): a done plan is done until it is deleted.
DoneIsFinal == [][\A p \in Plans : IsDone(p) /\ row'[p] # None
                                     => row'[p].status = "done"]_vars

\* A link is to a live transaction that was booked for this very plan; with
\* LinkIsOwn no transaction is linked by two plans.
LinkIsOwn ==
  \A p \in Plans :
    Exists(p) /\ row[p].txn # None =>
      ledger[row[p].txn].state = "live" /\ ledger[row[p].txn].plan = p

\* However requests, tasks, retries, duplicate messages and deletions interleave,
\* a plan has two live transactions only once a request that read it before it was
\* booked has saved what it read; the guard of the task "prevents duplicate
\* Transactions" otherwise (tasks.py).
OneLiveBooking ==
  \A p \in Plans \ overwritten :
    \A x, y \in BookingsOf(p) : ledger[x].state = "live" /\ ledger[y].state = "live" => x = y

\* An accepted execution is booked in the end, unless the plan is deleted, a
\* process died holding it, or every retry raised.
ExecutionSettles ==
  \A p \in Plans :
    IsDone(p) ~> (BookingsOf(p) # {} \/ ~Exists(p) \/ p \in lost)

\* "so the two never desync": between requests, a done plan and the transaction
\* its execution created agree.
\* Does not hold: a saved update can write an older status and link over the task's.
NeverDesync ==
  \A p \in Plans : IsDone(p) /\ (\A c \in Clients : client[c].plan # p) =>
    \A x \in BookingsOf(p) :
      ledger[x].state = "live" => ledger[x].amount = EffectiveAmount(row[p])
=============================================================================
