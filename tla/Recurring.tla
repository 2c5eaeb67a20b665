----------------------------- MODULE Recurring -----------------------------
(***************************************************************************)
(* Recurring rules and the planned transactions they materialize           *)
(* (RecurringTransactionService in backend/planned_transactions/services.py*)
(* and the nightly task generate_recurring_transactions).                  *)
(*                                                                         *)
(* Days are numbers and a schedule is every so many days from its start:   *)
(* the months of the calendar differ only in length.  Generation, for a    *)
(* request or for the nightly pass, is one transaction under the lock of   *)
(* the rule's row.  An update reads the rule without that lock and later   *)
(* saves every column.                                                     *)
(***************************************************************************)
EXTENDS Naturals, FiniteSets

CONSTANTS
  Rules,        \* ids of recurring_transactions rows
  Singles,      \* ids of planned rows that no rule generated
  Copies,       \* how often one occurrence may be generated, a bound
  Horizon,      \* the last day there is, a bound
  LastDay,      \* the last day reached by the clock, a bound
  Payloads,     \* what clients send to create or replace a rule
  MaxAll,       \* MAX_MATERIALIZE_OCCURRENCES
  MaxFaults,    \* how many passes fail before their end, a bound
  MaxEdits,     \* how often users edit a rule or its rows, a bound
  Clients,      \* update requests that can be in flight together
  Passes,       \* runs of the nightly task that can overlap
  None          \* SQL NULL, no row

Days == 0..Horizon

Payload == [start : Days, every : 1..Horizon, upfront : 1..24, all : BOOLEAN,
            end : Days \cup {None}, active : BOOLEAN]

ASSUME ConstantsAssumption ==
  /\ Horizon \in Nat /\ LastDay \in Days /\ MaxAll \in Nat
  /\ MaxFaults \in Nat /\ MaxEdits \in Nat
  /\ None \notin Days \cup Rules
  /\ Payloads \subseteq Payload

VARIABLES
  today,
  born,      \* the rule ids ever inserted
  rule,      \* rule[r]: the columns of rule r, None while no such row exists
  plan,      \* plan[i]: the columns of planned row i, None while no such row exists
  emitted,   \* history: the occurrences <<r, d>> ever generated
  client,    \* client[c]: the row an update request is about to save
  rewound,   \* history: the rules whose pointer an update wrote over with an older read
  pass,      \* pass[n]: a run of the nightly task
  faults,
  edits

vars == <<today, born, rule, plan, emitted, client, rewound, pass, faults, edits>>

-----------------------------------------------------------------------------
\* A row: a payload, the pointer last_generated_date, and the day of created_at.
Rule == [start : Days, every : 1..Horizon, upfront : 1..24, all : BOOLEAN,
         end : Days \cup {None}, active : BOOLEAN,
         ptr : Days \cup {None}, made : Days]

\* A generated row keeps the name of the occurrence it was generated for.
GeneratedIds == Rules \X Days \X Copies

Ids == GeneratedIds \cup Singles

\* The table is finite, and null is not a row of it.
ASSUME TableAssumption ==
  /\ IsFiniteSet(Ids) /\ GeneratedIds \cap Singles = {}
  /\ Copies \subseteq Nat /\ Copies # {}

\* A planned row is "closed" once it is done or cancelled.
Plan == [rule : Rules \cup {None}, date : Days, status : {"pending", "closed"}]

Client == [pc : {"idle", "save"}, rule : Rules \cup {None}, row : Rule \cup {None}]

ASSUME NullAssumption == None \notin Rule /\ None \notin Plan

Idle == [pc |-> "idle", rule |-> None, row |-> None]

Pass == [pc : {"idle", "running"}, day : Days, todo : SUBSET Rules]

Stopped == [pc |-> "idle", day |-> 0, todo |-> {}]

Init ==
  /\ today = 0
  /\ born = {}
  /\ rule = [r \in Rules |-> None]
  /\ plan \in {[i \in Ids |->
                  IF i \in Singles THEN [rule |-> None, date |-> d[i], status |-> "pending"]
                  ELSE None] : d \in [Singles -> 0..LastDay]}
  /\ emitted = {}
  /\ client = [c \in Clients |-> Idle]
  /\ rewound = {}
  /\ pass = [n \in Passes |-> Stopped]
  /\ faults = 0
  /\ edits = 0

-----------------------------------------------------------------------------
(* Pure parts.  s is a rule's row.                                         *)

Row(p, ptr, made) ==
  [start |-> p.start, every |-> p.every, upfront |-> p.upfront, all |-> p.all,
   end |-> p.end, active |-> p.active, ptr |-> ptr, made |-> made]

\* Everything next_occurrence_on_or_after can return.
Occurrences(s) == {d \in Days : d >= s.start /\ (d - s.start) % s.every = 0}

\* Mutation: the pointer's own day is a candidate again.
SeedInclusive(s) ==
  IF s.ptr # None THEN s.ptr ELSE IF s.start > s.made THEN s.start ELSE s.made

Seed(s) ==
  IF s.ptr # None THEN s.ptr + 1 ELSE IF s.start > s.made THEN s.start ELSE s.made

\* Mutation: an occurrence older than the rule ends the loop.
CandidatesOrBreak(s) ==
  {d \in Occurrences(s) : d >= Seed(s) /\ (s.end # None => d <= s.end)
     /\ \A e \in Occurrences(s) : e >= Seed(s) => e >= s.made}

\* The occurrences still ahead of the pointer; those before the rule was made
\* are skipped.
Candidates(s) ==
  {d \in Occurrences(s) : d >= Seed(s) /\ d >= s.made /\ (s.end # None => d <= s.end)}

Ahead(s, day) == {d \in Candidates(s) : d > day}

\* Mutation: what was missed on earlier days is not made up for.
GeneratedFromToday(s, pending, day) ==
  {d \in Candidates(s) : d >= day /\
     (d = day \/ s.all \/ pending + Cardinality({e \in Ahead(s, day) : e < d}) < s.upfront)}

\* The occurrences the loop handles: all that are due, and later ones while
\* the window of pending future rows has room.
Generated(s, pending, day) ==
  {d \in Candidates(s) :
     d <= day \/ s.all \/ pending + Cardinality({e \in Ahead(s, day) : e < d}) < s.upfront}

Latest(S) == CHOOSE d \in S : \A e \in S : e <= d

EndDateAllowed(p) == p.end # None => p.end >= p.start

MaterializeAllAllowed(p, ptr, made) ==
  p.all => p.end # None /\ Cardinality(Candidates(Row(p, ptr, made))) <= MaxAll

\* rows is the table of planned rows.
LinkedTo(rows, r) == {i \in DOMAIN rows : rows[i] # None /\ rows[i].rule = r}

HoldsSlot(x, day) == x.status = "pending" /\ x.date > day

FuturePending(rows, r, day) == {i \in LinkedTo(rows, r) : HoldsSlot(rows[i], day)}

\* The partial unique constraint (recurring, planned_date).
Occupied(rows, r, d) == \E i \in LinkedTo(rows, r) : rows[i].date = d

\* The ids of the rows inserted for the occurrences G of rule r.
FreshIds(rows, r, G) ==
  {i \in GeneratedIds :
     /\ i[1] = r /\ i[2] \in G /\ ~Occupied(rows, r, i[2])
     /\ rows[i] = None /\ \A n \in Copies : n < i[3] => rows[<<r, i[2], n>>] # None}

-----------------------------------------------------------------------------
\* _generate_for_rule on the locked row s: insert the rows, move the pointer,
\* also past occurrences that found their day occupied.
Generate(r, s, day, rows) ==
  LET G == IF s.active
           THEN Generated(s, Cardinality(FuturePending(rows, r, day)), day) ELSE {}
      new == FreshIds(rows, r, G) IN
  /\ plan' = [i \in DOMAIN rows |->
                IF i \in new THEN [rule |-> r, date |-> i[2], status |-> "pending"]
                ELSE rows[i]]
  /\ rule' = [rule EXCEPT ![r] = IF G = {} THEN s ELSE [s EXCEPT !.ptr = Latest(G)]]
  /\ emitted' = emitted \cup {<<i[1], i[2]>> : i \in new}

\* A bound on the users.
Edit == edits < MaxEdits /\ edits' = edits + 1

\* POST /recurring-transactions, one transaction.
Create(r, p) ==
  /\ r \notin born
  /\ EndDateAllowed(p)
  /\ MaterializeAllAllowed(p, None, today)
  /\ born' = born \cup {r}
  /\ Generate(r, Row(p, None, today), today, plan)
  /\ UNCHANGED <<today, client, rewound, pass, faults, edits>>

\* The same, adopting a pending planned row as the first occurrence.
CreateAdopting(r, p, i) ==
  /\ r \notin born
  /\ plan[i] # None
  /\ plan[i].status = "pending" /\ plan[i].rule = None
  /\ EndDateAllowed(p)
  /\ MaterializeAllAllowed(p, plan[i].date, today)
  /\ born' = born \cup {r}
  /\ Generate(r, Row(p, plan[i].date, today), today, [plan EXCEPT ![i].rule = r])
  /\ UNCHANGED <<today, client, rewound, pass, faults, edits>>

\* PUT /recurring-transactions/{id}: the unlocked read.
BeginUpdate(c, r, p) ==
  /\ Edit
  /\ client[c].pc = "idle"
  /\ rule[r] # None
  /\ EndDateAllowed(p)
  /\ MaterializeAllAllowed(p, rule[r].ptr, rule[r].made)
  /\ client' = [client EXCEPT ![c] =
                  [pc |-> "save", rule |-> r, row |-> Row(p, rule[r].ptr, rule[r].made)]]
  /\ UNCHANGED <<today, born, rule, plan, emitted, rewound, pass, faults>>

\* save() writes every column, the pointer included, and generates in the same
\* transaction.  A row deleted meanwhile is inserted again, made today.
SaveUpdate(c) ==
  /\ client[c].pc = "save"
  /\ LET r == client[c].rule
         s == client[c].row IN
     /\ Generate(r, IF rule[r] = None THEN [s EXCEPT !.made = today] ELSE s, today, plan)
     /\ rewound' = IF rule[r] # None /\ rule[r].ptr = s.ptr THEN rewound
                   ELSE rewound \cup {r}
  /\ client' = [client EXCEPT ![c] = Idle]
  /\ UNCHANGED <<today, born, pass, faults, edits>>

\* DELETE /recurring-transactions/{id}: with delete_pending its pending rows
\* too; the others lose their link.
DeleteRule(r, deletePending) ==
  /\ Edit
  /\ rule[r] # None
  /\ rule' = [rule EXCEPT ![r] = None]
  /\ plan' = [i \in DOMAIN plan |->
                IF i \notin LinkedTo(plan, r) THEN plan[i]
                ELSE IF deletePending /\ plan[i].status = "pending" THEN None
                ELSE [plan[i] EXCEPT !.rule = None]]
  /\ UNCHANGED <<today, born, emitted, client, rewound, pass, faults>>

-----------------------------------------------------------------------------
(* The nightly task.                                                       *)

\* generate_due scans the active rules of all workspaces.
StartPass(n) ==
  /\ pass[n].pc = "idle"
  /\ pass' = [pass EXCEPT ![n] =
                [pc |-> "running", day |-> today,
                 todo |-> {r \in Rules : rule[r] # None /\ rule[r].active}]]
  /\ UNCHANGED <<today, born, rule, plan, emitted, client, rewound, faults, edits>>

\* One rule, locked and read again: it may be paused or gone by now.
HandleRule(n, r) ==
  /\ pass[n].pc = "running"
  /\ r \in pass[n].todo
  /\ IF rule[r] = None
     THEN UNCHANGED <<rule, plan, emitted>>
     ELSE Generate(r, rule[r], pass[n].day, plan)
  /\ pass' = [pass EXCEPT ![n].todo = @ \ {r}]
  /\ UNCHANGED <<today, born, client, rewound, faults, edits>>

FinishPass(n) ==
  /\ pass[n].pc = "running"
  /\ pass[n].todo = {}
  /\ pass' = [pass EXCEPT ![n] = Stopped]
  /\ UNCHANGED <<today, born, rule, plan, emitted, client, rewound, faults, edits>>

\* The worker dies or one rule raises: the rules left over wait for the retry
\* or for the next night.
AbortPass(n) ==
  /\ pass[n].pc = "running"
  /\ faults < MaxFaults
  /\ faults' = faults + 1
  /\ pass' = [pass EXCEPT ![n] = Stopped]
  /\ UNCHANGED <<today, born, rule, plan, emitted, client, rewound, edits>>

-----------------------------------------------------------------------------
(* Users and time.                                                         *)

\* A generated or adopted row is executed or cancelled.
SettlePlan(i) ==
  /\ Edit
  /\ plan[i] # None /\ plan[i].rule # None /\ plan[i].status = "pending"
  /\ plan' = [plan EXCEPT ![i].status = "closed"]
  /\ UNCHANGED <<today, born, rule, emitted, client, rewound, pass, faults>>

\* It is deleted: the user skips this occurrence.
DeletePlan(i) ==
  /\ Edit
  /\ plan[i] # None /\ plan[i].rule # None
  /\ plan' = [plan EXCEPT ![i] = None]
  /\ UNCHANGED <<today, born, rule, emitted, client, rewound, pass, faults>>

Tick ==
  /\ today < LastDay
  /\ today' = today + 1
  /\ UNCHANGED <<born, rule, plan, emitted, client, rewound, pass, faults, edits>>

Next ==
  \/ \E r \in Rules, p \in Payloads :
       \/ Create(r, p)
       \/ \E i \in Singles : CreateAdopting(r, p, i)
       \/ \E c \in Clients : BeginUpdate(c, r, p)
  \/ \E c \in Clients : SaveUpdate(c)
  \/ \E r \in Rules, b \in BOOLEAN : DeleteRule(r, b)
  \/ \E n \in Passes :
       \/ StartPass(n) \/ FinishPass(n) \/ AbortPass(n)
       \/ \E r \in Rules : HandleRule(n, r)
  \/ \E i \in DOMAIN plan : SettlePlan(i) \/ DeletePlan(i)
  \/ Tick

Spec == Init /\ [][Next]_vars

\* The beat fires every night and its task handles the rules one by one; a
\* request that was read is saved.  Faults are finitely many.
Fairness ==
  /\ \A c \in Clients : WF_vars(SaveUpdate(c))
  /\ \A n \in Passes :
       /\ WF_vars(StartPass(n)) /\ WF_vars(FinishPass(n))
       /\ \A r \in Rules : WF_vars(HandleRule(n, r))

FairSpec == Spec /\ Fairness

-----------------------------------------------------------------------------
(* Properties.                                                             *)

\* Types, with the check constraints of the table: a rule that broke one would
\* have failed with an IntegrityError instead of being stored.
TypeOK ==
  /\ today \in Days
  /\ born \subseteq Rules
  /\ rule \in [Rules -> Rule \cup {None}]
  /\ plan \in [Ids -> Plan \cup {None}]
  /\ emitted \subseteq Rules \X Days /\ rewound \subseteq Rules
  /\ client \in [Clients -> Client]
  /\ pass \in [Passes -> Pass]
  /\ faults \in 0..MaxFaults /\ edits \in 0..MaxEdits
  /\ \A r \in Rules : rule[r] # None =>
       /\ rule[r].end # None => rule[r].end >= rule[r].start
       /\ rule[r].all => rule[r].end # None

New(i) == plan[i] = None /\ plan'[i] # None

\* "last_generated_date is the occurrence pointer guaranteeing an occurrence
\* never generates twice": not even after its row was deleted, executed or
\* cancelled, after faults and repeated passes, or after edits that overlap with
\* them.  Only an update that saved another pointer than the row had, or brought a
\* deleted rule back, makes a rule generate again what it has generated.
NeverTwice ==
  [][\A i \in GeneratedIds :
       New(i) /\ i[1] \notin rewound' => <<i[1], i[2]>> \notin emitted]_vars

\* Does not hold: an update saves the pointer it read, over the newer one of a pass.
NeverRewound == rewound = {}

\* What the rule's schedule has left, and the pending rows after a day, said
\* without the generator's own terms.
Remaining(s) == {d \in Occurrences(s) : /\ s.ptr # None => d > s.ptr
                                        /\ d >= s.made
                                        /\ s.end # None => d <= s.end}

PendingAfter(rows, r, day) ==
  Cardinality({i \in DOMAIN rows : /\ rows[i] # None /\ rows[i].rule = r
                                   /\ rows[i].status = "pending" /\ rows[i].date > day})

\* Rows appear only for active rules, between their creation and their end, and
\* a row ahead of today never overfills the window.
GeneratesWithinRule ==
  [][\A i \in GeneratedIds : New(i) =>
       LET s == rule'[i[1]] IN
       /\ s.active /\ i[2] >= s.made
       /\ s.end # None => i[2] <= s.end
       /\ i[2] > today /\ ~s.all => PendingAfter(plan', i[1], today) <= s.upfront]_vars

\* "the loop maintains the invariant upfront_count PENDING rows with planned_date
\* > today per rule (ALL remaining occurrences when materialize_all is set)":
\* there are fewer after a pass handled a rule that no update wrote over only when
\* the rule has ended.
WindowFull ==
  [][\A n \in Passes, r \in Rules :
       /\ pass[n].pc = "running" /\ pass'[n].pc = "running"
       /\ r \in pass[n].todo \ pass'[n].todo
       /\ rule[r] # None /\ rule[r].active /\ r \notin rewound
       => \/ Remaining(rule'[r]) = {}
          \/ ~rule[r].all /\ PendingAfter(plan', r, pass[n].day) >= rule[r].upfront]_vars

Moves(r) ==
  rule[r] # None /\ rule'[r] # None /\ rule'[r].ptr \notin {None, rule[r].ptr}

\* The step is an update that saves a pointer ahead of the stored one: another
\* update had moved that one back.
Leaps(r) ==
  \E c \in Clients :
    /\ client[c].pc = "save" /\ client'[c].pc = "idle" /\ client[c].rule = r
    /\ client[c].row.ptr # None
    /\ rule[r].ptr # None => client[c].row.ptr > rule[r].ptr

\* "downtime must not lose rows": the pointer passes no occurrence of the rule's
\* schedule that was not generated, also when updates overlap with passes and
\* move it back.
NoOccurrenceLost ==
  [][\A r \in Rules :
       Moves(r) /\ ~Leaps(r) =>
         \A d \in Remaining([rule'[r] EXCEPT !.ptr = rule[r].ptr]) :
           d <= rule'[r].ptr => <<r, d>> \in emitted']_vars

Behind(r) ==
  rule[r] # None /\ rule[r].active /\ \E d \in Remaining(rule[r]) : d <= today

\* An active rule that is behind catches up, is paused or is deleted.
CatchesUp == \A r \in Rules : Behind(r) ~> ~Behind(r)
=============================================================================
