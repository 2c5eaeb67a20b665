-------------------------- MODULE Recurring_proofs --------------------------
(***************************************************************************)
(* Theorems of Recurring, for every schedule, window and number of rules,  *)
(* passes and requests, however updates overlap with passes, deletions and *)
(* each other.  An update that saves an older pointer moves it back: the   *)
(* rule is in rewound from then on, and may generate again what it has     *)
(* generated, but still passes nothing over.                               *)
(***************************************************************************)
EXTENDS Recurring, TLAPS, FiniteSetTheorems, WellFoundedInduction

-----------------------------------------------------------------------------
RuleAllowed(s) == (s.end # None => s.end >= s.start) /\ (s.all => s.end # None)

\* A request about to save knows its rule, and the row is one the table accepts.
Shape ==
  \A c \in Clients : client[c].pc = "save" =>
    client[c].rule \in Rules /\ client[c].row \in Rule /\ RuleAllowed(client[c].row)

TypeInv == TypeOK /\ Shape

\* s is a row of rule r, rows a table of plans.  The pointer has reached every
\* occurrence that was generated.
Covers(s, r, done) == \A d \in Days : <<r, d>> \in done => s.ptr # None /\ d <= s.ptr

\* A plan that carries the rule stands for an occurrence that was generated, or for one
\* the pointer has reached: the adopted one.
Backed(s, r, rows, done) ==
  \A i \in Ids : rows[i] # None /\ rows[i].rule = r =>
    <<r, rows[i].date>> \in done \/ (s.ptr # None /\ rows[i].date <= s.ptr)

\* The ids of the generated plans tell what was generated.
Recorded(rows, done) == \A i \in GeneratedIds : rows[i] # None => <<i[1], i[2]>> \in done

\* The pointer of a rule that no update wrote over has reached what was generated.
Pointers ==
  \A r \in Rules : rule[r] # None =>
    /\ r \in born /\ Backed(rule[r], r, plan, emitted)
    /\ r \notin rewound => Covers(rule[r], r, emitted)

\* Nothing names a rule that is not there, and nothing was generated for one that
\* never was.
Linked ==
  /\ \A i \in Ids : plan[i] # None /\ plan[i].rule # None => rule[plan[i].rule] # None
  /\ \A r \in Rules, d \in Days : <<r, d>> \in emitted => r \in born

\* However old the pointer is that an update is about to save: the plans of its rule
\* were generated since, or that pointer has reached them.
Fresh ==
  \A c \in Clients : client[c].pc = "save" =>
    client[c].rule \in born /\ Backed(client[c].row, client[c].rule, plan, emitted)

PointerInv == TypeInv /\ Pointers /\ Linked /\ Recorded(plan, emitted) /\ Fresh

-----------------------------------------------------------------------------
(* The parts of a generation.                                              *)

LEMMA LeastNumber ==
  ASSUME NEW S \in SUBSET Nat, S # {}
  PROVE  \E x \in S : \A y \in S : x <= y
  <1> DEFINE R == {p \in Nat \X Nat : p[1] < p[2]}
  <1>1. IsWellFoundedOn(R, Nat)
    BY NatLessThanWellFounded DEF OpToRel
  <1>2. PICK x \in S : \A y \in S : <<y, x>> \notin R
    <2> HIDE DEF R
    <2> QED
      BY <1>1, WFMin
  <1>3. ASSUME NEW y \in S
        PROVE  x <= y
    <2>1. <<y, x>> \in Nat \X Nat
      OBVIOUS
    <2>2. ~(y < x)
      BY <1>2, <2>1
    <2> QED
      BY <2>2
  <1> QED
    BY <1>3

\* The days end, so a set of them has a last one.
LEMMA LatestIsLast ==
  ASSUME NEW S \in SUBSET Days, S # {}
  PROVE  Latest(S) \in S /\ \A e \in S : e <= Latest(S)
  <1> DEFINE T == {Horizon - d : d \in S}
  <1>0. Horizon \in Nat /\ S \subseteq 0..Horizon
    BY ConstantsAssumption DEF Days
  <1>1. T \in SUBSET Nat /\ T # {}
    <2>1. \A d \in S : Horizon - d \in Nat
      BY <1>0
    <2> QED
      BY <2>1
  <1>2. PICK n \in T : \A m \in T : n <= m
    <2> HIDE DEF T
    <2> QED
      BY <1>1, LeastNumber
  <1>3. PICK d \in S : n = Horizon - d
    BY <1>2
  <1>4. \A e \in S : e <= d
    <2> SUFFICES ASSUME NEW e \in S PROVE e <= d
      OBVIOUS
    <2>1. Horizon - e \in T
      OBVIOUS
    <2>2. n <= Horizon - e
      BY <1>2, <2>1
    <2>3. d \in 0..Horizon /\ e \in 0..Horizon
      BY <1>0
    <2> QED
      BY <1>0, <1>3, <2>2, <2>3
  <1> QED
    BY <1>4 DEF Latest

LEMMA CandidatesAreDays ==
  ASSUME NEW s, NEW pending, NEW day
  PROVE  /\ Candidates(s) \subseteq Days
         /\ Generated(s, pending, day) \subseteq Candidates(s)
  BY DEF Candidates, Occurrences, Generated

\* No candidate lies at or behind the pointer.
LEMMA CandidatesAhead ==
  ASSUME NEW s \in Rule, s.ptr # None, NEW d \in Candidates(s)
  PROVE  d > s.ptr
  <1>1. s.ptr \in Days /\ d \in Days
    BY CandidatesAreDays DEF Rule
  <1> QED
    BY <1>1, ConstantsAssumption DEF Candidates, Seed, Days

\* What the schedule has left behind a pointer p is what the generator looks at when
\* it starts from p or from further back.
LEMMA RemainingAreCandidates ==
  ASSUME NEW s \in Rule, NEW t \in Rule, NEW p \in Days \cup {None},
         t.start = s.start, t.every = s.every, t.end = s.end, t.made = s.made,
         p = s.ptr \/ s.ptr = None \/ (p # None /\ s.ptr <= p)
  PROVE  \A d \in Remaining([t EXCEPT !.ptr = p]) : d \in Candidates(s) /\ (p # None => d > p)
  <1> DEFINE u == [t EXCEPT !.ptr = p]
  <1>1. u.start = s.start /\ u.every = s.every /\ u.end = s.end /\ u.made = s.made /\ u.ptr = p
    BY DEF Rule
  <1>2. Occurrences(u) = Occurrences(s)
    BY <1>1 DEF Occurrences
  <1> HIDE DEF u
  <1>3. Remaining(u) = {d \in Occurrences(s) : /\ p # None => d > p
                                               /\ d >= s.made
                                               /\ s.end # None => d <= s.end}
    BY <1>1, <1>2 DEF Remaining
  <1>4. ASSUME NEW d \in Occurrences(s), d >= s.made, p # None => d > p
        PROVE  d >= Seed(s)
    <2>1. d \in 0..Horizon /\ d >= s.start
      BY DEF Occurrences, Days
    <2>2. /\ s.start \in 0..Horizon /\ s.made \in 0..Horizon /\ s.ptr \in 0..Horizon \cup {None}
          /\ p \in 0..Horizon \cup {None}
      BY DEF Rule, Days
    <2> QED
      BY <1>4, <2>1, <2>2, ConstantsAssumption DEF Seed
  <1> QED
    BY <1>3, <1>4 DEF Candidates, u

\* The window fills from the front: before an occurrence that is generated none is
\* left out.
LEMMA GeneratedFromTheFront ==
  ASSUME NEW s \in Rule, NEW pending \in Nat, NEW day \in Days,
         NEW d \in Generated(s, pending, day), NEW e \in Candidates(s), e <= d
  PROVE  e \in Generated(s, pending, day)
  <1> DEFINE A(x) == {o \in Ahead(s, day) : o < x}
  <1>1. /\ d \in 0..Horizon /\ e \in 0..Horizon /\ day \in 0..Horizon /\ Horizon \in Nat
        /\ Ahead(s, day) \subseteq 0..Horizon
    BY CandidatesAreDays, ConstantsAssumption DEF Days, Ahead
  <1>2. IsFiniteSet(Ahead(s, day))
    <2>1. IsFiniteSet(0..Horizon)
      BY <1>1, FS_Interval
    <2> QED
      BY <1>1, <2>1, FS_Subset
  <1>3. A(e) \subseteq A(d)
    BY <1>1
  <1>4. IsFiniteSet(A(d))
    BY <1>2, FS_Subset
  <1>5. Cardinality(A(e)) <= Cardinality(A(d)) /\ IsFiniteSet(A(e))
    BY <1>3, <1>4, FS_Subset
  <1>6. Cardinality(A(e)) \in Nat /\ Cardinality(A(d)) \in Nat
    BY <1>4, <1>5, FS_CardinalityType
  <1>7. d <= day \/ s.all \/ pending + Cardinality(A(d)) < s.upfront
    BY DEF Generated
  <1>8. s.upfront \in 1..24
    BY DEF Rule
  <1> HIDE DEF A
  <1>9. e <= day \/ s.all \/ pending + Cardinality(A(e)) < s.upfront
    BY <1>1, <1>5, <1>6, <1>7, <1>8
  <1> QED
    BY <1>9 DEF Generated, A

\* An occurrence none of whose ids is taken and whose day is free has an id.
LEMMA FreshIdExists ==
  ASSUME NEW rows, NEW r \in Rules, NEW G \in SUBSET Days, NEW d \in G,
         ~Occupied(rows, r, d), \A n \in Copies : rows[<<r, d, n>>] = None
  PROVE  \E i \in FreshIds(rows, r, G) : i[1] = r /\ i[2] = d
  <1>1. PICK n \in Copies : \A m \in Copies : n <= m
    BY TableAssumption, LeastNumber
  <1> DEFINE i == <<r, d, n>>
  <1>2. i \in GeneratedIds /\ i[1] = r /\ i[2] = d /\ i[3] = n
    BY DEF GeneratedIds
  <1>3. \A m \in Copies : ~(m < i[3])
    BY <1>1, <1>2, TableAssumption
  <1>4. i \in FreshIds(rows, r, G)
    BY <1>2, <1>3 DEF FreshIds
  <1> QED
    BY <1>2, <1>4

-----------------------------------------------------------------------------
(* A generation as a whole: rule r with the row s, over a table of plans.  *)

SameRule(t, s) ==
  /\ t.start = s.start /\ t.every = s.every /\ t.upfront = s.upfront /\ t.all = s.all
  /\ t.end = s.end /\ t.active = s.active /\ t.made = s.made

\* The occurrences G it handles, and what it does with them.
Handles(G, r, s, day, rows) ==
  /\ s.active => G = Generated(s, Cardinality(FuturePending(rows, r, day)), day)
  /\ ~s.active => G = {}
  /\ rule'[r].ptr = IF G = {} THEN s.ptr ELSE Latest(G)
  /\ \A i \in Ids : plan'[i] = IF i \in FreshIds(rows, r, G)
                               THEN [rule |-> r, date |-> i[2], status |-> "pending"]
                               ELSE rows[i]
  /\ emitted' = emitted \cup {<<i[1], i[2]>> : i \in FreshIds(rows, r, G)}

\* What it does to the tables, whatever has happened before.
LEMMA GenerateTables ==
  ASSUME NEW r \in Rules, NEW s \in Rule, NEW day \in Days,
         NEW rows \in [Ids -> Plan \cup {None}],
         rule \in [Rules -> Rule \cup {None}], emitted \subseteq Rules \X Days,
         Generate(r, s, day, rows)
  PROVE  /\ rule' \in [Rules -> Rule \cup {None}] /\ rule'[r] \in Rule /\ SameRule(rule'[r], s)
         /\ \A q \in Rules : q # r => rule'[q] = rule[q]
         /\ plan' \in [Ids -> Plan \cup {None}]
         /\ emitted' \subseteq Rules \X Days
         /\ \E G \in SUBSET Candidates(s) : Handles(G, r, s, day, rows)
  <1>1. PICK G : /\ G = IF s.active
                        THEN Generated(s, Cardinality(FuturePending(rows, r, day)), day) ELSE {}
                 /\ plan' = [i \in DOMAIN rows |->
                               IF i \in FreshIds(rows, r, G)
                               THEN [rule |-> r, date |-> i[2], status |-> "pending"] ELSE rows[i]]
                 /\ rule' = [rule EXCEPT ![r] = IF G = {} THEN s ELSE [s EXCEPT !.ptr = Latest(G)]]
                 /\ emitted' = emitted \cup {<<i[1], i[2]>> : i \in FreshIds(rows, r, G)}
    BY DEF Generate
  <1>2. G \subseteq Candidates(s) /\ G \subseteq Days
    BY <1>1, CandidatesAreDays
  <1>3. G # {} => Latest(G) \in Days
    BY <1>2, LatestIsLast
  <1> DEFINE t == IF G = {} THEN s ELSE [s EXCEPT !.ptr = Latest(G)]
  <1>4. t \in Rule /\ SameRule(t, s) /\ t.ptr = IF G = {} THEN s.ptr ELSE Latest(G)
    <2>1. CASE G = {}
      BY <2>1 DEF SameRule
    <2>2. CASE G # {}
      BY <1>3, <2>2 DEF SameRule, Rule
    <2> QED
      BY <2>1, <2>2
  <1>5. rule' = [rule EXCEPT ![r] = t]
    BY <1>1
  <1> HIDE DEF t
  <1>6. rule' \in [Rules -> Rule \cup {None}] /\ rule'[r] = t
        /\ \A q \in Rules : q # r => rule'[q] = rule[q]
    BY <1>4, <1>5
  <1>7. \A i \in FreshIds(rows, r, G) : i \in GeneratedIds /\ i[1] \in Rules /\ i[2] \in Days
    BY DEF FreshIds, GeneratedIds
  <1>8. emitted' \subseteq Rules \X Days
    BY <1>1, <1>7
  <1>9. plan' \in [Ids -> Plan \cup {None}]
    <2>1. \A i \in FreshIds(rows, r, G) : [rule |-> r, date |-> i[2], status |-> "pending"] \in Plan
      BY <1>7 DEF Plan
    <2> QED
      BY <1>1, <2>1
  <1>10. Handles(G, r, s, day, rows)
    BY <1>1, <1>4, <1>6 DEF Handles
  <1> QED
    BY <1>2, <1>4, <1>6, <1>8, <1>9, <1>10

\* It leaves the plans of the table as they are, and adds some of what it generated.
OnlyAdds(r, rows) ==
  \A i \in Ids :
    \/ plan'[i] = rows[i]
    \/ rows[i] = None /\ plan'[i].rule = r /\ <<r, plan'[i].date>> \in emitted'

\* What it does when the plans of the rule were generated or reached by the pointer:
\* it is so again, what is new was generated now, and no candidate is passed over.  If the
\* pointer had reached all that was generated, it has again, and what is new was never
\* there.
LEMMA GenerateKeepsPointer ==
  ASSUME NEW r \in Rules, NEW s \in Rule, NEW day \in Days,
         NEW rows \in [Ids -> Plan \cup {None}],
         rule \in [Rules -> Rule \cup {None}], emitted \subseteq Rules \X Days,
         Backed(s, r, rows, emitted), Recorded(rows, emitted),
         Generate(r, s, day, rows)
  PROVE  /\ Backed(rule'[r], r, plan', emitted')
         /\ Recorded(plan', emitted')
         /\ emitted \subseteq emitted'
         /\ \A q \in Rules, d \in Days : <<q, d>> \in emitted' => <<q, d>> \in emitted \/ q = r
         /\ OnlyAdds(r, rows)
         /\ Covers(s, r, emitted) =>
              /\ Covers(rule'[r], r, emitted')
              /\ \A i \in GeneratedIds :
                   rows[i] = None /\ plan'[i] # None => <<i[1], i[2]>> \notin emitted
         /\ rule'[r].ptr # s.ptr =>
              \A d \in Candidates(s) : d <= rule'[r].ptr => <<r, d>> \in emitted'
  <1>a. PICK G \in SUBSET Candidates(s) : Handles(G, r, s, day, rows)
    BY GenerateTables
  <1>0. /\ s.active => G = Generated(s, Cardinality(FuturePending(rows, r, day)), day)
        /\ ~s.active => G = {}
        /\ rule'[r].ptr = IF G = {} THEN s.ptr ELSE Latest(G)
        /\ \A i \in Ids : plan'[i] = IF i \in FreshIds(rows, r, G)
                                     THEN [rule |-> r, date |-> i[2], status |-> "pending"]
                                     ELSE rows[i]
        /\ emitted' = emitted \cup {<<i[1], i[2]>> : i \in FreshIds(rows, r, G)}
    BY <1>a DEF Handles
  <1> DEFINE new == FreshIds(rows, r, G)
             ptr == rule'[r].ptr
  <1>1. G \subseteq Days /\ None \notin Days /\ \A d \in Days : d \in Nat
    BY CandidatesAreDays, ConstantsAssumption DEF Days
  <1>2. \A i \in new : /\ i \in GeneratedIds /\ i \in Ids /\ i[1] = r /\ i[2] \in G
                       /\ rows[i] = None
    BY DEF FreshIds, Ids
  <1>3. s.ptr \in Days \cup {None}
    BY DEF Rule
  <1>b. G # {} => Latest(G) \in G /\ \A d \in G : d <= Latest(G)
    BY <1>1, LatestIsLast
  <1>4. \A d \in G : ptr # None /\ d <= ptr
    BY <1>0, <1>1, <1>b
  <1>5. s.ptr # None => ptr # None /\ s.ptr <= ptr
    <2>1. CASE G = {}
      BY <1>0, <1>1, <1>3, <2>1
    <2>2. CASE G # {}
      <3>1. PICK d \in G : TRUE
        BY <2>2
      <3>2. s.ptr # None => d > s.ptr
        BY CandidatesAhead
      <3>3. ptr \in Days
        BY <1>0, <1>1, <2>2, LatestIsLast
      <3> QED
        BY <1>1, <1>3, <1>4, <3>1, <3>2, <3>3
    <2> QED
      BY <2>1, <2>2
  <1>6. ptr \in Days \cup {None}
    BY <1>0, <1>1, <1>3, LatestIsLast
  <1> HIDE DEF ptr
  <1>7. \A q, d : <<q, d>> \in emitted' => <<q, d>> \in emitted \/ (q = r /\ d \in G)
    BY <1>0, <1>2
  <1>8. \A i \in Ids : plan'[i] = rows[i]
          \/ (i \in new /\ plan'[i] = [rule |-> r, date |-> i[2], status |-> "pending"])
    BY <1>0
  <1>9. Covers(s, r, emitted) => Covers(rule'[r], r, emitted')
    <2> SUFFICES ASSUME Covers(s, r, emitted), NEW d \in Days, <<r, d>> \in emitted'
                 PROVE  ptr # None /\ d <= ptr
      BY DEF Covers, ptr
    <2>1. CASE <<r, d>> \in emitted
      <3>1. s.ptr # None /\ d <= s.ptr
        BY <2>1 DEF Covers
      <3> QED
        BY <1>1, <1>3, <1>5, <1>6, <3>1
    <2>2. CASE d \in G
      BY <1>4, <2>2
    <2> QED
      BY <1>7, <2>1, <2>2
  <1>16. ASSUME NEW i \in new
         PROVE  <<r, i[2]>> \in emitted'
    BY <1>0, <1>2
  <1>10. Backed(rule'[r], r, plan', emitted')
    <2> SUFFICES ASSUME NEW i \in Ids, plan'[i] # None, plan'[i].rule = r
                 PROVE  <<r, plan'[i].date>> \in emitted' \/ (ptr # None /\ plan'[i].date <= ptr)
      BY DEF Backed, ptr
    <2>1. CASE plan'[i] = rows[i]
      <3>1. <<r, rows[i].date>> \in emitted
              \/ (s.ptr # None /\ rows[i].date <= s.ptr /\ rows[i].date \in Days)
        BY <2>1 DEF Backed, Plan
      <3> QED
        BY <1>0, <1>1, <1>3, <1>5, <1>6, <2>1, <3>1
    <2>2. CASE i \in new /\ plan'[i] = [rule |-> r, date |-> i[2], status |-> "pending"]
      BY <1>16, <2>2
    <2> QED
      BY <1>8, <2>1, <2>2
  <1>11. Recorded(plan', emitted')
    <2> SUFFICES ASSUME NEW i \in GeneratedIds, plan'[i] # None
                 PROVE  <<i[1], i[2]>> \in emitted'
      BY DEF Recorded
    <2>1. CASE i \in new
      BY <1>0, <2>1
    <2>2. CASE i \notin new
      BY <1>0, <2>2 DEF Recorded, Ids
    <2> QED
      BY <2>1, <2>2
  <1>12. \A q \in Rules, d \in Days : <<q, d>> \in emitted' => <<q, d>> \in emitted \/ q = r
    BY <1>7
  <1>13. ASSUME NEW i \in Ids
         PROVE  \/ plan'[i] = rows[i]
                \/ rows[i] = None /\ plan'[i].rule = r /\ <<r, plan'[i].date>> \in emitted'
    <2>1. CASE i \in new /\ plan'[i] = [rule |-> r, date |-> i[2], status |-> "pending"]
      BY <1>2, <1>16, <2>1
    <2> QED
      BY <1>8, <2>1
  <1>14. ASSUME Covers(s, r, emitted), NEW i \in GeneratedIds, rows[i] = None, plan'[i] # None, <<i[1], i[2]>> \in emitted
         PROVE  FALSE
    <2>1. i \in new
      BY <1>0, <1>14 DEF Ids
    <2>2. i[1] = r /\ i[2] \in G /\ i[2] \in Days
      BY <1>1, <1>2, <2>1
    <2>3. s.ptr # None /\ i[2] <= s.ptr
      BY <1>14, <2>2 DEF Covers
    <2>4. i[2] > s.ptr
      BY <2>2, <2>3, CandidatesAhead
    <2> QED
      BY <1>1, <1>3, <2>2, <2>3, <2>4
  <1>15. ASSUME ptr # s.ptr, NEW d \in Candidates(s), d <= ptr
         PROVE  <<r, d>> \in emitted'
    <2>1. G # {} /\ s.active /\ ptr = Latest(G)
      BY <1>0, <1>15 DEF ptr
    <2>2. Latest(G) \in G
      BY <1>1, <2>1, LatestIsLast
    <2>3. Cardinality(FuturePending(rows, r, day)) \in Nat
      <3>1. FuturePending(rows, r, day) \subseteq Ids
        BY DEF FuturePending, LinkedTo
      <3> QED
        BY <3>1, TableAssumption, FS_Subset, FS_CardinalityType
    <2>4. d \in G
      BY <1>0, <1>15, <2>1, <2>2, <2>3, GeneratedFromTheFront
    <2>5. d \in Days /\ (s.ptr # None => d > s.ptr)
      BY <1>1, <2>4, CandidatesAhead
    <2>6. CASE <<r, d>> \in emitted
      BY <1>0, <2>6
    <2> SUFFICES ASSUME <<r, d>> \notin emitted
                 PROVE  <<r, d>> \in emitted'
      BY <2>6
    <2>7. ~Occupied(rows, r, d)
      <3> SUFFICES ASSUME NEW i \in Ids, rows[i] # None, rows[i].rule = r, rows[i].date = d
                   PROVE  FALSE
        BY DEF Occupied, LinkedTo
      <3>1. s.ptr # None /\ d <= s.ptr
        BY DEF Backed
      <3> QED
        BY <1>1, <1>3, <2>5, <3>1
    <2>8. \A n \in Copies : rows[<<r, d, n>>] = None
      <3> SUFFICES ASSUME NEW n \in Copies, rows[<<r, d, n>>] # None
                   PROVE  FALSE
        OBVIOUS
      <3>1. <<r, d, n>> \in GeneratedIds /\ <<r, d, n>>[1] = r /\ <<r, d, n>>[2] = d
        BY <2>5 DEF GeneratedIds
      <3> QED
        BY <3>1 DEF Recorded
    <2>9. PICK i \in new : i[1] = r /\ i[2] = d
      BY <1>1, <2>4, <2>7, <2>8, FreshIdExists
    <2> QED
      BY <1>0, <2>9
  <1> QED
    BY <1>0, <1>9, <1>10, <1>11, <1>12, <1>13, <1>14, <1>15 DEF ptr, OnlyAdds

-----------------------------------------------------------------------------
(* The steps of the specification.                                         *)

LEMMA NewRow ==
  ASSUME NEW p \in Payload, NEW ptr \in Days \cup {None}, NEW made \in Days
  PROVE  /\ Row(p, ptr, made) \in Rule /\ Row(p, ptr, made).ptr = ptr
         /\ EndDateAllowed(p) /\ (p.all => p.end # None) => RuleAllowed(Row(p, ptr, made))
  BY DEF Row, Rule, Payload, EndDateAllowed, RuleAllowed

LEMMA InitPointers == Init => PointerInv
  <1> SUFFICES ASSUME Init PROVE PointerInv
    OBVIOUS
  <1>0. Horizon \in Nat /\ LastDay \in 0..Horizon
    BY ConstantsAssumption DEF Days
  <1>1. PICK d \in [Singles -> 0..LastDay] :
          plan = [i \in Ids |-> IF i \in Singles THEN [rule |-> None, date |-> d[i], status |-> "pending"]
                                ELSE None]
    BY DEF Init
  <1>2. plan \in [Ids -> Plan \cup {None}]
    <2>1. \A i \in Singles : [rule |-> None, date |-> d[i], status |-> "pending"] \in Plan
      BY <1>0 DEF Plan, Days
    <2> QED
      BY <1>1, <2>1
  <1>3. /\ \A i \in GeneratedIds : plan[i] = None
        /\ \A i \in Ids : plan[i] # None => plan[i].rule = None
    BY <1>1, TableAssumption DEF Ids
  <1>4. Idle \in Client /\ Stopped \in Pass /\ Idle.pc = "idle"
    BY <1>0 DEF Idle, Client, Stopped, Pass, Days
  <1>5. TypeOK
    BY <1>0, <1>2, <1>4, ConstantsAssumption DEF Init, TypeOK, Days
  <1>6. \A c \in Clients : client[c].pc = "idle"
    BY <1>4 DEF Init
  <1>7. Shape /\ Fresh
    BY <1>6 DEF Shape, Fresh
  <1>8. Pointers /\ Linked /\ Recorded(plan, emitted)
    BY <1>3 DEF Init, Pointers, Linked, Recorded
  <1> QED
    BY <1>5, <1>7, <1>8 DEF PointerInv, TypeInv

\* A step that generates, for rule r with the row s.  rows is the table it starts
\* from, in which a plan may just have been adopted by a rule that is new.
Generation(r, s, day, rows) ==
  /\ Generate(r, s, day, rows)
  /\ RuleAllowed(s) /\ Backed(s, r, rows, emitted)
  /\ r \notin rewound' => Covers(s, r, emitted)
  /\ \A i \in Ids : /\ rows[i] # None <=> plan[i] # None
                    /\ rows[i] = plan[i] \/ (rows[i].rule = r /\ r \notin born)
  /\ rule[r] # None =>
       Leaps(r) \/ s.ptr \in {None, rule[r].ptr} \/ (rule[r].ptr # None /\ s.ptr <= rule[r].ptr)
  /\ born' = born \cup {r}
  /\ rewound \subseteq rewound' /\ rewound' \subseteq rewound \cup {r}
  /\ \A c \in Clients : client'[c].pc = "save" => client'[c] = client[c]

Plans == [Ids -> Plan \cup {None}]

LEMMA GenerationKeepsPointers ==
  ASSUME PointerInv, NEW r \in Rules, NEW s \in Rule, NEW day \in Days, NEW rows \in Plans,
         Generation(r, s, day, rows)
  PROVE  /\ Pointers' /\ Linked' /\ Recorded(plan', emitted') /\ Fresh' /\ Shape'
         /\ rule' \in [Rules -> Rule \cup {None}] /\ plan' \in [Ids -> Plan \cup {None}]
         /\ emitted' \subseteq Rules \X Days
         /\ \A q \in Rules : rule'[q] # None =>
              /\ rule'[q].end # None => rule'[q].end >= rule'[q].start
              /\ rule'[q].all => rule'[q].end # None
  <1>0. /\ Generate(r, s, day, rows)
        /\ RuleAllowed(s) /\ Backed(s, r, rows, emitted)
        /\ r \notin rewound' => Covers(s, r, emitted)
        /\ \A i \in Ids : /\ rows[i] # None <=> plan[i] # None
                          /\ rows[i] = plan[i] \/ (rows[i].rule = r /\ r \notin born)
        /\ born' = born \cup {r}
        /\ rewound \subseteq rewound'
        /\ \A c \in Clients : client'[c].pc = "save" => client'[c] = client[c]
    BY DEF Generation
  <1>1. /\ rule \in [Rules -> Rule \cup {None}] /\ emitted \subseteq Rules \X Days
        /\ plan \in [Ids -> Plan \cup {None}] /\ rows \in [Ids -> Plan \cup {None}]
    BY DEF PointerInv, TypeInv, TypeOK, Plans
  <1>2. Recorded(rows, emitted)
    BY <1>0 DEF PointerInv, Recorded, Ids
  <1>3. /\ rule' \in [Rules -> Rule \cup {None}] /\ rule'[r] \in Rule /\ SameRule(rule'[r], s)
        /\ \A q \in Rules : q # r => rule'[q] = rule[q]
        /\ plan' \in [Ids -> Plan \cup {None}]
        /\ emitted' \subseteq Rules \X Days
    BY <1>0, <1>1, GenerateTables
  <1>4. /\ Backed(rule'[r], r, plan', emitted')
        /\ Recorded(plan', emitted')
        /\ emitted \subseteq emitted'
        /\ \A q \in Rules, d \in Days : <<q, d>> \in emitted' => <<q, d>> \in emitted \/ q = r
        /\ \A i \in Ids :
             \/ plan'[i] = rows[i]
             \/ rows[i] = None /\ plan'[i].rule = r /\ <<r, plan'[i].date>> \in emitted'
        /\ r \notin rewound' => Covers(rule'[r], r, emitted')
    <2>1. Covers(s, r, emitted) => Covers(rule'[r], r, emitted')
      BY <1>0, <1>1, <1>2, GenerateKeepsPointer
    <2>2. Backed(rule'[r], r, plan', emitted') /\ Recorded(plan', emitted') /\ emitted \subseteq emitted'
      BY <1>0, <1>1, <1>2, GenerateKeepsPointer
    <2>3. \A q \in Rules, d \in Days : <<q, d>> \in emitted' => <<q, d>> \in emitted \/ q = r
      BY <1>0, <1>1, <1>2, GenerateKeepsPointer
    <2>4. OnlyAdds(r, rows)
      BY <1>0, <1>1, <1>2, GenerateKeepsPointer
    <2> QED
      BY <1>0, <2>1, <2>2, <2>3, <2>4 DEF OnlyAdds
  <1>5. \A i \in Ids : plan'[i] = plan[i] \/ plan'[i].rule = r
    BY <1>0, <1>4
  <1>6. rule'[r] # None /\ r # None
    BY <1>3, NullAssumption, ConstantsAssumption
  <1>7. ASSUME NEW q \in Rules, NEW x, Backed(x, q, plan, emitted), q = r => r \in born
        PROVE  Backed(x, q, plan', emitted')
    <2> SUFFICES ASSUME NEW i \in Ids, plan'[i] # None, plan'[i].rule = q
                 PROVE  <<q, plan'[i].date>> \in emitted' \/ (x.ptr # None /\ plan'[i].date <= x.ptr)
      BY DEF Backed
    <2>1. CASE plan'[i] = plan[i]
      BY <1>4, <1>7, <2>1 DEF Backed
    <2>2. CASE plan'[i] # plan[i]
      <3>1. q = r /\ rows[i] = plan[i]
        BY <1>0, <1>5, <1>7, <2>2
      <3> QED
        BY <1>4, <2>2, <3>1
    <2> QED
      BY <2>1, <2>2
  <1>8. Pointers'
    <2> SUFFICES ASSUME NEW q \in Rules, rule'[q] # None
                 PROVE  /\ q \in born' /\ Backed(rule'[q], q, plan', emitted')
                        /\ q \notin rewound' => Covers(rule'[q], q, emitted')
      BY DEF Pointers, Covers, Backed
    <2>1. CASE q = r
      BY <1>0, <1>4, <2>1
    <2>2. CASE q # r
      <3>1. rule'[q] = rule[q]
        BY <1>3, <2>2
      <3>2. /\ q \in born /\ Backed(rule[q], q, plan, emitted)
            /\ q \notin rewound => Covers(rule[q], q, emitted)
        BY <3>1 DEF PointerInv, Pointers
      <3>3. Covers(rule[q], q, emitted) => Covers(rule'[q], q, emitted')
        BY <1>4, <2>2, <3>1 DEF Covers
      <3>4. Backed(rule'[q], q, plan', emitted')
        BY <1>7, <2>2, <3>1, <3>2
      <3> QED
        BY <1>0, <3>2, <3>3, <3>4
    <2> QED
      BY <2>1, <2>2
  <1>9. Linked'
    <2>1. \A i \in Ids : plan'[i] # None /\ plan'[i].rule # None => rule'[plan'[i].rule] # None
      <3> SUFFICES ASSUME NEW i \in Ids, plan'[i] # None, plan'[i].rule # None
                   PROVE  rule'[plan'[i].rule] # None
        OBVIOUS
      <3>1. plan'[i].rule \in Rules
        BY <1>3 DEF Plan
      <3>2. CASE plan'[i].rule = r
        BY <1>6, <3>2
      <3>3. CASE plan'[i].rule # r
        BY <1>3, <1>5, <3>1, <3>3 DEF PointerInv, Linked
      <3> QED
        BY <3>2, <3>3
    <2>2. \A q \in Rules, d \in Days : <<q, d>> \in emitted' => q \in born'
      BY <1>0, <1>4 DEF PointerInv, Linked
    <2> QED
      BY <2>1, <2>2 DEF Linked
  <1>10. Fresh' /\ Shape'
    <2> SUFFICES ASSUME NEW c \in Clients, client'[c].pc = "save"
                 PROVE  /\ client'[c].rule \in Rules /\ client'[c].row \in Rule
                        /\ RuleAllowed(client'[c].row)
                        /\ client'[c].rule \in born'
                        /\ Backed(client'[c].row, client'[c].rule, plan', emitted')
      BY DEF Fresh, Shape, Backed, RuleAllowed
    <2>1. client'[c] = client[c]
      BY <1>0
    <2>2. /\ client[c].rule \in Rules /\ client[c].row \in Rule /\ RuleAllowed(client[c].row)
          /\ client[c].rule \in born
          /\ Backed(client[c].row, client[c].rule, plan, emitted)
      BY <2>1 DEF PointerInv, TypeInv, Shape, Fresh
    <2>3. Backed(client[c].row, client[c].rule, plan', emitted')
      BY <1>7, <2>2
    <2> QED
      BY <1>0, <2>1, <2>2, <2>3
  <1>11. ASSUME NEW q \in Rules, rule'[q] # None
         PROVE  /\ rule'[q].end # None => rule'[q].end >= rule'[q].start
                /\ rule'[q].all => rule'[q].end # None
    <2>1. CASE q = r
      BY <1>0, <1>3, <2>1 DEF SameRule, RuleAllowed
    <2>2. CASE q # r
      BY <1>3, <1>11, <2>2 DEF PointerInv, TypeInv, TypeOK
    <2> QED
      BY <2>1, <2>2
  <1> QED
    BY <1>3, <1>4, <1>8, <1>9, <1>10, <1>11

\* What has a type of its own.
RestTyped ==
  /\ today' \in Days /\ client' \in [Clients -> Client] /\ pass' \in [Passes -> Pass]
  /\ faults' \in 0..MaxFaults /\ edits' \in 0..MaxEdits

LEMMA GenerationKeepsInv ==
  ASSUME PointerInv, RestTyped, NEW r \in Rules, NEW s \in Rule, NEW day \in Days, NEW rows \in Plans,
         Generation(r, s, day, rows)
  PROVE  PointerInv'
  <1>1. /\ Pointers' /\ Linked' /\ Recorded(plan', emitted') /\ Fresh' /\ Shape'
        /\ rule' \in [Rules -> Rule \cup {None}] /\ plan' \in [Ids -> Plan \cup {None}]
        /\ emitted' \subseteq Rules \X Days
        /\ \A q \in Rules : rule'[q] # None =>
             /\ rule'[q].end # None => rule'[q].end >= rule'[q].start
             /\ rule'[q].all => rule'[q].end # None
    BY GenerationKeepsPointers
  <1>2. born' \subseteq Rules /\ rewound' \subseteq Rules
    BY DEF Generation, PointerInv, TypeInv, TypeOK
  <1>3. TypeOK'
    BY <1>1, <1>2 DEF TypeOK, RestTyped
  <1> QED
    BY <1>1, <1>3 DEF PointerInv, TypeInv, Recorded

LEMMA SaveGenerates ==
  ASSUME PointerInv, NEW c \in Clients, SaveUpdate(c)
  PROVE  RestTyped /\ \E r \in Rules, s \in Rule, rows \in Plans : Generation(r, s, today, rows)
  <1>a. /\ client[c].rule \in Rules /\ client[c].row \in Rule /\ RuleAllowed(client[c].row)
        /\ client[c].rule \in born
        /\ Backed(client[c].row, client[c].rule, plan, emitted)
    BY DEF PointerInv, TypeInv, Shape, Fresh, SaveUpdate
  <1>b. PICK r \in Rules, t \in Rule : client[c].rule = r /\ client[c].row = t
    BY <1>a
  <1>0. /\ today \in Days /\ client \in [Clients -> Client] /\ plan \in Plans /\ Idle \in Client
        /\ rule \in [Rules -> Rule \cup {None}] /\ rewound \subseteq Rules
    BY DEF PointerInv, TypeInv, TypeOK, Plans, Idle, Client
  <1> DEFINE s == IF rule[r] = None THEN [t EXCEPT !.made = today] ELSE t
  <1>1. s \in Rule /\ s.ptr = t.ptr /\ s.ptr \in Days \cup {None}
        /\ s.end = t.end /\ s.start = t.start /\ s.all = t.all
    <2>1. CASE rule[r] = None
      BY <1>0, <2>1 DEF Rule
    <2>2. CASE rule[r] # None
      BY <2>2 DEF Rule
    <2> QED
      BY <2>1, <2>2
  <1>2. /\ Generate(r, s, today, plan) /\ client[c].pc = "save"
        /\ rewound' = IF rule[r] # None /\ rule[r].ptr = t.ptr THEN rewound ELSE rewound \cup {r}
        /\ client' = [client EXCEPT ![c] = Idle]
        /\ UNCHANGED <<today, born, pass, faults, edits>>
    BY <1>b DEF SaveUpdate
  <1> HIDE DEF s
  <1>3. RuleAllowed(s) /\ Backed(s, r, plan, emitted)
    BY <1>a, <1>b, <1>1 DEF RuleAllowed, Backed
  <1>4. client'[c].pc = "idle" /\ \A e \in Clients : e # c => client'[e] = client[e]
    BY <1>0, <1>2 DEF Idle
  <1>5. r \notin rewound' => Covers(s, r, emitted)
    <2> SUFFICES ASSUME r \notin rewound' PROVE Covers(s, r, emitted)
      OBVIOUS
    <2>1. rule[r] # None /\ rule[r].ptr = s.ptr /\ r \notin rewound
      BY <1>1, <1>2
    <2> QED
      BY <2>1 DEF PointerInv, Pointers, Covers
  <1>6. rule[r] # None =>
          Leaps(r) \/ s.ptr \in {None, rule[r].ptr} \/ (rule[r].ptr # None /\ s.ptr <= rule[r].ptr)
    <2> SUFFICES ASSUME rule[r] # None, s.ptr # None,
                        ~(rule[r].ptr # None /\ s.ptr <= rule[r].ptr)
                 PROVE  Leaps(r)
      OBVIOUS
    <2>1. rule[r].ptr \in Days \cup {None} /\ s.ptr \in Days
      BY <1>0, <1>1 DEF Rule
    <2>2. rule[r].ptr # None => s.ptr > rule[r].ptr
      BY <2>1, ConstantsAssumption DEF Days
    <2> QED
      BY <1>b, <1>1, <1>2, <1>4, <2>2 DEF Leaps
  <1>7. Generation(r, s, today, plan)
    BY <1>a, <1>b, <1>2, <1>3, <1>4, <1>5, <1>6 DEF Generation
  <1>8. RestTyped
    BY <1>0, <1>2 DEF RestTyped, PointerInv, TypeInv, TypeOK
  <1> QED
    BY <1>0, <1>1, <1>7, <1>8

\* A rule that was never there has generated nothing, and no plan carries it.
LEMMA Unborn ==
  ASSUME PointerInv, NEW r \in Rules, r \notin born, NEW s
  PROVE  /\ rule[r] = None /\ Covers(s, r, emitted)
         /\ \A i \in Ids : plan[i] # None => plan[i].rule # r
  BY ConstantsAssumption DEF PointerInv, Pointers, Linked, Covers

LEMMA CreateGenerates ==
  ASSUME PointerInv, NEW r \in Rules, NEW p \in Payloads, Create(r, p)
  PROVE  RestTyped /\ \E s \in Rule, rows \in Plans : Generation(r, s, today, rows)
  <1>0. today \in Days /\ plan \in Plans /\ p \in Payload
    BY ConstantsAssumption DEF PointerInv, TypeInv, TypeOK, Plans
  <1> DEFINE s == Row(p, None, today)
  <1>1. s \in Rule /\ RuleAllowed(s)
    BY <1>0, NewRow DEF Create, MaterializeAllAllowed
  <1>2. Generate(r, s, today, plan) /\ r \notin born /\ UNCHANGED <<today, client, rewound, pass, faults, edits>>
    BY DEF Create
  <1> HIDE DEF s
  <1>3. Covers(s, r, emitted) /\ Backed(s, r, plan, emitted) /\ rule[r] = None
    BY <1>2, Unborn DEF Backed
  <1>4. Generation(r, s, today, plan)
    BY <1>1, <1>2, <1>3 DEF Generation, Create
  <1> QED
    BY <1>0, <1>1, <1>2, <1>4 DEF RestTyped, PointerInv, TypeInv, TypeOK

LEMMA AdoptionGenerates ==
  ASSUME PointerInv, NEW r \in Rules, NEW p \in Payloads,
         NEW i \in Singles, CreateAdopting(r, p, i)
  PROVE  RestTyped /\ \E s \in Rule, rows \in Plans : Generation(r, s, today, rows)
  <1>0. /\ today \in Days /\ plan \in [Ids -> Plan \cup {None}] /\ p \in Payload /\ i \in Ids
        /\ plan[i] \in Plan /\ plan[i].date \in Days
    BY ConstantsAssumption DEF PointerInv, TypeInv, TypeOK, Ids, Plan, CreateAdopting
  <1> DEFINE s == Row(p, plan[i].date, today)
             adopted == [plan[i] EXCEPT !.rule = r]
             rows == [plan EXCEPT ![i].rule = r]
  <1>1. s \in Rule /\ RuleAllowed(s) /\ s.ptr = plan[i].date
    BY <1>0, NewRow DEF CreateAdopting, MaterializeAllAllowed
  <1>2. Generate(r, s, today, rows) /\ r \notin born /\ UNCHANGED <<today, client, rewound, pass, faults, edits>>
    BY DEF CreateAdopting
  <1>3. adopted \in Plan /\ adopted.rule = r /\ adopted.date = plan[i].date
    BY <1>0 DEF Plan
  <1>4. rows[i] = adopted /\ rows \in Plans /\ \A j \in Ids : j # i => rows[j] = plan[j]
    BY <1>0, <1>3 DEF Plans
  <1> HIDE DEF s, adopted, rows
  <1>5. Covers(s, r, emitted) /\ rule[r] = None /\ \A j \in Ids : plan[j] # None => plan[j].rule # r
    BY <1>2, Unborn
  <1>6. plan[i].date # None /\ plan[i].date <= plan[i].date
    BY <1>0, ConstantsAssumption DEF Days
  <1>7. Backed(s, r, rows, emitted)
    <2> SUFFICES ASSUME NEW j \in Ids, rows[j] # None, rows[j].rule = r
                 PROVE  s.ptr # None /\ rows[j].date <= s.ptr
      BY DEF Backed
    <2>1. j = i
      BY <1>4, <1>5
    <2> QED
      BY <1>1, <1>3, <1>4, <1>6, <2>1
  <1>8. \A j \in Ids : /\ rows[j] # None <=> plan[j] # None
                       /\ rows[j] = plan[j] \/ (rows[j].rule = r /\ r \notin born)
    BY <1>0, <1>2, <1>3, <1>4, NullAssumption
  <1>9. Generation(r, s, today, rows)
    BY <1>1, <1>2, <1>5, <1>7, <1>8 DEF Generation, CreateAdopting
  <1> QED
    BY <1>0, <1>1, <1>2, <1>4, <1>9 DEF RestTyped, PointerInv, TypeInv, TypeOK

LEMMA PassGenerates ==
  ASSUME PointerInv, NEW n \in Passes, NEW r \in Rules,
         HandleRule(n, r), rule[r] # None
  PROVE  RestTyped /\ \E s \in Rule, day \in Days, rows \in Plans : Generation(r, s, day, rows)
  <1>0. /\ today \in Days /\ plan \in Plans /\ rule[r] \in Rule /\ pass \in [Passes -> Pass]
        /\ pass[n] \in Pass
    BY DEF PointerInv, TypeInv, TypeOK, Plans
  <1>1. PICK s \in Rule, day \in Days : s = rule[r] /\ day = pass[n].day
    BY <1>0 DEF Pass
  <1>2. Generate(r, s, day, plan) /\ UNCHANGED <<today, born, client, rewound, faults, edits>>
    BY <1>1 DEF HandleRule
  <1>3. /\ r \in born /\ Backed(s, r, plan, emitted) /\ RuleAllowed(s)
        /\ r \notin rewound => Covers(s, r, emitted)
    BY <1>1 DEF PointerInv, Pointers, TypeInv, TypeOK, RuleAllowed
  <1>4. Generation(r, s, day, plan)
    BY <1>1, <1>2, <1>3 DEF Generation
  <1>5. pass' \in [Passes -> Pass]
    <2>1. [pass[n] EXCEPT !.todo = @ \ {r}] \in Pass
      BY <1>0 DEF Pass
    <2>2. pass' = [pass EXCEPT ![n] = [pass[n] EXCEPT !.todo = @ \ {r}]]
      BY <1>0 DEF HandleRule
    <2> QED
      BY <1>0, <2>1, <2>2
  <1> QED
    BY <1>0, <1>2, <1>4, <1>5 DEF RestTyped, PointerInv, TypeInv, TypeOK

\* A step that generates nothing: it may remove rules and plans, take a plan from its
\* rule, and close a plan.
Quiet ==
  /\ born' = born /\ emitted' = emitted /\ rewound' = rewound
  /\ \A r \in Rules : rule'[r] = rule[r] \/ rule'[r] = None
  /\ \A i \in Ids : plan'[i] # None =>
       /\ plan[i] # None /\ plan'[i].date = plan[i].date
       /\ plan'[i].rule # None => plan'[i].rule = plan[i].rule /\ rule'[plan[i].rule] = rule[plan[i].rule]

\* The plans that carry a rule are then some of those that did.
LEMMA QuietKeepsBacked ==
  ASSUME Quiet, NEW x, NEW r \in Rules, Backed(x, r, plan, emitted)
  PROVE  Backed(x, r, plan', emitted')
  <1> SUFFICES ASSUME NEW i \in Ids, plan'[i] # None, plan'[i].rule = r
               PROVE  <<r, plan'[i].date>> \in emitted' \/ (x.ptr # None /\ plan'[i].date <= x.ptr)
    BY DEF Backed
  <1>1. plan[i] # None /\ plan'[i].date = plan[i].date /\ plan[i].rule = r /\ emitted' = emitted
    BY ConstantsAssumption DEF Quiet
  <1> QED
    BY <1>1 DEF Backed

LEMMA QuietKeepsInv ==
  ASSUME PointerInv, TypeInv', Quiet, Fresh'
  PROVE  PointerInv'
  <1>1. Pointers'
    <2> SUFFICES ASSUME NEW r \in Rules, rule'[r] # None
                 PROVE  /\ r \in born' /\ Backed(rule'[r], r, plan', emitted')
                        /\ r \notin rewound' => Covers(rule'[r], r, emitted')
      BY DEF Pointers, Covers, Backed
    <2>1. /\ rule'[r] = rule[r] /\ r \in born /\ Backed(rule[r], r, plan, emitted)
          /\ r \notin rewound => Covers(rule[r], r, emitted)
      BY DEF Quiet, PointerInv, Pointers
    <2>2. Backed(rule'[r], r, plan', emitted')
      BY <2>1, QuietKeepsBacked
    <2> QED
      BY <2>1, <2>2 DEF Quiet
  <1>2. Linked'
    BY DEF PointerInv, Linked, Quiet
  <1>3. Recorded(plan', emitted')
    BY DEF PointerInv, Recorded, Quiet, Ids
  <1> QED
    BY <1>1, <1>2, <1>3 DEF PointerInv, Recorded

\* The updates under way know no less after it.
LEMMA QuietKeepsFresh ==
  ASSUME PointerInv, Quiet, client' = client
  PROVE  Fresh' /\ Shape'
  <1> SUFFICES ASSUME NEW c \in Clients, client'[c].pc = "save"
               PROVE  /\ client'[c].rule \in Rules /\ client'[c].row \in Rule
                      /\ RuleAllowed(client'[c].row)
                      /\ client'[c].rule \in born'
                      /\ Backed(client'[c].row, client'[c].rule, plan', emitted')
    BY DEF Fresh, Shape, Backed, RuleAllowed
  <1>1. /\ client[c].rule \in Rules /\ client[c].row \in Rule /\ RuleAllowed(client[c].row)
        /\ client[c].rule \in born
        /\ Backed(client[c].row, client[c].rule, plan, emitted)
    BY DEF PointerInv, TypeInv, Shape, Fresh
  <1> QED
    BY <1>1, QuietKeepsBacked DEF Quiet

LEMMA EditsAreQuiet ==
  ASSUME PointerInv,
         \/ \E c \in Clients, r \in Rules, p \in Payloads : BeginUpdate(c, r, p)
         \/ \E r \in Rules, b \in BOOLEAN : DeleteRule(r, b)
         \/ \E i \in DOMAIN plan : SettlePlan(i) \/ DeletePlan(i)
  PROVE  TypeInv' /\ Quiet /\ Fresh'
  <1>0. /\ client \in [Clients -> Client] /\ plan \in [Ids -> Plan \cup {None}]
        /\ rule \in [Rules -> Rule \cup {None}] /\ TypeOK
    BY DEF PointerInv, TypeInv, TypeOK
  <1>a. Edit => edits' \in 0..MaxEdits
    BY <1>0, ConstantsAssumption DEF Edit, TypeOK
  <1>1. ASSUME NEW c \in Clients, NEW r \in Rules, NEW p \in Payloads, BeginUpdate(c, r, p)
        PROVE  TypeInv' /\ Quiet /\ Fresh'
    <2> DEFINE s == Row(p, rule[r].ptr, rule[r].made)
               new == [pc |-> "save", rule |-> r, row |-> s]
    <2>1. p \in Payload /\ rule[r] # None /\ rule[r] \in Rule
          /\ rule[r].ptr \in Days \cup {None} /\ rule[r].made \in Days
      BY <1>0, <1>1, ConstantsAssumption DEF BeginUpdate, Rule
    <2>2. s \in Rule /\ s.ptr = rule[r].ptr /\ RuleAllowed(s)
      BY <1>1, <2>1, NewRow DEF BeginUpdate, MaterializeAllAllowed
    <2> HIDE DEF s
    <2>3. new \in Client /\ new.pc = "save" /\ new.rule = r /\ new.row = s
      BY <2>2 DEF Client
    <2>4. client' = [client EXCEPT ![c] = new]
          /\ UNCHANGED <<today, born, rule, plan, emitted, rewound, pass, faults>>
      BY <1>1 DEF BeginUpdate, s
    <2> HIDE DEF new
    <2>5. /\ client' \in [Clients -> Client] /\ client'[c] = new
          /\ \A e \in Clients : e # c => client'[e] = client[e]
      BY <1>0, <2>3, <2>4
    <2>6. Shape' /\ Fresh'
      <3>1. r \in born /\ Backed(rule[r], r, plan, emitted)
        BY <2>1 DEF PointerInv, Pointers
      <3>2. Backed(s, r, plan, emitted)
        BY <2>2, <3>1 DEF Backed
      <3>3. Backed(s, r, plan', emitted')
        BY <2>4, <3>2 DEF Backed
      <3> SUFFICES ASSUME NEW e \in Clients, client'[e].pc = "save"
                   PROVE  /\ client'[e].rule \in Rules /\ client'[e].row \in Rule
                          /\ RuleAllowed(client'[e].row)
                          /\ client'[e].rule \in born'
                          /\ Backed(client'[e].row, client'[e].rule, plan', emitted')
        BY DEF Fresh, Shape, Backed, RuleAllowed
      <3>4. CASE e = c
        BY <2>2, <2>3, <2>4, <2>5, <3>1, <3>3, <3>4
      <3>5. CASE e # c
        <4>1. /\ client[e].rule \in Rules /\ client[e].row \in Rule /\ RuleAllowed(client[e].row)
              /\ client[e].rule \in born
              /\ Backed(client[e].row, client[e].rule, plan, emitted)
              /\ client'[e] = client[e]
          BY <2>5, <3>5 DEF PointerInv, TypeInv, Shape, Fresh
        <4>2. Backed(client[e].row, client[e].rule, plan', emitted')
          BY <2>4, <4>1 DEF Backed
        <4> QED
          BY <2>4, <4>1, <4>2
      <3> QED
        BY <3>4, <3>5
    <2>7. TypeOK'
      BY <1>0, <1>1, <1>a, <2>4, <2>5 DEF TypeOK, BeginUpdate
    <2> QED
      BY <2>4, <2>6, <2>7 DEF TypeInv, Quiet
  <1>b. client' = client /\ Quiet => Shape' /\ Fresh'
    BY QuietKeepsFresh
  <1>2. ASSUME NEW r \in Rules, NEW b \in BOOLEAN, DeleteRule(r, b)
        PROVE  TypeInv' /\ Quiet /\ Fresh'
    <2>1. /\ rule' = [rule EXCEPT ![r] = None]
          /\ UNCHANGED <<today, born, emitted, client, rewound, pass, faults>>
          /\ \A i \in Ids : \/ plan'[i] = plan[i] /\ (plan[i] # None => plan[i].rule # r)
                            \/ plan'[i] = None
                            \/ plan[i] # None /\ plan'[i] = [plan[i] EXCEPT !.rule = None]
      BY <1>0, <1>2 DEF DeleteRule, LinkedTo
    <2>2. \A i \in Ids : plan[i] # None => plan[i] \in Plan
      BY <1>0
    <2>3. \A x \in Plan : /\ [x EXCEPT !.rule = None] \in Plan
                          /\ [x EXCEPT !.rule = None].rule = None
                          /\ [x EXCEPT !.rule = None].date = x.date
      BY DEF Plan
    <2>4. plan' = [i \in Ids |-> plan'[i]]
      BY <1>0, <1>2 DEF DeleteRule
    <2>5. \A i \in Ids : plan'[i] \in Plan \cup {None}
      BY <1>0, <2>1, <2>2, <2>3
    <2>6. plan' \in [Ids -> Plan \cup {None}]
      BY <2>4, <2>5
    <2>7. rule' \in [Rules -> Rule \cup {None}] /\ rule'[r] = None
          /\ \A q \in Rules : q # r => rule'[q] = rule[q]
      BY <1>0, <2>1
    <2>8. Quiet
      <3> SUFFICES ASSUME NEW i \in Ids, plan'[i] # None
                   PROVE  /\ plan[i] # None /\ plan'[i].date = plan[i].date
                          /\ plan'[i].rule # None =>
                               plan'[i].rule = plan[i].rule /\ rule'[plan[i].rule] = rule[plan[i].rule]
        BY <2>1, <2>7 DEF Quiet
      <3>1. CASE plan'[i] = plan[i] /\ plan[i].rule # r
        <4>1. plan[i].rule \in Rules \cup {None}
          BY <2>2, <3>1 DEF Plan
        <4> QED
          BY <2>7, <3>1, <4>1
      <3>2. CASE plan[i] # None /\ plan'[i] = [plan[i] EXCEPT !.rule = None]
        BY <2>2, <2>3, <3>2
      <3> QED
        BY <2>1, <3>1, <3>2
    <2>9. TypeOK'
      BY <1>0, <1>2, <1>a, <2>1, <2>6, <2>7 DEF TypeOK, DeleteRule
    <2> QED
      BY <1>b, <2>1, <2>8, <2>9 DEF TypeInv
  <1>3. ASSUME NEW i \in Ids, SettlePlan(i) \/ DeletePlan(i)
        PROVE  TypeInv' /\ Quiet /\ Fresh'
    <2>1. plan[i] \in Plan
      BY <1>0, <1>3 DEF SettlePlan, DeletePlan
    <2> DEFINE closed == [plan[i] EXCEPT !.status = "closed"]
    <2>2. closed \in Plan /\ closed.rule = plan[i].rule /\ closed.date = plan[i].date
      BY <2>1 DEF Plan
    <2>3. plan' = [plan EXCEPT ![i] = closed] \/ plan' = [plan EXCEPT ![i] = None]
      BY <1>0, <1>3 DEF SettlePlan, DeletePlan
    <2>4. plan[i] # None /\ UNCHANGED <<today, born, rule, emitted, client, rewound, pass, faults>>
      BY <1>3 DEF SettlePlan, DeletePlan
    <2> HIDE DEF closed
    <2>5. plan' \in [Ids -> Plan \cup {None}] /\ plan'[i] \in {closed, None}
          /\ \A j \in Ids : j # i => plan'[j] = plan[j]
      BY <1>0, <2>2, <2>3
    <2>6. Quiet
      BY <2>2, <2>4, <2>5 DEF Quiet
    <2>7. TypeOK'
      BY <1>0, <1>3, <1>a, <2>4, <2>5 DEF TypeOK, SettlePlan, DeletePlan
    <2> QED
      BY <1>b, <2>4, <2>6, <2>7 DEF TypeInv
  <1> QED
    BY <1>0, <1>1, <1>2, <1>3

LEMMA TimeAndPassesAreQuiet ==
  ASSUME PointerInv,
         \/ \E n \in Passes : StartPass(n) \/ FinishPass(n) \/ AbortPass(n)
         \/ \E n \in Passes, r \in Rules : HandleRule(n, r) /\ rule[r] = None
         \/ Tick
         \/ UNCHANGED vars
  PROVE  TypeInv' /\ Quiet /\ Fresh'
  <1>0. /\ today \in Days /\ pass \in [Passes -> Pass] /\ faults \in 0..MaxFaults /\ TypeOK
        /\ Horizon \in Nat /\ LastDay \in 0..Horizon /\ MaxFaults \in Nat
    BY ConstantsAssumption DEF PointerInv, TypeInv, TypeOK, Days
  <1>1. UNCHANGED <<born, rule, plan, emitted, client, rewound, edits>>
    BY DEF StartPass, FinishPass, AbortPass, HandleRule, Tick, vars
  <1>2. Quiet /\ Fresh' /\ Shape'
    <2>1. Quiet
      BY <1>1 DEF Quiet
    <2> QED
      BY <1>1, <2>1, QuietKeepsFresh
  <1>3. today' \in Days
    BY <1>0 DEF StartPass, FinishPass, AbortPass, HandleRule, Tick, vars, Days
  <1>4. pass' \in [Passes -> Pass]
    <2>1. ASSUME NEW n \in Passes, StartPass(n)
          PROVE  pass' \in [Passes -> Pass]
      <3>1. [pc |-> "running", day |-> today,
             todo |-> {r \in Rules : rule[r] # None /\ rule[r].active}] \in Pass
        BY <1>0 DEF Pass
      <3> QED
        BY <1>0, <2>1, <3>1 DEF StartPass
    <2>2. ASSUME NEW n \in Passes, FinishPass(n) \/ AbortPass(n)
          PROVE  pass' \in [Passes -> Pass]
      <3>1. Stopped \in Pass
        BY <1>0 DEF Stopped, Pass, Days
      <3> QED
        BY <1>0, <2>2, <3>1 DEF FinishPass, AbortPass
    <2>3. ASSUME NEW n \in Passes, NEW r \in Rules, HandleRule(n, r)
          PROVE  pass' \in [Passes -> Pass]
      <3>1. [pass[n] EXCEPT !.todo = @ \ {r}] \in Pass
        BY <1>0 DEF Pass
      <3>2. pass' = [pass EXCEPT ![n] = [pass[n] EXCEPT !.todo = @ \ {r}]]
        BY <1>0, <2>3 DEF HandleRule
      <3> QED
        BY <1>0, <3>1, <3>2
    <2> QED
      BY <1>0, <2>1, <2>2, <2>3 DEF Tick, vars
  <1>5. faults' \in 0..MaxFaults
    BY <1>0 DEF StartPass, FinishPass, AbortPass, HandleRule, Tick, vars
  <1>6. TypeOK'
    BY <1>0, <1>1, <1>3, <1>4, <1>5 DEF TypeOK
  <1> QED
    BY <1>2, <1>6 DEF TypeInv

-----------------------------------------------------------------------------
(* The theorems.                                                           *)

LEMMA StepsGenerateOrAreQuiet ==
  ASSUME PointerInv, [Next]_vars
  PROVE  \/ RestTyped /\ \E r \in Rules, s \in Rule, day \in Days, rows \in Plans :
                           Generation(r, s, day, rows)
         \/ TypeInv' /\ Quiet /\ Fresh'
  <1>0. today \in Days
    BY DEF PointerInv, TypeInv, TypeOK
  <1>1. CASE \E c \in Clients : SaveUpdate(c)
    BY <1>0, <1>1, SaveGenerates
  <1>2. CASE \E r \in Rules, p \in Payloads :
               Create(r, p) \/ \E i \in Singles : CreateAdopting(r, p, i)
    BY <1>0, <1>2, CreateGenerates, AdoptionGenerates
  <1>3. CASE \E n \in Passes, r \in Rules : HandleRule(n, r) /\ rule[r] # None
    BY <1>3, PassGenerates
  <1>4. CASE \/ \E c \in Clients, r \in Rules, p \in Payloads : BeginUpdate(c, r, p)
             \/ \E r \in Rules, b \in BOOLEAN : DeleteRule(r, b)
             \/ \E i \in DOMAIN plan : SettlePlan(i) \/ DeletePlan(i)
    BY <1>4, EditsAreQuiet
  <1>5. CASE \/ \E n \in Passes : StartPass(n) \/ FinishPass(n) \/ AbortPass(n)
             \/ \E n \in Passes, r \in Rules : HandleRule(n, r) /\ rule[r] = None
             \/ Tick
             \/ UNCHANGED vars
    BY <1>5, TimeAndPassesAreQuiet
  <1> QED
    BY <1>1, <1>2, <1>3, <1>4, <1>5 DEF Next

LEMMA NextKeepsPointers ==
  ASSUME PointerInv, [Next]_vars
  PROVE  PointerInv'
  BY StepsGenerateOrAreQuiet, GenerationKeepsInv, QuietKeepsInv

\* The variables keep their types, and the table's check constraints hold, however
\* updates overlap with passes, deletions and each other.
THEOREM TypeCorrect == Spec => []TypeOK
  <1>1. PointerInv /\ [Next]_vars => PointerInv'
    BY NextKeepsPointers
  <1>2. PointerInv => TypeOK
    BY DEF PointerInv, TypeInv
  <1> QED
    BY <1>1, <1>2, InitPointers, PTL DEF Spec

\* A rule generates no occurrence twice, whatever became of its plan: through edits,
\* adoptions, and passes that overlap, fail, and cross midnight; until an update saves
\* another pointer than the rule has or brings the deleted rule back.
THEOREM GeneratedOnce == Spec => NeverTwice
  <1> DEFINE Once == \A i \in GeneratedIds :
                       New(i) /\ i[1] \notin rewound' => <<i[1], i[2]>> \notin emitted
  <1>1. PointerInv /\ [Next]_vars => PointerInv'
    BY NextKeepsPointers
  <1>2. PointerInv /\ [Next]_vars => [Once]_vars
    <2> SUFFICES ASSUME PointerInv, [Next]_vars, NEW i \in GeneratedIds,
                        plan[i] = None, plan'[i] # None, i[1] \notin rewound'
                 PROVE  <<i[1], i[2]>> \notin emitted
      BY DEF New
    <2>1. i \in Ids
      BY DEF Ids
    <2>2. CASE Quiet
      BY <2>1, <2>2 DEF Quiet
    <2>3. ASSUME NEW r \in Rules, NEW s \in Rule, NEW day \in Days, NEW rows \in Plans,
                 Generation(r, s, day, rows)
          PROVE  <<i[1], i[2]>> \notin emitted
      <3>1. rows[i] = None
        BY <2>1, <2>3 DEF Generation
      <3>2. /\ rows \in [Ids -> Plan \cup {None}] /\ rule \in [Rules -> Rule \cup {None}]
            /\ emitted \subseteq Rules \X Days
        BY DEF Plans, PointerInv, TypeInv, TypeOK
      <3>3. Recorded(rows, emitted)
        BY <2>3 DEF Generation, PointerInv, Recorded, Ids
      <3>4. i[1] = r
        <4>1. PICK G \in SUBSET Candidates(s) : Handles(G, r, s, day, rows)
          BY <2>3, <3>2, GenerateTables DEF Generation
        <4>2. i \in FreshIds(rows, r, G)
          BY <2>1, <3>1, <4>1 DEF Handles
        <4> QED
          BY <4>2 DEF FreshIds
      <3>5. Covers(s, r, emitted)
        BY <2>3, <3>4 DEF Generation
      <3> QED
        BY <2>3, <3>1, <3>2, <3>3, <3>5, GenerateKeepsPointer DEF Generation
    <2> QED
      BY <2>2, <2>3, StepsGenerateOrAreQuiet
  <1>3. NeverTwice <=> [][Once]_vars
    BY DEF NeverTwice
  <1> HIDE DEF Once
  <1> QED
    BY <1>1, <1>2, <1>3, InitPointers, PTL DEF Spec

\* The pointer passes no occurrence of the schedule that was not generated, also when an
\* update moved it back: the window fills from the front, and an occupied day ahead of
\* the pointer was generated.  Excepted is an update that saves a pointer ahead of the
\* stored one.
THEOREM NothingPassedOver == Spec => NoOccurrenceLost
  <1> DEFINE Kept == \A r \in Rules :
                Moves(r) /\ ~Leaps(r) =>
                  \A d \in Remaining([rule'[r] EXCEPT !.ptr = rule[r].ptr]) :
                    d <= rule'[r].ptr => <<r, d>> \in emitted'
  <1>1. PointerInv /\ [Next]_vars => PointerInv'
    BY NextKeepsPointers
  <1>2. PointerInv /\ [Next]_vars => [Kept]_vars
    <2> SUFFICES ASSUME PointerInv, [Next]_vars, NEW q \in Rules,
                        rule[q] # None, rule'[q] # None, rule'[q].ptr # None,
                        rule'[q].ptr # rule[q].ptr, ~Leaps(q),
                        NEW d \in Remaining([rule'[q] EXCEPT !.ptr = rule[q].ptr]),
                        d <= rule'[q].ptr
                 PROVE  <<q, d>> \in emitted'
      BY DEF Moves
    <2>1. CASE Quiet
      BY <2>1 DEF Quiet
    <2>2. ASSUME NEW r \in Rules, NEW s \in Rule, NEW day \in Days, NEW rows \in Plans,
                 Generation(r, s, day, rows)
          PROVE  <<q, d>> \in emitted'
      <3>1. /\ rows \in [Ids -> Plan \cup {None}] /\ rule \in [Rules -> Rule \cup {None}]
            /\ emitted \subseteq Rules \X Days
        BY DEF Plans, PointerInv, TypeInv, TypeOK
      <3>2. Recorded(rows, emitted)
        BY <2>2 DEF Generation, PointerInv, Recorded, Ids
      <3>3. rule'[r] \in Rule /\ SameRule(rule'[r], s) /\ \A p \in Rules : p # r => rule'[p] = rule[p]
        BY <2>2, <3>1, GenerateTables DEF Generation
      <3>4. q = r
        BY <3>3
      <3>5. PICK t \in Rule, p \in Days \cup {None} : t = rule'[q] /\ p = rule[q].ptr
        BY <3>1, <3>3, <3>4 DEF Rule
      <3>6. p = s.ptr \/ s.ptr = None \/ (p # None /\ s.ptr <= p)
        BY <2>2, <3>4, <3>5 DEF Generation
      <3>7. d \in Candidates(s) /\ (p # None => d > p)
        BY <3>3, <3>4, <3>5, <3>6, RemainingAreCandidates DEF SameRule
      <3>8. t.ptr # s.ptr
        <4> SUFFICES ASSUME t.ptr = s.ptr PROVE FALSE
          OBVIOUS
        <4>1. p # None /\ s.ptr <= p /\ d > p /\ d <= s.ptr
          BY <3>5, <3>6, <3>7
        <4>2. d \in Days /\ p \in Days /\ s.ptr \in Days
          BY <3>5, <3>7, <4>1, CandidatesAreDays DEF Rule
        <4> QED
          BY <4>1, <4>2, ConstantsAssumption DEF Days
      <3>9. rule'[r].ptr # s.ptr => \A e \in Candidates(s) : e <= rule'[r].ptr => <<r, e>> \in emitted'
        BY <2>2, <3>1, <3>2, GenerateKeepsPointer DEF Generation
      <3> QED
        BY <3>4, <3>5, <3>7, <3>8, <3>9
    <2> QED
      BY <2>1, <2>2, StepsGenerateOrAreQuiet
  <1>3. NoOccurrenceLost <=> [][Kept]_vars
    BY DEF NoOccurrenceLost
  <1> HIDE DEF Kept
  <1> QED
    BY <1>1, <1>2, <1>3, InitPointers, PTL DEF Spec
=============================================================================
