----------------------- MODULE TransactionItems_proofs -----------------------
(***************************************************************************)
(* Theorems about TransactionItems, for requests that overlap in any way:  *)
(* its types, that the items cover the amount and that categories,         *)
(* currencies and the linked adjustment agree with the transaction until   *)
(* a request commits that another one overtook, whatever the amounts, the  *)
(* lists, the categories and the accounts.                                 *)
(*                                                                         *)
(* The total of a set of rows is a fold that picks the rows in an order    *)
(* chosen by CHOOSE.  That the order does not matter is proved from a      *)
(* smallest set of rows for which it would.                                *)
(***************************************************************************)
EXTENDS TransactionItems, FiniteSetTheorems, WellFoundedInduction, TLAPS

-----------------------------------------------------------------------------
(* What is kept.                                                           *)

\* The item rows.
Table == [Ids -> Item \cup {None}]

\* What the columns of a transaction must be, row by row.
Legal(row) ==
  /\ row.type = "adjustment" => row.amount # 0 /\ row.cat = None /\ row.orig = 0
  /\ row.type # "adjustment" => row.amount > 0
  /\ row.orig = 0 <=> row.origCur = None

\* Its currency is the account's and not that of the facet.
SameCurrencies(row) ==
  /\ row.account # None => CurrencyOf[row.account] = row.cur
  /\ row.origCur # row.cur

\* The categories of the items are of the budget of the transaction's.
Agree(row, t) ==
  row.cat # None => \A i \in Rows(t) : t[i].cat # None => BudgetOf[t[i].cat] = BudgetOf[row.cat]

\* The items cover the amount.
Covers(row, t) ==
  /\ \A i, j \in Remainders(t) : i = j
  /\ row.type = "adjustment" => Remainders(t) = {}
  /\ row.type # "adjustment" =>
       IF Total(t, UserRows(t)) >= row.amount THEN Remainders(t) = {}
       ELSE Total(t, Rows(t)) = row.amount

\* A request knows what it was given, and its form was validated.
Begun ==
  \A q \in Requests : request[q].pc # "idle" =>
    /\ request[q].op \in 1..ops /\ request[q].kind # "none"
    /\ request[q].kind = "move" => request[q].pc = "ready"
    /\ request[q].kind # "move" => request[q].row # None
    /\ request[q].kind = "update" => Legal(request[q].row)
    /\ Len(request[q].given) <= MaxRows

\* The types, strengthened by what a request knows: what is kept however
\* requests overlap.
Typed == TypeOK /\ Begun

-----------------------------------------------------------------------------
(* The sum of a set of rows.                                               *)

\* The row that the fold takes first.
First(s) == CHOOSE x \in s : TRUE

\* g is what the fold computes over the parts of S.
Sums(t, S, g) ==
  g = [s \in SUBSET S |-> IF s = {} THEN 0 ELSE t[First(s)].total + g[s \ {First(s)}]]

\* Two such functions agree where both are defined.
LEMMA SumsAgree ==
  ASSUME NEW t, NEW S, NEW T, IsFiniteSet(S), NEW g, NEW h, Sums(t, S, g), Sums(t, T, h)
  PROVE  \A s \in SUBSET (S \cap T) : g[s] = h[s]
  <1> DEFINE Bad == {s \in SUBSET (S \cap T) : g[s] # h[s]}
  <1>1. SUFFICES ASSUME Bad # {} PROVE FALSE
    OBVIOUS
  <1>2. PICK s \in Bad : \A u \in Bad : <<u, s>> \notin StrictSubsetOrdering(S)
    <2> HIDE DEF Bad
    <2>1. Bad \subseteq FiniteSubsetsOf(S)
      BY FS_FiniteSubsetsOfFinite DEF Bad
    <2> QED
      BY <1>1, <2>1, FS_StrictSubsetOrderingWellFounded, WFMin
  <1>3. g[s] = IF s = {} THEN 0 ELSE t[First(s)].total + g[s \ {First(s)}]
    <2>1. s \in SUBSET S
      OBVIOUS
    <2> QED
      BY <2>1 DEF Sums
  <1>4. h[s] = IF s = {} THEN 0 ELSE t[First(s)].total + h[s \ {First(s)}]
    <2>1. s \in SUBSET T
      OBVIOUS
    <2> QED
      BY <2>1 DEF Sums
  <1>5. s # {} /\ First(s) \in s
    BY <1>3, <1>4 DEF First
  <1>6. s \ {First(s)} \notin Bad
    <2>1. <<s \ {First(s)}, s>> \in StrictSubsetOrdering(S)
      BY <1>5 DEF StrictSubsetOrdering
    <2> QED
      BY <1>2, <2>1
  <1>7. g[s \ {First(s)}] = h[s \ {First(s)}]
    BY <1>6
  <1> QED
    BY <1>3, <1>4, <1>7

\* There is one for every finite set: a smallest set without would have one.
LEMMA SumsExist ==
  ASSUME NEW t, NEW S, IsFiniteSet(S)
  PROVE  \E g : Sums(t, S, g)
  <1> DEFINE Bad == {T \in SUBSET S : ~\E g : Sums(t, T, g)}
  <1>1. SUFFICES ASSUME Bad # {} PROVE FALSE
    <2>1. S \notin Bad
      BY <1>1
    <2> QED
      BY <2>1
  <1>2. PICK T \in Bad : \A U \in Bad : <<U, T>> \notin StrictSubsetOrdering(S)
    <2> HIDE DEF Bad
    <2>1. Bad \subseteq FiniteSubsetsOf(S)
      BY FS_FiniteSubsetsOfFinite DEF Bad
    <2> QED
      BY <1>1, <2>1, FS_StrictSubsetOrderingWellFounded, WFMin
  <1> DEFINE G(U) == CHOOSE g : Sums(t, U, g)
             all == [s \in SUBSET T |-> IF s = {} THEN 0
                                        ELSE t[First(s)].total + G(s \ {First(s)})[s \ {First(s)}]]
  <1>3. ASSUME NEW U \in SUBSET T, U # T
        PROVE  Sums(t, U, G(U))
    <2>1. <<U, T>> \in StrictSubsetOrdering(S)
      BY <1>3 DEF StrictSubsetOrdering
    <2>2. U \notin Bad
      BY <1>2, <2>1
    <2>3. U \in SUBSET S
      OBVIOUS
    <2>4. \E g : Sums(t, U, g)
      BY <2>2, <2>3
    <2> QED
      BY <2>4
  <1>4. ASSUME NEW s \in SUBSET T, s # {}
        PROVE  all[s \ {First(s)}] = G(s \ {First(s)})[s \ {First(s)}]
    <2> DEFINE u == s \ {First(s)}
    <2>1. First(s) \in s
      BY <1>4 DEF First
    <2>2. u \in SUBSET T /\ u # T
      BY <2>1
    <2>3. Sums(t, u, G(u))
      BY <1>3, <2>2
    <2>4. G(u)[u] = IF u = {} THEN 0 ELSE t[First(u)].total + G(u)[u \ {First(u)}]
      <3> HIDE DEF u, G
      <3> QED
        BY <2>3 DEF Sums
    <2>5. all[u] = IF u = {} THEN 0 ELSE t[First(u)].total + G(u \ {First(u)})[u \ {First(u)}]
      <3> HIDE DEF u, G
      <3> QED
        BY <2>2
    <2>6. CASE u = {}
      BY <2>4, <2>5, <2>6
    <2>7. CASE u # {}
      <3> DEFINE v == u \ {First(u)}
      <3>1. First(u) \in u
        BY <2>7 DEF First
      <3>2. v \in SUBSET T /\ v # T /\ v \in SUBSET (u \cap v)
        BY <2>2, <3>1
      <3>3. Sums(t, v, G(v))
        BY <1>3, <3>2
      <3>4. IsFiniteSet(u)
        BY <2>2, FS_Subset
      <3>5. G(u)[v] = G(v)[v]
        <4> HIDE DEF u, v, G
        <4> QED
          BY <2>3, <3>2, <3>3, <3>4, SumsAgree
      <3> QED
        BY <2>4, <2>5, <2>7, <3>5
    <2> QED
      BY <2>6, <2>7
  <1>5. Sums(t, T, all)
    <2> HIDE DEF G
    <2>1. all = [s \in SUBSET T |-> IF s = {} THEN 0 ELSE t[First(s)].total + all[s \ {First(s)}]]
      BY <1>4
    <2> HIDE DEF all
    <2> QED
      BY <2>1 DEF Sums
  <1> QED
    BY <1>5

\* The fold is one of them.
LEMMA TotalSums ==
  ASSUME NEW t, NEW S, IsFiniteSet(S)
  PROVE  \E g : Sums(t, S, g) /\ \A T \in SUBSET S : Total(t, T) = g[T]
  <1> DEFINE G(T) == CHOOSE g : Sums(t, T, g)
  <1>1. ASSUME NEW T \in SUBSET S
        PROVE  Sums(t, T, G(T)) /\ IsFiniteSet(T)
    BY SumsExist, FS_Subset
  <1>2. \A T : Total(t, T) = G(T)[T]
    BY DEF Total, MapThenSumSet, MapThenFoldSet, Sums, First
  <1>3. ASSUME NEW T \in SUBSET S
        PROVE  G(T)[T] = G(S)[T]
    <2>1. Sums(t, T, G(T)) /\ IsFiniteSet(T) /\ Sums(t, S, G(S)) /\ T \in SUBSET (T \cap S)
      BY <1>1
    <2> HIDE DEF G
    <2> QED
      BY <2>1, SumsAgree
  <1> QED
    BY <1>1, <1>2, <1>3

\* A total counts every row once, whichever is taken first.
LEMMA TotalWithout ==
  ASSUME NEW t, NEW S, IsFiniteSet(S), \A i \in S : t[i].total \in Int
  PROVE  /\ Total(t, {}) = 0
         /\ \A T \in SUBSET S : Total(t, T) \in Int
         /\ \A T \in SUBSET S : \A i \in T : Total(t, T) = t[i].total + Total(t, T \ {i})
  <1>1. PICK g : Sums(t, S, g) /\ \A T \in SUBSET S : Total(t, T) = g[T]
    BY TotalSums
  <1>2. \A T \in SUBSET S : g[T] = IF T = {} THEN 0 ELSE t[First(T)].total + g[T \ {First(T)}]
    BY <1>1 DEF Sums
  <1> DEFINE Good(T) == /\ g[T] \in Int
                        /\ \A i \in T : g[T] = t[i].total + g[T \ {i}]
             Bad == {T \in SUBSET S : ~Good(T)}
  <1>3. Bad = {}
    <2>1. SUFFICES ASSUME Bad # {} PROVE FALSE
      OBVIOUS
    <2>2. PICK T \in Bad : \A U \in Bad : <<U, T>> \notin StrictSubsetOrdering(S)
      <3> HIDE DEF Bad
      <3>1. Bad \subseteq FiniteSubsetsOf(S)
        BY FS_FiniteSubsetsOfFinite DEF Bad
      <3> QED
        BY <2>1, <3>1, FS_StrictSubsetOrderingWellFounded, WFMin
    <2>3. ASSUME NEW U \in SUBSET T, U # T
          PROVE  Good(U)
      <3>1. <<U, T>> \in StrictSubsetOrdering(S)
        BY <2>3 DEF StrictSubsetOrdering
      <3>2. U \notin Bad /\ U \in SUBSET S
        BY <2>2, <3>1
      <3> QED
        BY <3>2
    <2> DEFINE c == First(T)
    <2>4. CASE T = {}
      <3>1. g[T] = 0
        BY <1>2, <2>4
      <3> QED
        BY <3>1, <2>4
    <2>5. CASE T # {}
      <3>1. c \in T
        BY <2>5 DEF First
      <3>2. Good(T \ {c})
        BY <2>3, <3>1
      <3>3. g[T] = t[c].total + g[T \ {c}]
        BY <1>2, <2>5
      <3>4. t[c].total \in Int
        BY <3>1
      <3>5. ASSUME NEW i \in T
            PROVE  g[T] = t[i].total + g[T \ {i}]
        <4>1. CASE i = c
          BY <3>3, <4>1
        <4>2. CASE i # c
          <5>1. Good(T \ {i})
            BY <2>3
          <5>2. g[T \ {c}] = t[i].total + g[(T \ {c}) \ {i}]
            BY <3>2, <4>2
          <5>3. g[T \ {i}] = t[c].total + g[(T \ {i}) \ {c}]
            BY <5>1, <3>1, <4>2
          <5>4. (T \ {c}) \ {i} = (T \ {i}) \ {c}
            OBVIOUS
          <5>5. Good((T \ {i}) \ {c})
            BY <2>3
          <5>6. t[i].total \in Int
            OBVIOUS
          <5> DEFINE rest == g[(T \ {i}) \ {c}]
                     a == t[c].total
                     b == t[i].total
          <5>7. rest \in Int /\ a \in Int /\ b \in Int
            BY <3>4, <5>5, <5>6
          <5>8. g[T] = a + (b + rest) /\ g[T \ {i}] = a + rest
            BY <3>3, <5>2, <5>3, <5>4
          <5> HIDE DEF c, rest, a, b
          <5>9. a + (b + rest) = b + (a + rest)
            BY <5>7
          <5> QED
            BY <5>8, <5>9 DEF b
        <4> QED
          BY <4>1, <4>2
      <3>6. g[T] \in Int
        <4>1. g[T \ {c}] \in Int
          BY <3>2
        <4> HIDE DEF c
        <4> QED
          BY <3>3, <3>4, <4>1
      <3> QED
        BY <3>5, <3>6
    <2> QED
      BY <2>4, <2>5
  <1>4. \A T \in SUBSET S : Good(T)
    BY <1>3
  <1>5. Total(t, {}) = 0
    BY <1>1, <1>2
  <1>6. \A T \in SUBSET S : \A i \in T : T \ {i} \in SUBSET S
    OBVIOUS
  <1> QED
    BY <1>1, <1>4, <1>5, <1>6

\* Only the totals of the rows count.
LEMMA TotalOfSame ==
  ASSUME NEW t, NEW u, NEW S, IsFiniteSet(S), \A i \in S : t[i].total = u[i].total
  PROVE  Total(t, S) = Total(u, S)
  <1>1. PICK g : Sums(t, S, g) /\ \A T \in SUBSET S : Total(t, T) = g[T]
    BY TotalSums
  <1>2. ASSUME NEW s \in SUBSET S, s # {}
        PROVE  t[First(s)].total = u[First(s)].total
    BY <1>2 DEF First
  <1>3. [s \in SUBSET S |-> IF s = {} THEN 0 ELSE t[First(s)].total + g[s \ {First(s)}]]
          = [s \in SUBSET S |-> IF s = {} THEN 0 ELSE u[First(s)].total + g[s \ {First(s)}]]
    BY <1>2
  <1>4. Sums(u, S, g)
    BY <1>1, <1>3 DEF Sums
  <1>5. PICK h : Sums(u, S, h) /\ \A T \in SUBSET S : Total(u, T) = h[T]
    BY TotalSums
  <1>6. g[S] = h[S]
    <2>1. S \in SUBSET (S \cap S)
      OBVIOUS
    <2> QED
      BY <1>4, <1>5, <2>1, SumsAgree
  <1> QED
    BY <1>1, <1>5, <1>6

-----------------------------------------------------------------------------
(* Tables of items.                                                        *)

\* There are finitely many item ids.
LEMMA IdsFinite ==
  ASSUME ConstantsAssumption
  PROVE  IsFiniteSet(Ids)
  <1>1. IsFiniteSet(1..MaxOps) /\ IsFiniteSet(0..MaxRows)
    BY FS_Interval DEF ConstantsAssumption
  <1> QED
    BY <1>1, FS_Product DEF Ids

\* The rows of a table and their totals.
LEMMA RowFacts ==
  ASSUME ConstantsAssumption, NEW t \in Table
  PROVE  /\ Rows(t) \in SUBSET Ids /\ UserRows(t) \in SUBSET Rows(t)
         /\ Remainders(t) \in SUBSET Rows(t)
         /\ \A i \in Rows(t) : t[i] \in Item /\ t[i].total \in Int /\ t[i].rem \in BOOLEAN
         /\ UserRows(t) \cap Remainders(t) = {} /\ UserRows(t) \cup Remainders(t) = Rows(t)
         /\ IsFiniteSet(Rows(t))
         /\ \A S \in SUBSET Rows(t) : Total(t, S) \in Int
         /\ Total(t, {}) = 0
         /\ \A S \in SUBSET Rows(t) : \A i \in S : Total(t, S) = t[i].total + Total(t, S \ {i})
  <1>1. Rows(t) \in SUBSET Ids
    BY DEF Rows
  <1>2. \A i \in Rows(t) : t[i] \in Item /\ t[i].total \in Int /\ t[i].rem \in BOOLEAN
    BY DEF Rows, Table, Item
  <1>3. IsFiniteSet(Rows(t))
    BY <1>1, IdsFinite, FS_Subset
  <1>4. /\ \A S \in SUBSET Rows(t) : Total(t, S) \in Int
        /\ Total(t, {}) = 0
        /\ \A S \in SUBSET Rows(t) : \A i \in S : Total(t, S) = t[i].total + Total(t, S \ {i})
    BY <1>2, <1>3, TotalWithout
  <1>5. /\ UserRows(t) \in SUBSET Rows(t) /\ Remainders(t) \in SUBSET Rows(t)
        /\ UserRows(t) \cap Remainders(t) = {} /\ UserRows(t) \cup Remainders(t) = Rows(t)
    BY <1>2 DEF UserRows, Remainders
  <1> QED
    BY <1>1, <1>2, <1>3, <1>4, <1>5

\* The total of a table without one of its rows.
LEMMA RowTotal ==
  ASSUME ConstantsAssumption, NEW t \in Table, NEW i \in Rows(t)
  PROVE  Total(t, Rows(t)) = t[i].total + Total(t, Rows(t) \ {i})
  BY RowFacts, Rows(t) \in SUBSET Rows(t)

\* What is left of the amount of a transaction is a number.
LEMMA RestTyped ==
  ASSUME ConstantsAssumption, NEW t \in Table, NEW row \in Trans
  PROVE  Rest(row, t) \in Int /\ row.amount \in Int
         /\ Rest(row, t) = row.amount - Total(t, UserRows(t))
  BY RowFacts DEF Rest, Trans

\* Rows that differ in their categories only cover the same.
LEMMA CoversSame ==
  ASSUME ConstantsAssumption, NEW t \in Table, NEW u \in Table, Rows(t) = Rows(u), NEW row,
         \A i \in Rows(t) : t[i].total = u[i].total /\ t[i].rem = u[i].rem
  PROVE  /\ Remainders(t) = Remainders(u) /\ UserRows(t) = UserRows(u)
         /\ Rest(row, t) = Rest(row, u)
         /\ Covers(row, t) => Covers(row, u)
  <1>1. Remainders(t) = Remainders(u) /\ UserRows(t) = UserRows(u)
    BY DEF Remainders, UserRows
  <1>2. UserRows(t) \in SUBSET Rows(t) /\ IsFiniteSet(Rows(t))
    BY RowFacts
  <1>3. Total(t, Rows(t)) = Total(u, Rows(u))
    BY <1>2, TotalOfSame
  <1>4. Total(t, UserRows(t)) = Total(u, UserRows(u))
    <2>1. IsFiniteSet(UserRows(t))
      BY <1>2, FS_Subset
    <2> QED
      BY <1>1, <1>2, <2>1, TotalOfSame
  <1> QED
    BY <1>1, <1>3, <1>4 DEF Covers, Rest

\* Normalizing leaves a table.
LEMMA NormalizedTable ==
  ASSUME ConstantsAssumption, NEW row \in Trans, NEW t \in Table, NEW op,
         NEW u \in Normalized(row, t, op)
  PROVE  u \in Table
  <1>1. Rest(row, t) \in Int
    BY RestTyped
  <1>2. CASE row.type = "adjustment"
    BY <1>2 DEF Normalized, Table
  <1>3. CASE row.type # "adjustment" /\ Remainders(t) = {}
    <2> DEFINE new == [total |-> Rest(row, t), cat |-> None, rem |-> TRUE]
    <2>1. new \in Item
      BY <1>1 DEF Item
    <2>2. u \in {t, [t EXCEPT ![<<op, 0>>] = new]}
      BY <1>3 DEF Normalized
    <2> HIDE DEF new
    <2> QED
      BY <2>1, <2>2 DEF Table
  <1>4. CASE row.type # "adjustment" /\ Remainders(t) # {}
    <2>1. PICK i \in Remainders(t) :
            u = [t EXCEPT ![i] = IF Rest(row, t) <= 0 THEN None ELSE [t[i] EXCEPT !.total = Rest(row, t)]]
      BY <1>4 DEF Normalized
    <2>2. i \in Ids /\ t[i] \in Item
      BY RowFacts
    <2> DEFINE new == [t[i] EXCEPT !.total = Rest(row, t)]
    <2>3. new \in Item
      BY <1>1, <2>2 DEF Item
    <2> HIDE DEF new
    <2>4. u = [t EXCEPT ![i] = IF Rest(row, t) <= 0 THEN None ELSE new]
      BY <2>1 DEF new
    <2> QED
      BY <2>3, <2>4 DEF Table
  <1> QED
    BY <1>2, <1>3, <1>4

\* It keeps the rows of the user, and what it leaves covers the amount.
LEMMA NormalizedCovers ==
  ASSUME ConstantsAssumption, NEW row \in Trans, NEW t \in Table, NEW op \in 1..MaxOps,
         t[<<op, 0>>] = None, \A i, j \in Remainders(t) : i = j,
         NEW u \in Normalized(row, t, op)
  PROVE  /\ Covers(row, u) /\ Rest(row, u) = Rest(row, t)
         /\ \A i \in Rows(u) : i \in Rows(t) \/ i = <<op, 0>>
         /\ \A i \in Rows(u) : u[i].cat # None => i \in Rows(t) /\ t[i].cat = u[i].cat
  <1>1. u \in Table
    BY NormalizedTable
  <1>2. Rest(row, t) \in Int /\ row.amount \in Int
        /\ Rest(row, t) = row.amount - Total(t, UserRows(t))
    BY RestTyped
  <1>3. Total(t, UserRows(t)) \in Int /\ IsFiniteSet(UserRows(t))
    BY RowFacts, FS_Subset
  <1>4. ASSUME UserRows(u) = UserRows(t), \A i \in UserRows(t) : u[i] = t[i]
        PROVE  Total(u, UserRows(u)) = Total(t, UserRows(t)) /\ Rest(row, u) = Rest(row, t)
    <2>1. Total(u, UserRows(t)) = Total(t, UserRows(t))
      BY <1>3, <1>4, TotalOfSame
    <2> QED
      BY <1>4, <2>1 DEF Rest
  <1>5. CASE row.type = "adjustment"
    <2>1. u = [i \in Ids |-> IF i \in Remainders(t) THEN None ELSE t[i]]
      BY <1>5 DEF Normalized
    <2>2. Rows(u) = Rows(t) \ Remainders(t) /\ \A i \in Rows(u) : u[i] = t[i]
      BY <2>1 DEF Rows, Remainders
    <2>3. Remainders(u) = {} /\ UserRows(u) = UserRows(t) /\ \A i \in UserRows(t) : u[i] = t[i]
      BY <2>2 DEF Remainders, UserRows
    <2> QED
      BY <1>4, <1>5, <2>2, <2>3 DEF Covers
  <1>6. CASE row.type # "adjustment" /\ Remainders(t) = {} /\ Rest(row, t) <= 0
    <2>1. u = t
      BY <1>6 DEF Normalized
    <2>2. Total(t, UserRows(t)) >= row.amount
      BY <1>2, <1>3, <1>6
    <2> QED
      BY <1>6, <2>1, <2>2 DEF Covers
  <1>7. CASE row.type # "adjustment" /\ Remainders(t) = {} /\ ~(Rest(row, t) <= 0)
    <2> DEFINE z == <<op, 0>>
               new == [total |-> Rest(row, t), cat |-> None, rem |-> TRUE]
    <2>1. u = [t EXCEPT ![z] = new] /\ z \in Ids
      BY <1>7 DEF Normalized, Ids, ConstantsAssumption
    <2>2. new \in Item /\ new # None /\ new.total = Rest(row, t) /\ new.cat = None /\ new.rem
      <3>1. new \in Item
        BY <1>2 DEF Item
      <3>2. new # None
        BY <3>1 DEF ConstantsAssumption
      <3> QED
        BY <3>1, <3>2
    <2>3. t[z] = None
      OBVIOUS
    <2> HIDE DEF z, new
    <2>4. u[z] = new /\ \A i \in Ids : i # z => u[i] = t[i]
      BY <2>1 DEF Table
    <2>5. Rows(u) = Rows(t) \cup {z} /\ z \notin Rows(t)
      BY <2>1, <2>2, <2>3, <2>4 DEF Rows
    <2>6. UserRows(t) = Rows(t)
      BY <1>7 DEF UserRows, Remainders
    <2>7. UserRows(u) = Rows(t) /\ Remainders(u) = {z} /\ \A i \in Rows(t) : u[i] = t[i]
      <3>1. \A i \in Rows(t) : u[i] = t[i] /\ ~t[i].rem
        BY <2>4, <2>5, <2>6 DEF Rows, UserRows
      <3> QED
        BY <2>2, <2>4, <2>5, <3>1 DEF UserRows, Remainders
    <2>8. Total(u, UserRows(u)) = Total(t, UserRows(t)) /\ Rest(row, u) = Rest(row, t)
      BY <1>4, <2>6, <2>7
    <2>9. Total(u, Rows(u)) = u[z].total + Total(u, Rows(u) \ {z})
      BY <1>1, <2>5, RowTotal
    <2>10. Total(u, Rows(u)) = row.amount
      <3>1. Rows(u) \ {z} = UserRows(u)
        BY <2>5, <2>7
      <3>2. Total(u, Rows(u)) = Rest(row, t) + Total(t, UserRows(t))
        BY <2>2, <2>4, <2>8, <2>9, <3>1
      <3> QED
        BY <1>2, <1>3, <3>2
    <2>11. ~(Total(u, UserRows(u)) >= row.amount)
      BY <1>2, <1>3, <1>7, <2>8
    <2>12. \A i \in Rows(u) : u[i].cat # None => i \in Rows(t) /\ t[i].cat = u[i].cat
      BY <2>2, <2>4, <2>5, <2>7
    <2> QED
      BY <1>7, <2>5, <2>7, <2>8, <2>10, <2>11, <2>12 DEF Covers, z
  <1>8. CASE row.type # "adjustment" /\ Remainders(t) # {}
    <2>1. PICK z \in Remainders(t) :
            u = [t EXCEPT ![z] = IF Rest(row, t) <= 0 THEN None ELSE [t[z] EXCEPT !.total = Rest(row, t)]]
      BY <1>8 DEF Normalized
    <2>2. z \in Ids /\ t[z] \in Item /\ t[z].rem /\ z \in Rows(t)
      BY RowFacts DEF Remainders
    <2>3. Remainders(t) = {z} /\ UserRows(t) = Rows(t) \ {z}
      BY <2>2 DEF Remainders, UserRows
    <2> DEFINE new == [t[z] EXCEPT !.total = Rest(row, t)]
    <2>4. new \in Item /\ new # None /\ new.total = Rest(row, t) /\ new.cat = t[z].cat /\ new.rem
      BY <1>2, <2>2 DEF Item, ConstantsAssumption
    <2> HIDE DEF new
    <2>5. u[z] = (IF Rest(row, t) <= 0 THEN None ELSE new) /\ \A i \in Ids : i # z => u[i] = t[i]
      BY <2>1, <2>2 DEF Table, new
    <2>6. \A i \in UserRows(t) : i \in Ids /\ u[i] = t[i] /\ u[i] # None /\ ~u[i].rem
      BY <2>3, <2>5 DEF UserRows, Rows
    <2>7. CASE Rest(row, t) <= 0
      <3>1. Rows(u) = UserRows(t)
        BY <2>3, <2>5, <2>6, <2>7 DEF Rows
      <3>2. UserRows(u) = UserRows(t) /\ Remainders(u) = {}
        BY <2>6, <3>1 DEF UserRows, Remainders
      <3>3. Total(u, UserRows(u)) = Total(t, UserRows(t)) /\ Rest(row, u) = Rest(row, t)
        BY <1>4, <2>6, <3>2
      <3>4. Total(u, UserRows(u)) >= row.amount
        BY <1>2, <1>3, <2>7, <3>3
      <3> QED
        BY <1>8, <2>3, <2>6, <3>1, <3>2, <3>3, <3>4 DEF Covers
    <2>8. CASE ~(Rest(row, t) <= 0)
      <3>1. Rows(u) = UserRows(t) \cup {z} /\ z \notin UserRows(t)
        BY <2>2, <2>3, <2>4, <2>5, <2>6, <2>8 DEF Rows
      <3>2. UserRows(u) = UserRows(t) /\ Remainders(u) = {z}
        BY <2>4, <2>5, <2>6, <2>8, <3>1 DEF UserRows, Remainders
      <3>3. Total(u, UserRows(u)) = Total(t, UserRows(t)) /\ Rest(row, u) = Rest(row, t)
        BY <1>4, <2>6, <3>2
      <3>4. Total(u, Rows(u)) = u[z].total + Total(u, Rows(u) \ {z})
        BY <1>1, <3>1, RowTotal
      <3>5. Rows(u) \ {z} = UserRows(u)
        BY <3>1, <3>2
      <3>6. Total(u, Rows(u)) = row.amount
        <4>1. Total(u, Rows(u)) = Rest(row, t) + Total(t, UserRows(t))
          BY <2>4, <2>5, <2>8, <3>3, <3>4, <3>5
        <4> QED
          BY <1>2, <1>3, <4>1
      <3>7. ~(Total(u, UserRows(u)) >= row.amount)
        BY <1>2, <1>3, <2>8, <3>3
      <3>8. \A i \in Rows(u) : i \in Rows(t) /\ t[i].cat = u[i].cat
        BY <2>2, <2>3, <2>4, <2>5, <2>6, <2>8, <3>1
      <3> QED
        BY <1>8, <3>2, <3>3, <3>6, <3>7, <3>8 DEF Covers
    <2> QED
      BY <2>7, <2>8
  <1> QED
    BY <1>5, <1>6, <1>7, <1>8

\* The rows of a list that is inserted.
LEMMA WithRowsTable ==
  ASSUME ConstantsAssumption, NEW t \in Table, NEW op, NEW list \in Seq(Line)
  PROVE  WithRows(t, op, list) \in Table
  <1>1. \A n \in DOMAIN list : [total |-> list[n].total, cat |-> list[n].cat, rem |-> FALSE] \in Item
    <2> SUFFICES ASSUME NEW n \in DOMAIN list
                 PROVE  [total |-> list[n].total, cat |-> list[n].cat, rem |-> FALSE] \in Item
      OBVIOUS
    <2>1. list[n] \in Line
      OBVIOUS
    <2> QED
      BY <2>1 DEF Line, Item
  <1> QED
    BY <1>1 DEF WithRows, Table

\* A transaction without items.
LEMMA EmptyTable ==
  Empty \in Table /\ Rows(Empty) = {} /\ Remainders(Empty) = {}
  BY DEF Empty, Table, Rows, Remainders

-----------------------------------------------------------------------------
(* Rows and requests.                                                      *)

\* A request that is not under way.
LEMMA IdleRequest ==
  ASSUME ConstantsAssumption
  PROVE  Idle \in Request /\ Idle.pc = "idle" /\ Idle.given = <<>> /\ Len(<<>>) <= MaxRows
  BY EmptyTable DEF Idle, Request, Table, ConstantsAssumption

\* The row that a form is stored as.
LEMMA RowOfForm ==
  ASSUME ConstantsAssumption, NEW f \in Forms, TypeAmountAllowed(f), CurrencyAllowed(f),
         OriginalAllowed(f)
  PROVE  /\ RowOf(f) \in Trans /\ Legal(RowOf(f)) /\ SameCurrencies(RowOf(f))
         /\ RowOf(f).cat = f.cat /\ RowOf(f).orig = f.orig /\ RowOf(f).origCur = f.origCur
         /\ f.origAccount \in Accounts \cup {None}
         /\ f.origAccount # None => f.orig # 0 /\ CurrencyOf[f.origAccount] = f.origCur
  <1>1. f \in Form /\ FacetAllowed(f)
    BY DEF ConstantsAssumption
  <1>2. f.account # None => CurrencyOf[f.account] \in Currencies
    BY <1>1 DEF Form, ConstantsAssumption
  <1>3. CurrencyFor(f) \in Currencies /\ CurrencyFor(f) # None
    <2>1. CurrencyFor(f) \in Currencies
      BY <1>1, <1>2 DEF Form, CurrencyFor, CurrencyAllowed
    <2> QED
      BY <2>1 DEF ConstantsAssumption
  <1>4. RowOf(f) \in Trans
    BY <1>1, <1>3 DEF Form, RowOf, Trans
  <1>5. Legal(RowOf(f))
    BY <1>1 DEF Form, FacetAllowed, RowOf, Legal, TypeAmountAllowed
  <1>6. SameCurrencies(RowOf(f))
    BY <1>3 DEF RowOf, SameCurrencies, OriginalAllowed, CurrencyFor
  <1>7. f.origAccount # None => f.orig # 0 /\ CurrencyOf[f.origAccount] = f.origCur
    BY <1>1 DEF FacetAllowed, OriginalAllowed
  <1> QED
    BY <1>1, <1>4, <1>5, <1>6, <1>7 DEF RowOf, Form

\* The adjustment that a row with a facet is given.
LEMMA UpsertedTyped ==
  ASSUME NEW row \in Trans, NEW a \in Accounts, NEW linked \in Adjustment \cup {None},
         NEW op \in 1..MaxOps
  PROVE  Upserted(row, a, linked, op) \in Adjustment
  BY DEF Trans, Adjustment, Upserted, Signed

\* A request that begins.
LEMMA BeginTyped ==
  ASSUME ConstantsAssumption, Typed, Op, NEW q \in Requests, NEW r \in Request, Begin(q, r),
         r.pc # "idle", r.kind # "none", r.op = ops', r.kind = "move" => r.pc = "ready",
         r.kind # "move" => r.row # None, r.kind = "update" => Legal(r.row),
         Len(r.given) <= MaxRows,
         UNCHANGED <<trans, born, items, adj, world, overtaken>>
  PROVE  Typed'
  <1>1. ops \in 0..MaxOps /\ ops' = ops + 1 /\ ops' \in 1..MaxOps
    BY DEF Typed, TypeOK, Op, ConstantsAssumption
  <1>2. request' = [request EXCEPT ![q] = r] /\ request \in [Requests -> Request]
    BY DEF Begin, Typed, TypeOK
  <1>3. request' \in [Requests -> Request] /\ request'[q] = r
        /\ \A p \in Requests : p # q => request'[p] = request[p]
    BY <1>2
  <1>4. TypeOK'
    BY <1>1, <1>3 DEF Typed, TypeOK, world
  <1>5. Begun'
    <2> SUFFICES ASSUME NEW p \in Requests, request'[p].pc # "idle"
                 PROVE  /\ request'[p].op \in 1..ops' /\ request'[p].kind # "none"
                        /\ request'[p].kind = "move" => request'[p].pc = "ready"
                        /\ request'[p].kind # "move" => request'[p].row # None
                        /\ request'[p].kind = "update" => Legal(request'[p].row)
                        /\ Len(request'[p].given) <= MaxRows
      BY DEF Begun, Legal
    <2>1. CASE p = q
      BY <1>1, <1>3, <2>1
    <2>2. CASE p # q
      BY <1>1, <1>3, <2>2 DEF Typed, Begun
    <2> QED
      BY <2>1, <2>2
  <1> QED
    BY <1>4, <1>5 DEF Typed

\* A request that ends is idle, and what it overtakes is told of the others.
LEMMA Ended ==
  ASSUME ConstantsAssumption, Typed, NEW q \in Requests, Refuse(q) \/ Finish(q)
  PROVE  /\ request' \in [Requests -> Request] /\ request'[q].pc = "idle"
         /\ \A p \in Requests : p # q => request'[p] = request[p]
         /\ overtaken' \in [Requests -> SUBSET {"row", "items"}]
  <1>1. request' = [request EXCEPT ![q] = Idle] /\ request \in [Requests -> Request]
    BY DEF Refuse, Finish, Typed, TypeOK
  <1>2. overtaken' \in [Requests -> SUBSET {"row", "items"}]
    <2>1. CASE Refuse(q)
      BY <2>1 DEF Refuse, Typed, TypeOK
    <2>2. CASE Finish(q)
      <3>1. Written \in SUBSET {"row", "items"}
        BY DEF Written
      <3> QED
        BY <2>2, <3>1 DEF Finish, Overtake, Typed, TypeOK
    <2> QED
      BY <2>1, <2>2
  <1> QED
    BY <1>1, <1>2, IdleRequest

\* A request that ends: its writes have their types.
LEMMA EndTyped ==
  ASSUME ConstantsAssumption, Typed, NEW q \in Requests, Refuse(q) \/ Finish(q),
         trans' \in Trans \cup {None}, trans' # None => Legal(trans'), items' \in Table,
         adj' \in Adjustment \cup {None}, UNCHANGED <<born, world, ops>>
  PROVE  Typed'
  <1>1. /\ request' \in [Requests -> Request] /\ request'[q].pc = "idle"
        /\ \A p \in Requests : p # q => request'[p] = request[p]
        /\ overtaken' \in [Requests -> SUBSET {"row", "items"}]
    BY Ended
  <1>2. TypeOK'
    BY <1>1 DEF Typed, TypeOK, world, Legal, Table
  <1>3. Begun'
    BY <1>1 DEF Typed, Begun, Legal
  <1> QED
    BY <1>2, <1>3 DEF Typed

\* A request that has read the rows.
LEMMA ReadyStep ==
  ASSUME Typed, NEW q \in Requests, NEW t \in Table, Ready(q, t)
  PROVE  \E r \in Request :
           /\ request' = [request EXCEPT ![q] = r] /\ r.pc = "ready" /\ r.before = items
           /\ r.after = t
           /\ r.kind = request[q].kind /\ r.op = request[q].op /\ r.row = request[q].row
           /\ r.linked = request[q].linked /\ r.facet = request[q].facet
           /\ r.given = request[q].given /\ r.remCat = request[q].remCat
  <1> DEFINE old == request[q]
             r == [old EXCEPT !.pc = "ready", !.before = items, !.after = t]
  <1>1. old \in Request /\ items \in Table /\ request \in [Requests -> Request]
    BY DEF Typed, TypeOK, Table
  <1>2. r \in Request /\ r.pc = "ready" /\ r.before = items /\ r.after = t
        /\ r.kind = old.kind /\ r.op = old.op /\ r.row = old.row /\ r.linked = old.linked
        /\ r.facet = old.facet /\ r.given = old.given /\ r.remCat = old.remCat
    BY <1>1 DEF Request, Table
  <1>3. request' = [request EXCEPT ![q] = r]
    BY <1>1 DEF Ready
  <1> QED
    BY <1>2, <1>3

\* Reading the rows keeps the types.
LEMMA ReadyTyped ==
  ASSUME ConstantsAssumption, Typed, NEW q \in Requests, request[q].pc = "begun",
         NEW t \in Table, Ready(q, t), UNCHANGED <<trans, born, items, adj, world, ops>>
  PROVE  Typed'
  <1>1. PICK r \in Request :
           /\ request' = [request EXCEPT ![q] = r] /\ r.pc = "ready"
           /\ r.kind = request[q].kind /\ r.op = request[q].op /\ r.row = request[q].row
           /\ r.given = request[q].given
    BY ReadyStep
  <1>2. request' \in [Requests -> Request] /\ request'[q] = r
        /\ \A p \in Requests : p # q => request'[p] = request[p]
    BY <1>1 DEF Typed, TypeOK
  <1>3. TypeOK'
    BY <1>2 DEF Typed, TypeOK, world, Ready
  <1>4. Begun'
    <2> SUFFICES ASSUME NEW p \in Requests, request'[p].pc # "idle"
                 PROVE  /\ request'[p].op \in 1..ops' /\ request'[p].kind # "none"
                        /\ request'[p].kind = "move" => request'[p].pc = "ready"
                        /\ request'[p].kind # "move" => request'[p].row # None
                        /\ request'[p].kind = "update" => Legal(request'[p].row)
                        /\ Len(request'[p].given) <= MaxRows
      BY DEF Begun, Legal
    <2>1. CASE p = q
      BY <1>1, <1>2, <2>1 DEF Typed, Begun
    <2>2. CASE p # q
      BY <1>2, <2>2 DEF Typed, Begun
    <2> QED
      BY <2>1, <2>2
  <1> QED
    BY <1>3, <1>4 DEF Typed

\* What a request that was begun knows.
LEMMA Facts ==
  ASSUME ConstantsAssumption, Typed
  PROVE  /\ trans \in Trans \cup {None} /\ born \in BOOLEAN /\ items \in Table
         /\ adj \in Adjustment \cup {None}
         /\ category \in [Categories -> {"live", "archived", "gone"}]
         /\ closed \subseteq Accounts /\ ops \in 0..MaxOps /\ request \in [Requests -> Request]
         /\ trans # None => Legal(trans)
         /\ \A q \in Requests : request[q] \in Request /\ request[q].op \in 0..MaxOps
                                /\ request[q].given \in Seq(Line)
                                /\ request[q].before \in Table /\ request[q].after \in Table
                                /\ request[q].facet \in Accounts \cup {None}
                                /\ request[q].linked \in Adjustment \cup {None}
                                /\ request[q].remCat \in Categories \cup {None}
         /\ \A q \in Requests : request[q].pc # "idle" /\ request[q].kind # "move" =>
              request[q].row \in Trans
         /\ None \notin Trans /\ None \notin Accounts /\ None \notin Categories
         /\ None \notin Adjustment /\ None \notin Requests
         /\ overtaken \in [Requests -> SUBSET {"row", "items"}]
  <1>1. \A q \in Requests : request[q] \in Request
    BY DEF Typed, TypeOK
  <1>2. \A q \in Requests : request[q].op \in 0..MaxOps
          /\ request[q].given \in Seq(Line)
          /\ request[q].before \in Table /\ request[q].after \in Table
          /\ request[q].facet \in Accounts \cup {None} /\ request[q].row \in Trans \cup {None}
          /\ request[q].linked \in Adjustment \cup {None}
          /\ request[q].remCat \in Categories \cup {None}
    BY <1>1 DEF Request, Table
  <1>3. \A q \in Requests : request[q].pc # "idle" /\ request[q].kind # "move" =>
          request[q].row \in Trans
    BY <1>2 DEF Typed, Begun
  <1>4. trans # None => Legal(trans)
    BY DEF Typed, TypeOK, Legal
  <1> QED
    BY <1>1, <1>2, <1>3, <1>4 DEF Typed, TypeOK, Table, ConstantsAssumption

\* The types at the start.
LEMMA InitTyped ==
  ASSUME ConstantsAssumption, Init
  PROVE  Typed
  <1>1. request \in [Requests -> Request] /\ \A q \in Requests : request[q].pc = "idle"
    BY IdleRequest DEF Init
  <1>2. items \in Table
    BY EmptyTable DEF Init
  <1>3. category \in [Categories -> {"live", "archived", "gone"}]
    BY DEF Init
  <1>4. 0 \in 0..MaxOps
    BY DEF ConstantsAssumption
  <1>5. TypeOK
    BY <1>1, <1>2, <1>3, <1>4 DEF Init, TypeOK, Table
  <1> QED
    BY <1>1, <1>5 DEF Typed, Begun

\* The steps that begin a request.
LEMMA BeginsTyped ==
  ASSUME ConstantsAssumption, Typed, NEW q \in Requests,
         \/ \E f \in Forms : BeginUpdate(q, f)
         \/ \E list \in Lists, k \in Categories \cup {None} : BeginReplace(q, list, k)
         \/ \E list \in Receipts : BeginFill(q, list)
         \/ \E a \in Accounts : BeginMove(q, a)
  PROVE  Typed'
  <1>1. ops \in 0..MaxOps /\ trans \in Trans \cup {None}
        /\ (trans # None => Legal(trans)) /\ adj \in Adjustment \cup {None}
    BY Facts
  <1>2. Op => ops' \in 0..MaxOps
    BY <1>1 DEF Op, ConstantsAssumption
  <1>3. ASSUME NEW f \in Forms, BeginUpdate(q, f)
        PROVE  Typed'
    <2> DEFINE row == RowOf(f)
               facet == f.origAccount
               n == ops'
               r == [Idle EXCEPT !.pc = "begun", !.kind = "update", !.op = n, !.row = row,
                                 !.linked = adj, !.facet = facet]
    <2>1. row \in Trans /\ Legal(row) /\ facet \in Accounts \cup {None} /\ row # None
      BY <1>3, RowOfForm DEF BeginUpdate, ConstantsAssumption
    <2>2. Op /\ Begin(q, r) /\ UNCHANGED <<trans, born, items, adj, world, overtaken>> /\ n \in 0..MaxOps
      BY <1>2, <1>3 DEF BeginUpdate
    <2> HIDE DEF row, facet, n
    <2>3. r \in Request /\ r.pc = "begun" /\ r.kind = "update" /\ r.op = n /\ r.row = row
          /\ r.given = <<>>
      BY <1>1, <2>1, <2>2, IdleRequest DEF Idle, Request
    <2> HIDE DEF r
    <2> QED
      BY <2>1, <2>2, <2>3, BeginTyped, IdleRequest DEF n
  <1>4. ASSUME NEW list \in Lists, NEW k \in Categories \cup {None}, BeginReplace(q, list, k)
        PROVE  Typed'
    <2> DEFINE n == ops'
               r == [Idle EXCEPT !.pc = "begun", !.kind = "replace", !.op = n, !.row = trans,
                                 !.given = list, !.remCat = k]
    <2>1. list \in Seq(Line) /\ Len(list) <= MaxRows
      BY DEF ConstantsAssumption
    <2>2. Op /\ Begin(q, r) /\ UNCHANGED <<trans, born, items, adj, world, overtaken>> /\ n \in 0..MaxOps
          /\ trans # None
      BY <1>2, <1>4 DEF BeginReplace
    <2> HIDE DEF n
    <2>3. r \in Request /\ r.pc = "begun" /\ r.kind = "replace" /\ r.op = n /\ r.row = trans
          /\ r.given = list
      BY <1>1, <2>1, <2>2, IdleRequest DEF Idle, Request
    <2> HIDE DEF r
    <2> QED
      BY <2>1, <2>2, <2>3, BeginTyped DEF n
  <1>5. ASSUME NEW list \in Receipts, BeginFill(q, list)
        PROVE  Typed'
    <2> DEFINE n == ops'
               r == [Idle EXCEPT !.pc = "begun", !.kind = "fill", !.op = n, !.row = trans,
                                 !.given = list]
    <2>1. list \in Seq(Line) /\ Len(list) <= MaxRows
      BY DEF ConstantsAssumption
    <2>2. Op /\ Begin(q, r) /\ UNCHANGED <<trans, born, items, adj, world, overtaken>> /\ n \in 0..MaxOps
          /\ trans # None
      BY <1>2, <1>5 DEF BeginFill
    <2> HIDE DEF n
    <2>3. r \in Request /\ r.pc = "begun" /\ r.kind = "fill" /\ r.op = n /\ r.row = trans
          /\ r.given = list
      BY <1>1, <2>1, <2>2, IdleRequest DEF Idle, Request
    <2> HIDE DEF r
    <2> QED
      BY <2>1, <2>2, <2>3, BeginTyped DEF n
  <1>6. ASSUME NEW a \in Accounts, BeginMove(q, a)
        PROVE  Typed'
    <2> DEFINE n == ops'
               r == [Idle EXCEPT !.pc = "ready", !.kind = "move", !.op = n, !.facet = a]
    <2>1. Op /\ Begin(q, r) /\ UNCHANGED <<trans, born, items, adj, world, overtaken>> /\ n \in 0..MaxOps
      BY <1>2, <1>6 DEF BeginMove
    <2> HIDE DEF n
    <2>2. r \in Request /\ r.pc = "ready" /\ r.kind = "move" /\ r.op = n /\ r.given = <<>>
      BY <2>1, IdleRequest DEF Idle, Request
    <2> HIDE DEF r
    <2> QED
      BY <2>1, <2>2, BeginTyped, IdleRequest DEF n
  <1> QED
    BY <1>3, <1>4, <1>5, <1>6

\* The table that a fill starts from.
LEMMA KeptTable ==
  ASSUME NEW t \in Table
  PROVE  [i \in Ids |-> IF i \in Remainders(t) THEN None ELSE t[i]] \in Table
  BY DEF Table

\* A table whose remainder was given a category.
LEMMA WithRemainderTable ==
  ASSUME ConstantsAssumption, NEW t \in Table, NEW k \in Categories \cup {None}
  PROVE  WithRemainderCategory(t, k) \in Table
  <1>1. \A i \in Remainders(t) : [t[i] EXCEPT !.cat = k] \in Item
    <2> SUFFICES ASSUME NEW i \in Remainders(t)
                 PROVE  [t[i] EXCEPT !.cat = k] \in Item
      OBVIOUS
    <2>1. t[i] \in Item
      BY RowFacts
    <2> QED
      BY <2>1 DEF Item
  <1> QED
    BY <1>1 DEF WithRemainderCategory, Table

\* The steps that read the rows.
LEMMA PreparesTyped ==
  ASSUME ConstantsAssumption, Typed, NEW q \in Requests,
         PrepareUpdate(q) \/ PrepareReplace(q) \/ PrepareFill(q)
  PROVE  Typed'
  <1> DEFINE r == request[q]
  <1>1. /\ r.row \in Trans /\ r.given \in Seq(Line) /\ r.remCat \in Categories \cup {None}
        /\ r.pc = "begun" /\ UNCHANGED <<trans, born, items, adj, world, ops>>
        /\ items \in Table /\ adj \in Adjustment \cup {None} /\ trans \in Trans \cup {None}
             /\ (trans # None => Legal(trans))
    BY Facts DEF PrepareUpdate, PrepareReplace, PrepareFill
  <1>2. CASE Refuse(q)
    BY <1>1, <1>2, EndTyped
  <1>3. ASSUME NEW t \in Table, Ready(q, t)
        PROVE  Typed'
    BY <1>1, <1>3, ReadyTyped
  <1>4. CASE PrepareUpdate(q)
    BY <1>1, <1>2, <1>3, <1>4, NormalizedTable DEF PrepareUpdate
  <1>5. CASE PrepareReplace(q)
    <2> DEFINE fresh == WithRows(Empty, r.op, r.given)
    <2>1. fresh \in Table
      BY <1>1, EmptyTable, WithRowsTable
    <2>2. \A t \in Normalized(r.row, fresh, r.op) : WithRemainderCategory(t, r.remCat) \in Table
      BY <1>1, <2>1, NormalizedTable, WithRemainderTable
    <2> QED
      BY <1>2, <1>3, <1>5, <2>2 DEF PrepareReplace
  <1>6. CASE PrepareFill(q)
    <2> DEFINE kept == [i \in Ids |-> IF i \in Remainders(items) THEN None ELSE items[i]]
    <2>1. kept \in Table
      BY <1>1, KeptTable
    <2>2. \A t \in Normalized(r.row, WithRows(kept, r.op, r.given), r.op) : t \in Table
      BY <1>1, <2>1, WithRowsTable, NormalizedTable
    <2> QED
      BY <1>2, <1>3, <1>6, <2>2 DEF PrepareFill
  <1> QED
    BY <1>4, <1>5, <1>6

\* What a commit leaves is a table, with the rows there were and new ones.
LEMMA MergedTable ==
  ASSUME ConstantsAssumption, NEW r, r.before \in Table, r.after \in Table, items \in Table
  PROVE  /\ Merged(r) \in Table
         /\ \A i \in Rows(r.before) \cap Rows(r.after) :
              Merged(r)[i] = IF i \in Remainders(items) THEN [items[i] EXCEPT !.total = r.after[i].total]
                             ELSE items[i]
         /\ \A i \in (Rows(r.before) \cup Rows(r.after)) \ (Rows(r.before) \cap Rows(r.after)) :
              Merged(r)[i] = r.after[i]
         /\ \A i \in Ids \ (Rows(r.before) \cup Rows(r.after)) : Merged(r)[i] = items[i]
  <1>1. ASSUME NEW i \in Rows(r.before) \cap Rows(r.after), i \in Remainders(items)
        PROVE  [items[i] EXCEPT !.total = r.after[i].total] \in Item
    <2>1. items[i] \in Item /\ r.after[i].total \in Int
      BY <1>1, RowFacts
    <2> QED
      BY <2>1 DEF Item
  <1>2. Rows(r.before) \in SUBSET Ids /\ Rows(r.after) \in SUBSET Ids
    BY DEF Rows
  <1> QED
    BY <1>1, <1>2 DEF Merged, Table

\* The steps that commit.
LEMMA CommitsTyped ==
  ASSUME ConstantsAssumption, Typed, NEW q \in Requests,
         CommitUpdate(q) \/ CommitItems(q) \/ CommitMove(q)
  PROVE  Typed'
  <1> DEFINE r == request[q]
  <1>1. /\ trans \in Trans \cup {None} /\ (trans # None => Legal(trans))
             /\ adj \in Adjustment \cup {None}
        /\ items \in Table /\ r.before \in Table /\ r.after \in Table
        /\ r.facet \in Accounts \cup {None} /\ r.linked \in Adjustment \cup {None}
    BY Facts
  <1>2. Merged(r) \in Table
    BY <1>1, MergedTable
  <1>3. CASE CommitUpdate(q)
    <2>1. r.row \in Trans /\ Legal(r.row)
      BY <1>3, Facts DEF CommitUpdate, Typed, Begun
    <2>2. r.facet # None => Upserted(r.row, r.facet, r.linked, r.op) \in Adjustment
      <3>1. r.op \in 1..MaxOps
        BY <1>3, Facts DEF CommitUpdate, Typed, Begun
      <3> QED
        BY <1>1, <2>1, <3>1, UpsertedTyped
    <2>3. /\ trans' \in {trans, r.row} /\ items' \in {items, Merged(r)}
          /\ adj' \in {adj, None} \/ (r.facet # None /\ adj' = Upserted(r.row, r.facet, r.linked, r.op))
          /\ Finish(q) /\ UNCHANGED <<born, world, ops>>
      BY <1>3 DEF CommitUpdate
    <2> HIDE DEF r
    <2>4. adj' \in Adjustment \cup {None}
      BY <1>1, <2>2, <2>3
    <2> QED
      BY <1>1, <1>2, <2>1, <2>3, <2>4, EndTyped
  <1>4. CASE CommitItems(q)
    BY <1>1, <1>2, <1>4, EndTyped DEF CommitItems
  <1>5. CASE CommitMove(q)
    <2>1. Refuse(q) /\ UNCHANGED <<born, items, adj, world, ops>>
          /\ trans' = IF trans = None THEN None ELSE [trans EXCEPT !.account = r.facet]
      BY <1>5 DEF CommitMove
    <2>2. trans' \in Trans \cup {None} /\ (trans' # None => Legal(trans'))
      <3>1. CASE trans = None
        BY <2>1, <3>1
      <3>2. CASE trans # None
        <4>1. trans \in Trans /\ Legal(trans)
          BY <1>1, <3>2
        <4> HIDE DEF r
        <4> QED
          BY <1>1, <2>1, <3>2, <4>1 DEF Trans, Legal
      <3> QED
        BY <3>1, <3>2
    <2> QED
      BY <1>1, <2>1, <2>2, EndTyped
  <1> QED
    BY <1>3, <1>4, <1>5

\* The steps that are served at once.
LEMMA QuietTyped ==
  ASSUME ConstantsAssumption, Typed, Op, UNCHANGED request, born' \in BOOLEAN,
         overtaken' \in [Requests -> SUBSET {"row", "items"}],
         trans' \in Trans \cup {None}, trans' # None => Legal(trans'), items' \in Table,
         adj' \in Adjustment \cup {None}, closed' \subseteq Accounts,
         category' \in [Categories -> {"live", "archived", "gone"}]
  PROVE  Typed'
  <1>1. ops \in 0..MaxOps /\ ops' = ops + 1 /\ ops' \in 0..MaxOps
    BY DEF Typed, TypeOK, Op, ConstantsAssumption
  <1>2. TypeOK'
    BY <1>1 DEF Typed, TypeOK, Legal, Table
  <1>3. Begun'
    BY <1>1 DEF Typed, Begun, Legal
  <1> QED
    BY <1>2, <1>3 DEF Typed

\* A new transaction has its types.
LEMMA CreateTyped ==
  ASSUME ConstantsAssumption, Typed, NEW f \in Forms, NEW list \in Lists, Create(f, list)
  PROVE  Typed'
  <1> DEFINE row == RowOf(f)
             t == WithRows(Empty, ops', list)
  <1>1. row \in Trans /\ Legal(row) /\ f.origAccount \in Accounts \cup {None}
    BY RowOfForm DEF Create
  <1>2. list \in Seq(Line)
    BY DEF ConstantsAssumption
  <1>3. t \in Table
    BY <1>2, EmptyTable, WithRowsTable
  <1>4. /\ Op /\ UNCHANGED <<category, closed, request, overtaken>> /\ born' = TRUE /\ trans' = row
        /\ items' \in Normalized(row, t, ops')
        /\ adj' = IF f.origAccount = None THEN None ELSE Upserted(row, f.origAccount, None, ops')
    BY DEF Create, world
  <1>5. f.origAccount # None => Upserted(row, f.origAccount, None, ops') \in Adjustment
    <2>1. ops' \in 1..MaxOps
      BY <1>4, Facts DEF Op, ConstantsAssumption
    <2> QED
      BY <1>1, <2>1, UpsertedTyped
  <1>6. items' \in Table
    BY <1>1, <1>3, <1>4, NormalizedTable
  <1>7. adj' \in Adjustment \cup {None}
    BY <1>4, <1>5
  <1> HIDE DEF row, t
  <1> QED
    BY <1>1, <1>4, <1>6, <1>7, Facts, QuietTyped

\* Rows with another category are rows still.
LEMMA RecategorizedTyped ==
  ASSUME ConstantsAssumption, Typed, Op, NEW k \in Categories, NEW l \in Categories \cup {None},
         Recategorized(k, l)
  PROVE  Typed'
  <1>1. /\ UNCHANGED <<born, adj, closed, request, overtaken>> /\ category' = [category EXCEPT ![k] = "gone"]
        /\ trans' = IF trans # None /\ trans.cat = k THEN [trans EXCEPT !.cat = l] ELSE trans
        /\ items' = [i \in Ids |-> IF i \in Rows(items) /\ items[i].cat = k
                                   THEN [items[i] EXCEPT !.cat = l] ELSE items[i]]
    BY DEF Recategorized
  <1>2. /\ trans \in Trans \cup {None} /\ (trans # None => Legal(trans)) /\ items \in Table
        /\ category \in [Categories -> {"live", "archived", "gone"}] /\ None \notin Categories
    BY Facts
  <1>3. trans' \in Trans \cup {None} /\ (trans' # None => Legal(trans'))
    <2>1. CASE trans # None /\ trans.cat = k
      <3>1. trans \in Trans /\ Legal(trans) /\ trans.cat # None
        BY <1>2, <2>1
      <3> QED
        BY <1>1, <2>1, <3>1 DEF Trans, Legal
    <2>2. CASE ~(trans # None /\ trans.cat = k)
      BY <1>1, <1>2, <2>2
    <2> QED
      BY <2>1, <2>2
  <1>4. items' \in Table
    <2>1. \A i \in Rows(items) : [items[i] EXCEPT !.cat = l] \in Item
      <3> SUFFICES ASSUME NEW i \in Rows(items)
                   PROVE  [items[i] EXCEPT !.cat = l] \in Item
        OBVIOUS
      <3>1. items[i] \in Item
        BY <1>2, RowFacts
      <3> QED
        BY <3>1 DEF Item
    <2> QED
      BY <1>1, <1>2, <2>1 DEF Table
  <1>5. category' \in [Categories -> {"live", "archived", "gone"}]
    BY <1>1, <1>2
  <1> QED
    BY <1>1, <1>3, <1>4, <1>5, Facts, QuietTyped

\* Every step keeps the types, whether requests overlap or not.
LEMMA StepTyped ==
  ASSUME ConstantsAssumption, Typed, [Next]_vars
  PROVE  Typed'
  <1>1. CASE UNCHANGED vars
    BY <1>1 DEF vars, Typed, TypeOK, Begun, Legal
  <1>2. ASSUME NEW q \in Requests,
               PrepareUpdate(q) \/ PrepareReplace(q) \/ PrepareFill(q)
        PROVE  Typed'
    BY <1>2, PreparesTyped
  <1>3. ASSUME NEW q \in Requests,
               CommitUpdate(q) \/ CommitItems(q) \/ CommitMove(q)
        PROVE  Typed'
    BY <1>3, CommitsTyped
  <1>4. ASSUME NEW q \in Requests,
               \/ \E f \in Forms : BeginUpdate(q, f)
               \/ \E list \in Lists, k \in Categories \cup {None} : BeginReplace(q, list, k)
               \/ \E list \in Receipts : BeginFill(q, list)
               \/ \E a \in Accounts : BeginMove(q, a)
        PROVE  Typed'
    BY <1>4, BeginsTyped
  <1>5. ASSUME NEW f \in Forms, NEW list \in Lists, Create(f, list)
        PROVE  Typed'
    BY <1>5, CreateTyped
  <1>6. CASE Delete
    <2>1. Written \in SUBSET {"row", "items"} /\ overtaken \in [Requests -> SUBSET {"row", "items"}]
      BY Facts DEF Written
    <2>2. overtaken' \in [Requests -> SUBSET {"row", "items"}]
      BY <1>6, <2>1 DEF Delete, Overtake
    <2> QED
      BY <1>6, <2>2, Facts, EmptyTable, QuietTyped DEF Delete, world
  <1>7. ASSUME NEW k \in Categories, ArchiveCategory(k)
        PROVE  Typed'
    <2>1. /\ Op /\ UNCHANGED <<trans, born, items, adj, closed, request, overtaken>>
          /\ category' = [category EXCEPT ![k] = IF category[k] = "live" THEN "archived" ELSE "live"]
      BY <1>7 DEF ArchiveCategory
    <2>2. category' \in [Categories -> {"live", "archived", "gone"}]
      BY <2>1, Facts
    <2> QED
      BY <2>1, <2>2, Facts, QuietTyped
  <1>8. ASSUME NEW k \in Categories, DeleteCategory(k) \/ \E l \in Categories : MergeCategory(k, l)
        PROVE  Typed'
    BY <1>8, RecategorizedTyped DEF DeleteCategory, MergeCategory
  <1>9. ASSUME NEW a \in Accounts, ArchiveAccount(a)
        PROVE  Typed'
    <2>1. Op /\ UNCHANGED <<trans, born, items, adj, category, request, overtaken>>
          /\ closed' \subseteq closed \cup {a}
      BY <1>9 DEF ArchiveAccount
    <2> QED
      BY <2>1, Facts, QuietTyped
  <1> QED
    BY <1>1, <1>2, <1>3, <1>4, <1>5, <1>6, <1>7, <1>8, <1>9 DEF Next

-----------------------------------------------------------------------------
(* What a request under way knows.                                         *)

\* Tables that differ in their categories only.
Same(t, u) ==
  Rows(t) = Rows(u) /\ \A i \in Rows(t) : t[i].total = u[i].total /\ t[i].rem = u[i].rem

\* At most one remainder.
One(t) == \A i, j \in Remainders(t) : i = j

\* Category c, when there is one, is of the budget of category k.
Fits(k, c) == c # None => k # None /\ BudgetOf[c] = BudgetOf[k]

\* What a request has decided to write, from the rows it has read.
Planned(r) ==
  /\ \A i \in Rows(r.before) : i[1] # r.op
  /\ \A i \in Rows(r.after) : i \in Rows(r.before) \/ (i[1] = r.op /\ Fits(r.row.cat, r.after[i].cat))
  /\ \A i \in Rows(r.before) \cap Rows(r.after) :
       /\ r.after[i].rem = r.before[i].rem
       /\ ~r.before[i].rem => r.after[i].total = r.before[i].total
  /\ One(r.before) => Covers(r.row, r.after)
  /\ IF r.kind = "fill" THEN UserRows(r.before) = {} ELSE ~OverSum(r.row, r.after)

\* What stays true of a request whatever others do.
Valid(r) ==
  /\ r.kind = "update" =>
       /\ SameCurrencies(r.row)
       /\ r.facet # None => r.row.orig # 0 /\ CurrencyOf[r.facet] = r.row.origCur
  /\ r.kind \in {"replace", "fill"} => \A n \in DOMAIN r.given : Fits(r.row.cat, r.given[n].cat)
  /\ r.kind = "fill" => \A n \in DOMAIN r.given : r.given[n].cat = None
  /\ r.kind = "fill" => \A i \in Rows(r.after) \ Rows(r.before) : r.after[i].cat = None
  /\ r.kind = "move" => r.facet # None
  /\ r.pc = "ready" /\ r.kind # "move" => Planned(r)

\* What it knows of the transaction and of the adjustment.
KnowsRow(r) ==
  /\ trans # None
  /\ r.kind = "update" => r.linked = adj
  /\ r.kind \in {"replace", "fill"} =>
       /\ r.row.type = trans.type /\ r.row.amount = trans.amount
       /\ trans.cat # None => r.row.cat # None /\ BudgetOf[r.row.cat] = BudgetOf[trans.cat]
  /\ r.kind = "move" => CurrencyOf[r.facet] = trans.cur

\* What it knows of the items.
KnowsItems(r) ==
  /\ r.kind = "update" => Agree(r.row, items)
  /\ r.pc = "ready" /\ r.kind # "move" => Same(r.before, items)

\* Its rows are its own, and what was not overtaken is known.
Knows(q) ==
  /\ \A i \in Rows(items) : i[1] # request[q].op
  /\ \A p \in Requests : p # q /\ request[p].pc # "idle" => request[p].op # request[q].op
  /\ Valid(request[q])
  /\ "row" \notin overtaken[q] => KnowsRow(request[q])
  /\ "items" \notin overtaken[q] => KnowsItems(request[q])

UnderWay == \A q \in Requests : request[q].pc # "idle" => Knows(q)

\* The transaction is created once, before any other request.
BornFirst == trans # None \/ (\E q \in Requests : request[q].pc # "idle") => born

\* The inductive invariant of requests that overlap in any way.
Inv ==
  /\ Typed /\ BornFirst /\ UnderWay
  /\ \A i \in Rows(items) : i[1] <= ops

-----------------------------------------------------------------------------
(* What a step does to the properties.                                     *)

\* The parts of StaysCovered and its companions: a step.
CoverStep ==
  Covered /\ ~Covered' =>
    \E q \in Requests : Stale(q, {"update", "replace", "fill"}, {"row", "items"})
FullStep ==
  Overfull' /\ ~Overfull =>
    \E q \in Requests :
      \/ request[q].kind = "fill" /\ request'[q].pc = "idle" /\ UserRows(items) = {}
      \/ Stale(q, {"update", "replace", "fill"}, {"row", "items"})
CategoryStep ==
  ItemCategoriesAgree /\ ~ItemCategoriesAgree' =>
    \E q \in Requests : Stale(q, {"update"}, {"items"}) \/ Stale(q, {"replace"}, {"row"})
CurrencyStep ==
  CurrenciesAgree /\ ~CurrenciesAgree' => \E q \in Requests : Stale(q, {"move"}, {"row"})
MirrorStep ==
  AdjustmentMirrors /\ ~AdjustmentMirrors' => \E q \in Requests : Stale(q, {"update"}, {"row"})

Steps == CoverStep /\ FullStep /\ CategoryStep /\ CurrencyStep /\ MirrorStep

\* A step that writes neither the transaction nor the items nor the adjustment.
LEMMA QuietSteps ==
  ASSUME UNCHANGED <<trans, items, adj>>
  PROVE  Steps
  <1>1. (Covered' <=> Covered) /\ (Overfull' <=> Overfull)
        /\ (ItemCategoriesAgree' <=> ItemCategoriesAgree)
        /\ (CurrenciesAgree' <=> CurrenciesAgree) /\ (AdjustmentMirrors' <=> AdjustmentMirrors)
    BY DEF Covered, Overfull, ItemCategoriesAgree, CurrenciesAgree, AdjustmentMirrors
  <1> QED
    BY <1>1 DEF Steps, CoverStep, FullStep, CategoryStep, CurrencyStep, MirrorStep

\* What of the transaction matters to those who have read it is kept.
RowKept ==
  /\ adj' = adj
  /\ trans # None =>
       /\ trans' # None /\ trans'.type = trans.type /\ trans'.amount = trans.amount
       /\ trans'.cur = trans.cur
       /\ trans'.cat # None => trans.cat # None /\ BudgetOf[trans'.cat] = BudgetOf[trans.cat]

\* What of the items matters to those who have read them is kept.
ItemsKept ==
  /\ Same(items, items')
  /\ \A i \in Rows(items) :
       items'[i].cat # None => items[i].cat # None /\ BudgetOf[items'[i].cat] = BudgetOf[items[i].cat]

\* What is not written is kept.
LEMMA Unwritten ==
  /\ UNCHANGED <<trans, adj>> => RowKept
  /\ UNCHANGED items => ItemsKept
  BY DEF RowKept, ItemsKept, Same

\* Another request's step tells of what it overtakes.
Notices(q) ==
  /\ overtaken[q] \subseteq overtaken'[q]
  /\ "row" \in overtaken'[q] \/ RowKept
  /\ "items" \in overtaken'[q] \/ ItemsKept

\* What a request knew is still so, or it was overtaken.
LEMMA KnowsKept ==
  ASSUME NEW q \in Requests, Knows(q), request'[q] = request[q], Notices(q),
         \A i \in Rows(items') : i[1] # request[q].op,
         \A p \in Requests : p # q /\ request'[p].pc # "idle" => request'[p].op # request[q].op
  PROVE  Knows(q)'
  <1> DEFINE r == request[q]
  <1>1. Valid(r)' <=> Valid(r)
    BY DEF Valid, Planned, SameCurrencies, One, Covers, OverSum, Fits, Rest
  <1>2. ASSUME "row" \notin overtaken'[q]
        PROVE  KnowsRow(r)'
    <2>1. RowKept /\ KnowsRow(r)
      BY <1>2 DEF Knows, Notices
    <2> QED
      BY <2>1 DEF RowKept, KnowsRow
  <1>3. ASSUME "items" \notin overtaken'[q]
        PROVE  KnowsItems(r)'
    <2>1. ItemsKept /\ KnowsItems(r)
      BY <1>3 DEF Knows, Notices
    <2>2. r.kind = "update" => Agree(r.row, items')
      <3> SUFFICES ASSUME r.kind = "update", r.row.cat # None, NEW i \in Rows(items'),
                          items'[i].cat # None
                   PROVE  BudgetOf[items'[i].cat] = BudgetOf[r.row.cat]
        BY DEF Agree
      <3>1. i \in Rows(items) /\ Agree(r.row, items)
        BY <2>1 DEF ItemsKept, Same, KnowsItems
      <3>2. items[i].cat # None /\ BudgetOf[items'[i].cat] = BudgetOf[items[i].cat]
        BY <2>1, <3>1 DEF ItemsKept
      <3> QED
        BY <3>1, <3>2 DEF Agree
    <2>3. Same(r.before, items) => Same(r.before, items')
      BY <2>1 DEF ItemsKept, Same
    <2>4. r' = r
      OBVIOUS
    <2> HIDE DEF r
    <2> QED
      BY <2>1, <2>2, <2>3, <2>4 DEF KnowsItems
  <1> QED
    BY <1>1, <1>2, <1>3 DEF Knows

\* A step of one request, of which the others under way take notice.  A step of
\* no request is one of p = None.
LEMMA InvKept ==
  ASSUME ConstantsAssumption, Inv, Typed', NEW p \in Requests \cup {None},
         \A q \in Requests : q # p => request'[q] = request[q],
         \A q \in Requests : q # p /\ request[q].pc # "idle" => Notices(q),
         p \in Requests /\ request'[p].pc # "idle" => Knows(p)',
         \A i \in Rows(items') :
           i \in Rows(items) \/ (p \in Requests /\ request[p].pc # "idle" /\ i[1] = request[p].op),
         ops' \in {ops, ops + 1}, BornFirst'
  PROVE  Inv'
  <1>1. ops \in Int /\ items \in Table /\ \A i \in Ids : i[1] \in Int
    BY Facts DEF Inv, Ids
  <1>2. \A i \in Rows(items) : i[1] \in Int /\ i[1] <= ops
    BY <1>1 DEF Inv, Rows
  <1>3. (\A i \in Rows(items) : i[1] <= ops)'
    <2>1. \A i \in Rows(items') : i[1] \in Int /\ i[1] <= ops
      <3>1. p \in Requests /\ request[p].pc # "idle" => request[p].op \in 1..ops
        BY DEF Inv, Typed, Begun
      <3> QED
        BY <1>1, <1>2, <3>1
    <2> QED
      BY <1>1, <2>1
  <1>4. UnderWay'
    <2> SUFFICES ASSUME NEW q \in Requests, request'[q].pc # "idle"
                 PROVE  Knows(q)'
      BY DEF UnderWay
    <2>1. CASE q = p
      BY <2>1
    <2>2. CASE q # p
      <3>1. request'[q] = request[q] /\ Knows(q) /\ Notices(q)
        BY <2>2 DEF Inv, UnderWay
      <3>2. \A i \in Rows(items') : i[1] # request[q].op
        BY <2>2, <3>1 DEF Knows
      <3>3. \A s \in Requests : s # q /\ request'[s].pc # "idle" => request'[s].op # request[q].op
        <4> SUFFICES ASSUME NEW s \in Requests, s # q, request'[s].pc # "idle"
                     PROVE  request'[s].op # request[q].op
          OBVIOUS
        <4>1. CASE s = p
          BY <3>1, <4>1 DEF Knows
        <4>2. CASE s # p
          BY <3>1, <4>2 DEF Knows
        <4> QED
          BY <4>1, <4>2
      <3> QED
        BY <3>1, <3>2, <3>3, KnowsKept
    <2> QED
      BY <2>1, <2>2
  <1> QED
    BY <1>3, <1>4 DEF Inv

-----------------------------------------------------------------------------
(* The steps of a request.                                                 *)

\* The invariant at the start.
LEMMA InitInv ==
  ASSUME ConstantsAssumption, Init
  PROVE  Inv
  <1>1. Typed
    BY InitTyped
  <1>2. \A q \in Requests : request[q].pc = "idle"
    BY IdleRequest DEF Init
  <1>3. Rows(items) = {} /\ trans = None
    BY EmptyTable DEF Init
  <1> QED
    BY <1>1, <1>2, <1>3 DEF Inv, UnderWay, BornFirst

\* A new request has read what there is.
LEMMA BeginInv ==
  ASSUME ConstantsAssumption, Inv, Typed', Op, NEW q \in Requests, request[q].pc = "idle",
         NEW r, Begin(q, r), r.op = ops', trans # None, Valid(r)', KnowsRow(r)', KnowsItems(r)',
         UNCHANGED <<trans, born, items, adj, world, overtaken>>
  PROVE  Inv' /\ Steps
  <1>1. request' = [request EXCEPT ![q] = r] /\ request \in [Requests -> Request] /\ ops \in Int
        /\ ops' = ops + 1 /\ items \in Table
    BY Facts DEF Begin, Inv, Op
  <1>2. request'[q] = r /\ \A p \in Requests : p # q => request'[p] = request[p]
    BY <1>1
  <1>3. \A p \in Requests : p # q /\ request[p].pc # "idle" => Notices(p)
    BY Unwritten DEF Notices
  <1>4. Knows(q)'
    <2>1. \A i \in Rows(items') : i[1] # ops'
      <3>1. \A i \in Rows(items) : i[1] \in Int /\ i[1] <= ops
        BY <1>1, RowFacts DEF Inv, Ids
      <3> QED
        BY <1>1, <3>1
    <2>2. \A p \in Requests : p # q /\ request'[p].pc # "idle" => request'[p].op # ops'
      <3>1. \A p \in Requests : request[p].pc # "idle" => request[p].op \in 1..ops
        BY DEF Inv, Typed, Begun
      <3> QED
        BY <1>1, <1>2, <3>1
    <2> QED
      BY <1>2, <2>1, <2>2 DEF Knows
  <1>5. BornFirst'
    BY DEF Inv, BornFirst
  <1> QED
    BY <1>1, <1>2, <1>3, <1>4, <1>5, InvKept, QuietSteps

\* The requests that begin.
LEMMA BeginsInv ==
  ASSUME ConstantsAssumption, Inv, Typed', NEW q \in Requests,
         \/ \E f \in Forms : BeginUpdate(q, f)
         \/ \E list \in Lists, k \in Categories \cup {None} : BeginReplace(q, list, k)
         \/ \E list \in Receipts : BeginFill(q, list)
         \/ \E a \in Accounts : BeginMove(q, a)
  PROVE  Inv' /\ Steps
  <1>0. PICK op : op = ops'
    OBVIOUS
  <1>1. /\ trans # None /\ Op /\ request[q].pc = "idle"
        /\ UNCHANGED <<trans, born, items, adj, world, overtaken>>
    BY DEF BeginUpdate, BeginReplace, BeginFill, BeginMove
  <1>2. /\ None \notin Trans /\ None \notin Accounts /\ None \notin Categories /\ trans \in Trans
        /\ Rows(Empty) = {}
    BY <1>1, Facts, EmptyTable DEF Inv
  <1>3. ASSUME NEW f \in Forms, BeginUpdate(q, f)
        PROVE  Inv' /\ Steps
    <2> DEFINE row == RowOf(f)
               facet == f.origAccount
    <2>0. PICK r : r = [Idle EXCEPT !.pc = "begun", !.kind = "update", !.op = op, !.row = row,
                                    !.linked = adj, !.facet = facet]
      OBVIOUS
    <2>1. /\ row.cat = f.cat /\ SameCurrencies(row)
          /\ facet # None => row.orig # 0 /\ CurrencyOf[facet] = row.origCur
          /\ ItemCategoriesAllowed(f.cat, {items[i].cat : i \in Rows(items)})
      BY <1>3, RowOfForm DEF BeginUpdate
    <2>2. Agree(row, items)
      BY <2>1 DEF Agree, ItemCategoriesAllowed
    <2>3. Begin(q, r)
      BY <1>0, <1>3, <2>0 DEF BeginUpdate
    <2> HIDE DEF row, facet
    <2>4. r.pc = "begun" /\ r.kind = "update" /\ r.op = op /\ r.row = row /\ r.linked = adj
          /\ r.facet = facet
      BY <2>0 DEF Idle
    <2>5. Valid(r)' /\ KnowsRow(r)' /\ KnowsItems(r)'
      BY <1>1, <2>1, <2>2, <2>4 DEF Valid, KnowsRow, KnowsItems
    <2> QED
      BY <1>0, <1>1, <2>3, <2>4, <2>5, BeginInv
  <1>4. ASSUME NEW list \in Lists, NEW k \in Categories \cup {None}, BeginReplace(q, list, k)
        PROVE  Inv' /\ Steps
    <2>0. PICK r : r = [Idle EXCEPT !.pc = "begun", !.kind = "replace", !.op = op, !.row = trans,
                                 !.given = list, !.remCat = k]
      OBVIOUS
    <2>1. Begin(q, r) /\ ItemCategoriesAllowed(trans.cat, ListCategories(list))
      BY <1>0, <1>4, <2>0 DEF BeginReplace
    <2>2. \A n \in DOMAIN list : Fits(trans.cat, list[n].cat)
      BY <2>1 DEF ItemCategoriesAllowed, ListCategories, Fits
    <2>3. r.pc = "begun" /\ r.kind = "replace" /\ r.op = op /\ r.row = trans /\ r.given = list
      BY <2>0 DEF Idle
    <2>4. Valid(r)' /\ KnowsRow(r)' /\ KnowsItems(r)'
      BY <1>1, <2>2, <2>3 DEF Valid, KnowsRow, KnowsItems
    <2> QED
      BY <1>0, <1>1, <2>1, <2>3, <2>4, BeginInv
  <1>5. ASSUME NEW list \in Receipts, BeginFill(q, list)
        PROVE  Inv' /\ Steps
    <2>0. PICK r : r = [Idle EXCEPT !.pc = "begun", !.kind = "fill", !.op = op, !.row = trans,
                                 !.given = list]
      OBVIOUS
    <2>1. Begin(q, r)
      BY <1>0, <1>5, <2>0 DEF BeginFill
    <2>2. \A n \in DOMAIN list : list[n].cat = None
      BY DEF ConstantsAssumption
    <2>3. r.pc = "begun" /\ r.kind = "fill" /\ r.op = op /\ r.row = trans /\ r.given = list
          /\ r.after = Empty
      BY <2>0 DEF Idle
    <2>4. Valid(r)' /\ KnowsRow(r)' /\ KnowsItems(r)'
      <3>1. Rows(r.after) = {}
        BY <1>2, <2>3
      <3> QED
        BY <1>1, <2>2, <2>3, <3>1 DEF Valid, KnowsRow, KnowsItems, Fits
    <2> QED
      BY <1>0, <1>1, <2>1, <2>3, <2>4, BeginInv
  <1>6. ASSUME NEW a \in Accounts, BeginMove(q, a)
        PROVE  Inv' /\ Steps
    <2>0. PICK r : r = [Idle EXCEPT !.pc = "ready", !.kind = "move", !.op = op, !.facet = a]
      OBVIOUS
    <2>1. Begin(q, r) /\ trans.cur = CurrencyOf[a]
      BY <1>0, <1>6, <2>0 DEF BeginMove, MoveAllowed
    <2>2. r.pc = "ready" /\ r.kind = "move" /\ r.op = op /\ r.facet = a
      BY <2>0 DEF Idle
    <2>3. Valid(r)' /\ KnowsRow(r)' /\ KnowsItems(r)'
      BY <1>1, <1>2, <2>1, <2>2 DEF Valid, KnowsRow, KnowsItems
    <2> QED
      BY <1>0, <1>1, <2>1, <2>2, <2>3, BeginInv
  <1> QED
    BY <1>3, <1>4, <1>5, <1>6

\* A request that is refused writes nothing.
LEMMA RefuseInv ==
  ASSUME ConstantsAssumption, Inv, Typed', NEW q \in Requests, request[q].pc # "idle",
         Refuse(q) \/ Finish(q), UNCHANGED <<trans, born, items, adj, world, ops>>
  PROVE  Inv' /\ Steps
  <1>1. request'[q].pc = "idle" /\ \A p \in Requests : p # q => request'[p] = request[p]
    BY Ended DEF Inv
  <1>2. \A p \in Requests : p # q /\ request[p].pc # "idle" => Notices(p)
    <2>1. \A p \in Requests : p # q /\ request[p].pc # "idle" => overtaken[p] \subseteq overtaken'[p]
      BY Facts DEF Inv, Refuse, Finish, Overtake
    <2> QED
      BY <2>1, Unwritten DEF Notices
  <1>3. BornFirst'
    BY DEF Inv, BornFirst
  <1> QED
    BY <1>1, <1>2, <1>3, InvKept, QuietSteps

\* A request that has read the rows.
LEMMA ReadyInv ==
  ASSUME ConstantsAssumption, Inv, Typed', NEW q \in Requests, request[q].pc = "begun",
         request[q].kind \in {"update", "replace", "fill"},
         NEW t \in Table, Ready(q, t), UNCHANGED <<trans, born, items, adj, world, ops>>,
         NEW row, row = request[q].row,
         \A i \in Rows(t) : i \in Rows(items) \/ (i[1] = request[q].op /\ Fits(row.cat, t[i].cat)),
         request[q].kind = "fill" => \A i \in Rows(t) \ Rows(items) : t[i].cat = None,
         \A i \in Rows(items) \cap Rows(t) :
           t[i].rem = items[i].rem /\ (~items[i].rem => t[i].total = items[i].total),
         One(items) => Covers(row, t),
         IF request[q].kind = "fill" THEN UserRows(items) = {} ELSE ~OverSum(row, t)
  PROVE  Inv' /\ Steps
  <1>1. PICK r \in Request :
           /\ request' = [request EXCEPT ![q] = r] /\ r.pc = "ready" /\ r.before = items
           /\ r.after = t
           /\ r.kind = request[q].kind /\ r.op = request[q].op /\ r.row = request[q].row
           /\ r.linked = request[q].linked /\ r.facet = request[q].facet
           /\ r.given = request[q].given
    BY ReadyStep DEF Inv
  <1>2. request \in [Requests -> Request] /\ Knows(q)
    BY Facts DEF Inv, UnderWay
  <1>3. request'[q] = r /\ \A p \in Requests : p # q => request'[p] = request[p]
    BY <1>1, <1>2
  <1>4. \A p \in Requests : p # q /\ request[p].pc # "idle" => Notices(p)
    BY Unwritten DEF Notices, Ready
  <1>5. Planned(r)
    <2>1. \A i \in Rows(items) : i[1] # r.op
      BY <1>1, <1>2 DEF Knows
    <2> QED
      BY <1>1, <2>1 DEF Planned
  <1>6. Valid(r)
    BY <1>1, <1>2, <1>5 DEF Knows, Valid
  <1>7. "row" \notin overtaken[q] => KnowsRow(r)
    BY <1>1, <1>2 DEF Knows, KnowsRow
  <1>8. "items" \notin overtaken[q] => KnowsItems(r)
    BY <1>1, <1>2 DEF Knows, KnowsItems, Same
  <1>9. Valid(r)' /\ ("row" \notin overtaken'[q] => KnowsRow(r)')
        /\ ("items" \notin overtaken'[q] => KnowsItems(r)')
    BY <1>6, <1>7, <1>8 DEF Valid, KnowsRow, KnowsItems, Ready
  <1>10. Knows(q)'
    <2>1. \A i \in Rows(items') : i[1] # r.op
      BY <1>1, <1>2 DEF Knows
    <2>2. \A p \in Requests : p # q /\ request'[p].pc # "idle" => request'[p].op # r.op
      BY <1>1, <1>2, <1>3 DEF Knows
    <2> QED
      BY <1>3, <1>9, <2>1, <2>2 DEF Knows
  <1>11. BornFirst'
    BY DEF Inv, BornFirst
  <1> QED
    BY <1>1, <1>3, <1>4, <1>10, <1>11, InvKept, QuietSteps

-----------------------------------------------------------------------------
(* What the requests prepare.                                              *)

\* The item rows that a list becomes, where there are no others.
LEMMA GivenRows ==
  ASSUME ConstantsAssumption, NEW t \in Table, NEW op \in 1..MaxOps, NEW list \in Seq(Line),
         Len(list) <= MaxRows,
         Rows(t) = {}, NEW u, u = WithRows(t, op, list)
  PROVE  /\ u \in Table /\ u[<<op, 0>>] = None /\ Remainders(u) = {}
         /\ \A i \in Rows(u) : i[1] = op
         /\ \A i \in Rows(u) : i[2] \in DOMAIN list /\ u[i].cat = list[i[2]].cat
  <1>1. u \in Table
    BY WithRowsTable
  <1>2. \A i \in Ids : i[1] \in 1..MaxOps /\ i[2] \in 0..MaxRows
    BY DEF Ids
  <1>3. MaxOps \in Nat /\ MaxRows \in Nat
    BY DEF ConstantsAssumption
  <1>4. ASSUME NEW i \in Ids, i[1] = op, i[2] \in DOMAIN list
        PROVE  u[i] # None /\ ~u[i].rem /\ u[i].cat = list[i[2]].cat
    <2>1. u[i] = [total |-> list[i[2]].total, cat |-> list[i[2]].cat, rem |-> FALSE]
      BY <1>4 DEF WithRows
    <2>2. list[i[2]] \in Line
      BY <1>4
    <2>3. u[i] \in Item
      BY <2>1, <2>2 DEF Line, Item
    <2>4. u[i] # None
      BY <2>3 DEF ConstantsAssumption
    <2> QED
      BY <2>1, <2>4
  <1>5. ASSUME NEW i \in Ids, ~(i[1] = op /\ i[2] \in DOMAIN list)
        PROVE  u[i] = t[i]
    BY <1>5 DEF WithRows
  <1>6. <<op, 0>> \in Ids /\ 0 \notin DOMAIN list
    BY <1>3 DEF Ids
  <1>7. u[<<op, 0>>] = None
    <2>1. u[<<op, 0>>] = t[<<op, 0>>]
      BY <1>5, <1>6
    <2> QED
      BY <1>6, <2>1 DEF Rows
  <1>8. ASSUME NEW i \in Rows(u)
        PROVE  i[1] = op /\ ~u[i].rem /\ i[2] \in DOMAIN list /\ u[i].cat = list[i[2]].cat
    <2>1. i \in Ids /\ u[i] # None
      BY DEF Rows
    <2>2. i[1] = op /\ i[2] \in DOMAIN list
      BY <1>5, <2>1 DEF Rows
    <2> QED
      BY <1>4, <2>1, <2>2
  <1>9. Remainders(u) = {}
    BY <1>8 DEF Remainders
  <1> QED
    BY <1>1, <1>7, <1>8, <1>9

\* Normalizing a table changes the total of a remainder, drops remainders or
\* adds one, however many there are; the rows of the user stay.
LEMMA NormalizedKeeps ==
  ASSUME ConstantsAssumption, NEW row \in Trans, NEW t \in Table, NEW op \in 1..MaxOps,
         t[<<op, 0>>] = None, NEW u \in Normalized(row, t, op)
  PROVE  /\ \A i \in Rows(u) : i \in Rows(t) \/ (i = <<op, 0>> /\ u[i].cat = None)
         /\ \A i \in Rows(t) \cap Rows(u) :
              u[i].rem = t[i].rem /\ u[i].cat = t[i].cat /\ (~t[i].rem => u[i].total = t[i].total)
         /\ UserRows(u) = UserRows(t)
         /\ OverSum(row, u) <=> OverSum(row, t)
  <1> DEFINE z == <<op, 0>>
             new == [total |-> Rest(row, t), cat |-> None, rem |-> TRUE]
  <1>1. u \in Table /\ z \in Ids /\ Rest(row, t) \in Int /\ None \notin Item
    BY NormalizedTable, RestTyped DEF Ids, ConstantsAssumption
  <1>2. \A i \in Ids : \/ u[i] = t[i]
                       \/ i \in Remainders(t) /\ u[i] = None
                       \/ i \in Remainders(t) /\ u[i] = [t[i] EXCEPT !.total = Rest(row, t)]
                       \/ i = z /\ u[i] = new
    <2> HIDE DEF z, new
    <2>1. CASE row.type = "adjustment"
      BY <2>1 DEF Normalized
    <2>2. CASE row.type # "adjustment" /\ Remainders(t) = {}
      <3>1. u = t \/ u = [t EXCEPT ![z] = new]
        BY <2>2 DEF Normalized, z, new
      <3> QED
        BY <3>1 DEF Table
    <2>3. CASE row.type # "adjustment" /\ Remainders(t) # {}
      <3>1. PICK j \in Remainders(t) :
              u = [t EXCEPT ![j] = IF Rest(row, t) <= 0 THEN None ELSE [t[j] EXCEPT !.total = Rest(row, t)]]
        BY <2>3 DEF Normalized
      <3> QED
        BY <3>1 DEF Table
    <2> QED
      BY <2>1, <2>2, <2>3
  <1>3. ASSUME NEW i \in Remainders(t)
        PROVE  /\ [t[i] EXCEPT !.total = Rest(row, t)] \in Item /\ t[i].rem
               /\ [t[i] EXCEPT !.total = Rest(row, t)].rem = t[i].rem /\ i \in Rows(t)
               /\ [t[i] EXCEPT !.total = Rest(row, t)].cat = t[i].cat
    <2>1. t[i] \in Item /\ t[i].rem /\ i \in Rows(t)
      BY RowFacts DEF Remainders
    <2> QED
      BY <1>1, <2>1 DEF Item
  <1>4. new.cat = None /\ new.rem /\ z \notin Rows(t)
    BY DEF Rows
  <1> HIDE DEF z, new
  <1>5. \A i \in Rows(u) : i \in Rows(t) \/ (i = z /\ u[i].cat = None)
    BY <1>2, <1>3, <1>4 DEF Rows
  <1>6. \A i \in Rows(t) \cap Rows(u) :
          u[i].rem = t[i].rem /\ u[i].cat = t[i].cat /\ (~t[i].rem => u[i].total = t[i].total)
    <2> SUFFICES ASSUME NEW i \in Rows(t) \cap Rows(u)
                 PROVE  u[i].rem = t[i].rem /\ u[i].cat = t[i].cat /\ (~t[i].rem => u[i].total = t[i].total)
      OBVIOUS
    <2>1. i \in Ids /\ u[i] # None /\ i # z
      BY <1>4 DEF Rows
    <2>2. CASE u[i] = t[i]
      BY <2>2
    <2>3. CASE i \in Remainders(t) /\ u[i] = [t[i] EXCEPT !.total = Rest(row, t)]
      BY <1>3, <2>3
    <2> QED
      BY <1>2, <2>1, <2>2, <2>3
  <1>7. \A i \in UserRows(t) : i \in Ids /\ t[i] # None /\ ~t[i].rem /\ i # z /\ i \notin Remainders(t)
    BY <1>4 DEF UserRows, Remainders, Rows
  <1>8. \A i \in UserRows(t) : i \in Ids /\ u[i] = t[i] /\ u[i] # None /\ ~u[i].rem
    BY <1>2, <1>7
  <1>9. ASSUME NEW i \in UserRows(u)
        PROVE  i \in UserRows(t)
    <2>1. i \in Rows(u) /\ i \in Ids /\ ~u[i].rem
      BY DEF UserRows, Rows
    <2>2. i \in Rows(t)
      BY <1>2, <1>3, <1>4, <2>1 DEF Rows
    <2> QED
      BY <1>6, <2>1, <2>2 DEF UserRows
  <1>10. UserRows(u) = UserRows(t)
    BY <1>8, <1>9 DEF UserRows, Rows
  <1>11. OverSum(row, u) <=> OverSum(row, t)
    <2>1. IsFiniteSet(UserRows(t)) /\ \A i \in UserRows(t) : u[i].total = t[i].total
      BY <1>8, RowFacts, FS_Subset
    <2>2. Total(u, UserRows(t)) = Total(t, UserRows(t))
      BY <2>1, TotalOfSame
    <2> QED
      BY <1>10, <2>2 DEF OverSum, Rest
  <1> QED
    BY <1>5, <1>6, <1>10, <1>11 DEF z

\* A category for the remainder changes nothing of what is covered.
LEMMA RemainderCategory ==
  ASSUME ConstantsAssumption, NEW row \in Trans, NEW t \in Table, NEW k \in Categories \cup {None},
         Covers(row, t), \A i \in Rows(t) : Fits(row.cat, t[i].cat),
         Remainders(t) # {} => ItemCategoriesAllowed(row.cat, {k})
  PROVE  LET u == WithRemainderCategory(t, k)
         IN Covers(row, u) /\ Rows(u) = Rows(t) /\ (OverSum(row, u) <=> OverSum(row, t))
         /\ \A i \in Rows(t) : Fits(row.cat, u[i].cat)
  <1> DEFINE u == WithRemainderCategory(t, k)
  <1>1. u \in Table
    BY WithRemainderTable
  <1>2. ASSUME NEW i \in Rows(t)
        PROVE  /\ u[i] # None /\ u[i].total = t[i].total /\ u[i].rem = t[i].rem
               /\ u[i].cat = t[i].cat \/ (i \in Remainders(t) /\ u[i].cat = k /\ k # None)
    <2>1. t[i] \in Item /\ i \in Ids
      BY RowFacts
    <2>2. u[i] = IF i \in Remainders(t) /\ k # None THEN [t[i] EXCEPT !.cat = k] ELSE t[i]
      BY <2>1 DEF WithRemainderCategory
    <2>3. [t[i] EXCEPT !.cat = k] \in Item
      BY <2>1 DEF Item
    <2>4. None \notin Item
      BY DEF ConstantsAssumption
    <2> HIDE DEF u
    <2>5. CASE i \in Remainders(t) /\ k # None
      <3>1. u[i] = [t[i] EXCEPT !.cat = k]
        BY <2>2, <2>5
      <3>2. u[i] # None
        BY <2>3, <2>4, <3>1
      <3>3. u[i].total = t[i].total /\ u[i].rem = t[i].rem /\ u[i].cat = k
        BY <2>1, <3>1 DEF Item
      <3> QED
        BY <2>5, <3>2, <3>3
    <2>6. CASE ~(i \in Remainders(t) /\ k # None)
      BY <2>1, <2>2, <2>4, <2>6
    <2> QED
      BY <2>5, <2>6
  <1>3. ASSUME NEW i \in Ids, i \notin Rows(t)
        PROVE  u[i] = None
    <2>1. t[i] = None /\ i \notin Remainders(t)
      BY <1>3 DEF Rows, Remainders
    <2> QED
      BY <2>1 DEF WithRemainderCategory
  <1> HIDE DEF u
  <1>4. Rows(u) = Rows(t)
    <2>1. Rows(t) \in SUBSET Ids
      BY DEF Rows
    <2>2. \A i \in Ids : u[i] # None <=> i \in Rows(t)
      BY <1>2, <1>3
    <2> QED
      BY <2>1, <2>2 DEF Rows
  <1>5. Covers(row, u) /\ Rest(row, u) = Rest(row, t)
    BY <1>1, <1>2, <1>4, CoversSame
  <1>6. ASSUME NEW i \in Rows(t)
        PROVE  Fits(row.cat, u[i].cat)
    <2>1. CASE u[i].cat = t[i].cat
      BY <2>1
    <2>2. CASE i \in Remainders(t) /\ u[i].cat = k /\ k # None
      BY <2>2 DEF ItemCategoriesAllowed, Fits
    <2> QED
      BY <1>2, <2>1, <2>2
  <1> QED
    BY <1>4, <1>5, <1>6 DEF u, OverSum

\* The steps that read the rows and decide what to write.
LEMMA PreparesInv ==
  ASSUME ConstantsAssumption, Inv, Typed', NEW q \in Requests,
         PrepareUpdate(q) \/ PrepareReplace(q) \/ PrepareFill(q)
  PROVE  Inv' /\ Steps
  <1> DEFINE r == request[q]
             row == r.row
             op == r.op
  <1>1. /\ r.pc = "begun" /\ r.kind \in {"update", "replace", "fill"}
        /\ UNCHANGED <<trans, born, items, adj, world, ops>>
    BY DEF PrepareUpdate, PrepareReplace, PrepareFill
  <1>2. Knows(q) /\ Valid(r)
    BY <1>1 DEF Inv, UnderWay, Knows
  <1>3. /\ row \in Trans /\ r.given \in Seq(Line) /\ r.remCat \in Categories \cup {None}
        /\ items \in Table /\ op \in 1..MaxOps /\ Len(r.given) <= MaxRows
    <2>1. op \in 1..ops /\ ops \in 0..MaxOps /\ Len(r.given) <= MaxRows
      BY <1>1, Facts DEF Inv, Typed, Begun
    <2>2. op \in 1..MaxOps
      BY <2>1 DEF ConstantsAssumption
    <2> QED
      BY <1>1, <2>1, <2>2, Facts DEF Inv
  <1>4. \A i \in Rows(items) : i[1] # op
    BY <1>2 DEF Knows
  <1>5. items[<<op, 0>>] = None
    <2>1. <<op, 0>> \in Ids
      BY <1>3 DEF Ids, ConstantsAssumption
    <2>2. <<op, 0>> \notin Rows(items)
      BY <1>4
    <2> QED
      BY <2>1, <2>2 DEF Rows
  <1>6. CASE Refuse(q)
    BY <1>1, <1>6, RefuseInv
  <1>7. CASE PrepareUpdate(q) /\ ~Refuse(q)
    <2>1. ~OverSum(row, items) /\ r.kind = "update"
          /\ \E t \in Normalized(row, items, op) : Ready(q, t)
      BY <1>7 DEF PrepareUpdate
    <2>2. PICK t \in Normalized(row, items, op) : Ready(q, t)
      BY <2>1
    <2> HIDE DEF r, row, op
    <2>3. t \in Table /\ ~OverSum(row, t) /\ (One(items) => Covers(row, t))
      BY <1>3, <1>5, <2>1, NormalizedTable, NormalizedKeeps, NormalizedCovers DEF One
    <2>4. \A i \in Rows(t) : i \in Rows(items) \/ (i[1] = op /\ Fits(row.cat, t[i].cat))
      BY <1>3, <1>5, NormalizedKeeps DEF Fits
    <2>5. \A i \in Rows(items) \cap Rows(t) :
            t[i].rem = items[i].rem /\ (~items[i].rem => t[i].total = items[i].total)
      BY <1>3, <1>5, NormalizedKeeps
    <2> QED
      BY <1>1, <1>3, <2>1, <2>2, <2>3, <2>4, <2>5, ReadyInv DEF r, row, op
  <1>8. CASE PrepareReplace(q) /\ ~Refuse(q)
    <2> DEFINE fresh == WithRows(Empty, op, r.given)
               k == r.remCat
    <2>1. PICK t \in Normalized(row, fresh, op) :
            /\ ~OverSum(row, fresh) /\ r.kind = "replace" /\ Ready(q, WithRemainderCategory(t, k))
            /\ Remainders(t) # {} => ItemCategoriesAllowed(row.cat, {k})
      BY <1>8 DEF PrepareReplace
    <2>2. \A n \in DOMAIN r.given : Fits(row.cat, r.given[n].cat)
      BY <1>2, <2>1 DEF Valid
    <2> HIDE DEF r, row, op
    <2>3. /\ fresh \in Table /\ fresh[<<op, 0>>] = None /\ Remainders(fresh) = {}
          /\ \A i \in Rows(fresh) : i[1] = op
          /\ \A i \in Rows(fresh) : i[2] \in DOMAIN r.given /\ fresh[i].cat = r.given[i[2]].cat
      BY <1>3, EmptyTable, GivenRows
    <2> HIDE DEF fresh, k
    <2>4. t \in Table /\ Covers(row, t) /\ ~OverSum(row, t)
      BY <1>3, <2>1, <2>3, NormalizedTable, NormalizedKeeps, NormalizedCovers
    <2>5. \A i \in Rows(t) : i[1] = op /\ Fits(row.cat, t[i].cat)
      <3> SUFFICES ASSUME NEW i \in Rows(t)
                   PROVE  i[1] = op /\ Fits(row.cat, t[i].cat)
        OBVIOUS
      <3>1. CASE i \in Rows(fresh)
        <4>1. t[i].cat = fresh[i].cat
          BY <1>3, <2>3, <3>1, NormalizedKeeps
        <4> QED
          BY <2>2, <2>3, <3>1, <4>1
      <3>2. CASE i \notin Rows(fresh)
        <4>1. i = <<op, 0>> /\ t[i].cat = None
          BY <1>3, <2>3, <3>2, NormalizedKeeps
        <4> QED
          BY <4>1 DEF Fits
      <3> QED
        BY <3>1, <3>2
    <2> DEFINE u == WithRemainderCategory(t, k)
    <2>6. k \in Categories \cup {None}
      BY <1>3 DEF k
    <2>7. u \in Table
      BY <2>4, <2>6, WithRemainderTable
    <2>8. /\ Covers(row, u) /\ Rows(u) = Rows(t) /\ ~OverSum(row, u)
          /\ \A i \in Rows(t) : Fits(row.cat, u[i].cat)
      BY <1>3, <2>1, <2>4, <2>5, <2>6, RemainderCategory
    <2>9. Ready(q, u)
      BY <2>1
    <2> HIDE DEF u
    <2>10. \A i \in Rows(u) : i[1] = op /\ Fits(row.cat, u[i].cat)
      BY <2>5, <2>8
    <2>11. Rows(items) \cap Rows(u) = {}
      BY <1>4, <2>10
    <2> QED
      BY <1>1, <1>3, <2>1, <2>7, <2>8, <2>9, <2>10, <2>11, ReadyInv DEF r, row, op
  <1>9. CASE PrepareFill(q) /\ ~Refuse(q)
    <2> DEFINE kept == [i \in Ids |-> IF i \in Remainders(items) THEN None ELSE items[i]]
               filled == WithRows(kept, op, r.given)
    <2>1. PICK t \in Normalized(row, filled, op) : Ready(q, t) /\ r.kind = "fill"
            /\ FillWanted(items, r.given)
      BY <1>9 DEF PrepareFill
    <2>2. \A n \in DOMAIN r.given : r.given[n].cat = None
      BY <1>2, <2>1 DEF Valid
    <2>3. kept \in Table
      BY <1>3, KeptTable
    <2>4. UserRows(items) = {}
      BY <2>1 DEF FillWanted
    <2>5. Rows(kept) = {} /\ Remainders(kept) = {}
      <3>1. \A i \in Ids : kept[i] = None
        BY <2>4 DEF UserRows, Remainders, Rows
      <3> QED
        BY <3>1 DEF Rows, Remainders
    <2> HIDE DEF r, row, op, kept
    <2>6. /\ filled \in Table /\ filled[<<op, 0>>] = None /\ Remainders(filled) = {}
          /\ \A i \in Rows(filled) : i[1] = op
          /\ \A i \in Rows(filled) : i[2] \in DOMAIN r.given /\ filled[i].cat = r.given[i[2]].cat
      BY <1>3, <2>3, <2>5, GivenRows
    <2> HIDE DEF filled
    <2>7. t \in Table /\ Covers(row, t)
      BY <1>3, <2>1, <2>6, NormalizedTable, NormalizedCovers
    <2>8. \A i \in Rows(t) : i[1] = op /\ t[i].cat = None
      <3> SUFFICES ASSUME NEW i \in Rows(t)
                   PROVE  i[1] = op /\ t[i].cat = None
        OBVIOUS
      <3>1. CASE i \in Rows(filled)
        <4>1. t[i].cat = filled[i].cat
          BY <1>3, <2>6, <3>1, NormalizedKeeps
        <4> QED
          BY <2>2, <2>6, <3>1, <4>1
      <3>2. CASE i \notin Rows(filled)
        <4>1. i = <<op, 0>> /\ t[i].cat = None
          BY <1>3, <2>6, <3>2, NormalizedKeeps
        <4> QED
          BY <4>1
      <3> QED
        BY <3>1, <3>2
    <2>9. Rows(items) \cap Rows(t) = {}
      BY <1>4, <2>8
    <2> QED
      BY <1>1, <1>3, <2>1, <2>4, <2>7, <2>8, <2>9, ReadyInv DEF r, row, op, Fits
  <1> QED
    BY <1>1, <1>6, <1>7, <1>8, <1>9

-----------------------------------------------------------------------------
(* What the requests write.                                                *)

\* The others under way take notice of what is written.
LEMMA Noticed ==
  ASSUME ConstantsAssumption, Inv, NEW p \in Requests \cup {None}, Overtake(p)
  PROVE  \A q \in Requests : q # p /\ request[q].pc # "idle" => Notices(q)
  <1> SUFFICES ASSUME NEW q \in Requests, q # p, request[q].pc # "idle"
               PROVE  Notices(q)
    OBVIOUS
  <1>1. overtaken'[q] = overtaken[q] \cup Written
    BY DEF Overtake
  <1>2. "row" \in Written \/ UNCHANGED <<trans, adj>>
    BY DEF Written
  <1>3. "items" \in Written \/ UNCHANGED items
    BY DEF Written
  <1> QED
    BY <1>1, <1>2, <1>3, Unwritten DEF Notices

\* The rows after a commit: those there were, in their categories, and new ones.
LEMMA MergedRows ==
  ASSUME ConstantsAssumption, items \in Table, NEW r, r.before \in Table, r.after \in Table,
         Planned(r), NEW i \in Rows(Merged(r))
  PROVE  \/ i \in Rows(items) /\ Merged(r)[i].cat = items[i].cat
         \/ i \in Rows(r.after) \ Rows(r.before) /\ Merged(r)[i] = r.after[i] /\ i[1] = r.op
              /\ Fits(r.row.cat, r.after[i].cat)
  <1>1. i \in Ids /\ Merged(r)[i] # None
    BY DEF Rows
  <1>2. CASE i \in Rows(r.before) \cap Rows(r.after)
    <2>1. CASE i \in Remainders(items)
      <3>1. items[i] \in Item /\ i \in Rows(items)
        BY <2>1, RowFacts
      <3>2. Merged(r)[i] = [items[i] EXCEPT !.total = r.after[i].total]
        BY <1>2, <2>1, MergedTable
      <3> QED
        BY <3>1, <3>2 DEF Item
    <2>2. CASE i \notin Remainders(items)
      <3>1. Merged(r)[i] = items[i]
        BY <1>2, <2>2, MergedTable
      <3> QED
        BY <1>1, <3>1 DEF Rows
    <2> QED
      BY <2>1, <2>2
  <1>3. CASE i \in Rows(r.after) \ Rows(r.before)
    <2>1. Merged(r)[i] = r.after[i]
      BY <1>3, MergedTable
    <2> QED
      BY <1>3, <2>1 DEF Planned
  <1>4. CASE i \in Rows(r.before) \ Rows(r.after)
    <2>1. Merged(r)[i] = r.after[i]
      BY <1>4, MergedTable
    <2> QED
      BY <1>1, <1>4, <2>1 DEF Rows
  <1>5. CASE i \notin Rows(r.before) \cup Rows(r.after)
    <2>1. Merged(r)[i] = items[i]
      BY <1>1, <1>5, MergedTable
    <2> QED
      BY <1>1, <2>1 DEF Rows
  <1> QED
    BY <1>2, <1>3, <1>4, <1>5

\* A request that was not overtaken writes what it planned, categories aside.
LEMMA MergedSame ==
  ASSUME ConstantsAssumption, items \in Table, NEW r, r.before \in Table, r.after \in Table,
         Planned(r), Same(r.before, items)
  PROVE  Same(r.after, Merged(r))
  <1> DEFINE u == Merged(r)
  <1>1. None \notin Item
    BY DEF ConstantsAssumption
  <1>2. ASSUME NEW i \in Rows(r.after)
        PROVE  u[i] # None /\ u[i].total = r.after[i].total /\ u[i].rem = r.after[i].rem
    <2>1. CASE i \in Rows(r.before)
      <3>1. /\ i \in Rows(items) /\ items[i].rem = r.before[i].rem
            /\ items[i].total = r.before[i].total
        BY <2>1 DEF Same
      <3>2. items[i] \in Item /\ items[i] # None /\ r.after[i].total \in Int
        BY <3>1, RowFacts DEF Rows
      <3>3. /\ r.after[i].rem = r.before[i].rem
            /\ ~r.before[i].rem => r.after[i].total = r.before[i].total
        BY <2>1 DEF Planned
      <3>4. CASE i \in Remainders(items)
        <4>1. u[i] = [items[i] EXCEPT !.total = r.after[i].total]
          BY <2>1, <3>4, MergedTable
        <4>2. [items[i] EXCEPT !.total = r.after[i].total] \in Item
          BY <3>2 DEF Item
        <4>3. u[i] # None
          BY <1>1, <4>1, <4>2
        <4> HIDE DEF u
        <4> QED
          BY <3>1, <3>2, <3>3, <4>1, <4>3 DEF Item
      <3>5. CASE i \notin Remainders(items)
        <4>1. u[i] = items[i] /\ ~items[i].rem
          BY <2>1, <3>1, <3>5, MergedTable DEF Remainders
        <4> QED
          BY <3>1, <3>2, <3>3, <4>1
      <3> QED
        BY <3>4, <3>5
    <2>2. CASE i \notin Rows(r.before)
      <3>1. u[i] = r.after[i]
        BY <2>2, MergedTable
      <3> QED
        BY <3>1 DEF Rows
    <2> QED
      BY <2>1, <2>2
  <1>3. ASSUME NEW i \in Ids, i \notin Rows(r.after)
        PROVE  u[i] = None
    <2>1. CASE i \in Rows(r.before)
      <3>1. u[i] = r.after[i]
        BY <1>3, <2>1, MergedTable
      <3> QED
        BY <1>3, <3>1 DEF Rows
    <2>2. CASE i \notin Rows(r.before)
      <3>1. u[i] = items[i] /\ i \notin Rows(items)
        BY <1>3, <2>2, MergedTable DEF Same
      <3> QED
        BY <3>1 DEF Rows
    <2> QED
      BY <2>1, <2>2
  <1> HIDE DEF u
  <1>4. Rows(u) = Rows(r.after)
    <2>1. Rows(r.after) \in SUBSET Ids
      BY DEF Rows
    <2>2. \A i \in Ids : u[i] # None <=> i \in Rows(r.after)
      BY <1>2, <1>3
    <2> QED
      BY <2>1, <2>2 DEF Rows
  <1> QED
    BY <1>2, <1>4 DEF Same, u

\* What is covered by a table is covered by one that is the same.
LEMMA SameCovers ==
  ASSUME ConstantsAssumption, NEW t \in Table, NEW u \in Table, Same(t, u), NEW row
  PROVE  /\ Remainders(t) = Remainders(u) /\ UserRows(t) = UserRows(u)
         /\ Rest(row, t) = Rest(row, u) /\ (Covers(row, t) => Covers(row, u))
  BY CoversSame DEF Same

\* The step of an update that is not refused.
LEMMA UpdateInv ==
  ASSUME ConstantsAssumption, Inv, Typed', NEW q \in Requests, CommitUpdate(q),
         trans' = request[q].row, items' = Merged(request[q]),
         adj' = IF request[q].facet # None
                THEN Upserted(request[q].row, request[q].facet, request[q].linked, request[q].op)
                ELSE IF request[q].linked # None /\ adj # None /\ adj.op = request[q].linked.op
                THEN None ELSE adj
  PROVE  Inv' /\ Steps
  <1> DEFINE r == request[q]
             row == r.row
  <1>1. r.pc = "ready" /\ r.kind = "update" /\ Finish(q) /\ UNCHANGED <<born, world, ops>>
    BY DEF CommitUpdate
  <1>2. Knows(q) /\ Valid(r) /\ Planned(r)
    BY <1>1 DEF Inv, UnderWay, Knows, Valid
  <1>3. /\ items \in Table /\ r.before \in Table /\ r.after \in Table
        /\ r.facet \in Accounts \cup {None} /\ None \notin Trans /\ None \notin Accounts
        /\ r.linked \in Adjustment \cup {None} /\ row \in Trans /\ adj \in Adjustment \cup {None}
    BY <1>1, Facts DEF Inv
  <1>4. request'[q].pc = "idle" /\ \A p \in Requests : p # q => request'[p] = request[p]
    BY <1>1, Ended DEF Inv
  <1>5. /\ SameCurrencies(row) /\ ~OverSum(row, r.after) /\ row # None
        /\ r.facet # None => row.orig # 0 /\ CurrencyOf[r.facet] = row.origCur
    BY <1>1, <1>2, <1>3 DEF Valid, Planned
  <1>6. Inv'
    <2>1. \A p \in Requests : p # q /\ request[p].pc # "idle" => Notices(p)
      BY <1>1, Noticed DEF Finish
    <2>2. \A i \in Rows(items') : i \in Rows(items) \/ i[1] = r.op
      BY <1>2, <1>3, MergedRows
    <2>3. BornFirst'
      BY <1>1 DEF Inv, BornFirst
    <2> QED
      BY <1>1, <1>4, <2>1, <2>2, <2>3, InvKept
  <1>7. Merged(r) \in Table
    BY <1>3, MergedTable
  <1>8. ASSUME overtaken[q] \cap {"row", "items"} = {}
        PROVE  (Covered => Covered') /\ ~Overfull'
    <2>1. KnowsRow(r) /\ KnowsItems(r)
      BY <1>2, <1>8 DEF Knows
    <2>2. trans # None /\ Same(r.before, items)
      BY <1>1, <2>1 DEF KnowsRow, KnowsItems
    <2>3. Same(r.after, Merged(r))
      BY <1>2, <1>3, <2>2, MergedSame
    <2>4. Rest(row, r.after) = Rest(row, Merged(r))
          /\ (Covers(row, r.after) => Covers(row, Merged(r)))
      BY <1>3, <1>7, <2>3, SameCovers
    <2>5. ~Overfull'
      BY <1>5, <2>4 DEF Overfull, OverSum
    <2>6. ASSUME Covered
          PROVE  Covers(row, Merged(r))
      <3>1. One(items)
        BY <2>2, <2>6 DEF Covered, One
      <3>2. Remainders(r.before) = Remainders(items)
        BY <1>3, <2>2, SameCovers
      <3>3. One(r.before)
        BY <3>1, <3>2 DEF One
      <3> QED
        BY <1>2, <2>4, <3>3 DEF Planned
    <2>7. Covered => Covered'
      BY <1>5, <2>6 DEF Covers, Covered
    <2> QED
      BY <2>5, <2>7
  <1>9. ASSUME "items" \notin overtaken[q]
        PROVE  ItemCategoriesAgree'
    <2>1. Agree(row, items)
      BY <1>1, <1>2, <1>9 DEF Knows, KnowsItems
    <2> SUFFICES ASSUME row.cat # None, NEW i \in Rows(Merged(r)), Merged(r)[i].cat # None
                 PROVE  BudgetOf[Merged(r)[i].cat] = BudgetOf[row.cat]
      BY DEF ItemCategoriesAgree
    <2>2. \/ i \in Rows(items) /\ Merged(r)[i].cat = items[i].cat
          \/ Fits(row.cat, Merged(r)[i].cat)
      BY <1>2, <1>3, MergedRows
    <2> QED
      BY <2>1, <2>2 DEF Agree, Fits
  <1>10. CurrenciesAgree'
    BY <1>5 DEF SameCurrencies, CurrenciesAgree
  <1>11. ASSUME "row" \notin overtaken[q]
         PROVE  AdjustmentMirrors'
    <2>1. r.linked = adj
      BY <1>1, <1>2, <1>11 DEF Knows, KnowsRow
    <2>2. CASE r.facet # None
      <3> DEFINE up == Upserted(row, r.facet, r.linked, r.op)
      <3>1. adj' = up /\ up.account = r.facet /\ up.amount = Signed(row)
        BY <2>2 DEF Upserted
      <3> HIDE DEF up
      <3> QED
        BY <1>5, <2>2, <3>1 DEF AdjustmentMirrors, Signed
    <2>3. CASE r.facet = None
      <3>1. adj' = None
        BY <2>1, <2>3
      <3> QED
        BY <3>1 DEF AdjustmentMirrors
    <2> QED
      BY <2>2, <2>3
  <1>12. CoverStep /\ FullStep
    BY <1>1, <1>4, <1>8 DEF CoverStep, FullStep, Stale
  <1>13. CategoryStep
    BY <1>1, <1>4, <1>9 DEF CategoryStep, Stale
  <1>14. CurrencyStep
    BY <1>10 DEF CurrencyStep
  <1>15. MirrorStep
    BY <1>1, <1>4, <1>11 DEF MirrorStep, Stale
  <1> QED
    BY <1>6, <1>12, <1>13, <1>14, <1>15 DEF Steps

\* The step of a replacement or of a fill that is not refused.
LEMMA ItemsInv ==
  ASSUME ConstantsAssumption, Inv, Typed', NEW q \in Requests, CommitItems(q),
         items' = Merged(request[q])
  PROVE  Inv' /\ Steps
  <1> DEFINE r == request[q]
             row == r.row
  <1>1. r.pc = "ready" /\ r.kind \in {"replace", "fill"} /\ Finish(q)
        /\ UNCHANGED <<trans, born, adj, world, ops>>
    BY DEF CommitItems
  <1>2. Knows(q) /\ Valid(r) /\ Planned(r)
    BY <1>1 DEF Inv, UnderWay, Knows, Valid
  <1>3. /\ items \in Table /\ r.before \in Table /\ r.after \in Table /\ row \in Trans
    BY <1>1, Facts DEF Inv
  <1>4. request'[q].pc = "idle" /\ \A p \in Requests : p # q => request'[p] = request[p]
    BY <1>1, Ended DEF Inv
  <1>5. Inv'
    <2>1. \A p \in Requests : p # q /\ request[p].pc # "idle" => Notices(p)
      BY <1>1, Noticed DEF Finish
    <2>2. \A i \in Rows(items') : i \in Rows(items) \/ i[1] = r.op
      BY <1>2, <1>3, MergedRows
    <2>3. BornFirst'
      BY <1>1 DEF Inv, BornFirst
    <2> QED
      BY <1>1, <1>4, <2>1, <2>2, <2>3, InvKept
  <1>6. Merged(r) \in Table
    BY <1>3, MergedTable
  <1>7. ASSUME overtaken[q] \cap {"row", "items"} = {}
        PROVE  (Covered => Covered') /\ (Overfull' => r.kind = "fill" /\ UserRows(items) = {})
    <2>1. KnowsRow(r) /\ KnowsItems(r)
      BY <1>2, <1>7 DEF Knows
    <2>2. /\ trans # None /\ Same(r.before, items)
          /\ row.type = trans.type /\ row.amount = trans.amount
      BY <1>1, <2>1 DEF KnowsRow, KnowsItems
    <2>3. Same(r.after, Merged(r))
      BY <1>2, <1>3, <2>2, MergedSame
    <2>4. Rest(row, r.after) = Rest(row, Merged(r))
          /\ (Covers(row, r.after) => Covers(row, Merged(r)))
      BY <1>3, <1>6, <2>3, SameCovers
    <2>5. Remainders(r.before) = Remainders(items) /\ UserRows(r.before) = UserRows(items)
      BY <1>3, <2>2, SameCovers
    <2>6. Rest(trans, Merged(r)) = Rest(row, Merged(r))
      BY <2>2 DEF Rest
    <2>7. Overfull' => r.kind = "fill" /\ UserRows(items) = {}
      <3>1. CASE r.kind = "fill"
        BY <1>2, <2>5, <3>1 DEF Planned
      <3>2. CASE r.kind # "fill"
        <4>1. ~OverSum(row, r.after)
          BY <1>2, <3>2 DEF Planned
        <4>2. Overfull' <=> trans.type # "adjustment" /\ Rest(trans, Merged(r)) < 0
          BY <1>1, <2>2 DEF Overfull
        <4> QED
          BY <2>2, <2>4, <2>6, <4>1, <4>2 DEF OverSum
      <3> QED
        BY <3>1, <3>2
    <2>8. ASSUME Covered
          PROVE  Covers(row, Merged(r))
      <3>1. One(items)
        BY <2>2, <2>8 DEF Covered, One
      <3>2. One(r.before)
        BY <2>5, <3>1 DEF One
      <3> QED
        BY <1>2, <2>4, <3>2 DEF Planned
    <2>9. Covered => Covered'
      <3> HIDE DEF r, row
      <3>1. ASSUME Covered
            PROVE  Covers(trans, items')
        BY <2>2, <2>8, <3>1 DEF Covers, r
      <3> QED
        BY <1>1, <2>2, <3>1 DEF Covers, Covered
    <2> QED
      BY <2>7, <2>9
  <1>8. ASSUME ItemCategoriesAgree, r.kind = "fill" \/ "row" \notin overtaken[q]
        PROVE  ItemCategoriesAgree'
    <2> SUFFICES ASSUME trans # None, trans.cat # None, NEW i \in Rows(Merged(r)),
                        Merged(r)[i].cat # None
                 PROVE  BudgetOf[Merged(r)[i].cat] = BudgetOf[trans.cat]
      BY <1>1 DEF ItemCategoriesAgree
    <2>1. CASE i \in Rows(items) /\ Merged(r)[i].cat = items[i].cat
      BY <1>8, <2>1 DEF ItemCategoriesAgree
    <2>2. CASE i \in Rows(r.after) \ Rows(r.before) /\ Merged(r)[i] = r.after[i]
                 /\ Fits(row.cat, r.after[i].cat)
      <3>1. r.kind # "fill"
        BY <1>2, <2>2 DEF Valid
      <3>2. row.cat # None /\ BudgetOf[row.cat] = BudgetOf[trans.cat]
        BY <1>1, <1>2, <1>8, <3>1 DEF Knows, KnowsRow
      <3> QED
        BY <2>2, <3>2 DEF Fits
    <2> QED
      BY <1>2, <1>3, <2>1, <2>2, MergedRows
  <1>9. CoverStep /\ FullStep
    BY <1>1, <1>4, <1>7 DEF CoverStep, FullStep, Stale
  <1>10. CategoryStep
    BY <1>1, <1>4, <1>8 DEF CategoryStep, Stale
  <1>11. CurrencyStep /\ MirrorStep
    BY <1>1 DEF CurrencyStep, MirrorStep, CurrenciesAgree, AdjustmentMirrors
  <1> QED
    BY <1>5, <1>9, <1>10, <1>11 DEF Steps

\* The step of a move.
LEMMA MoveInv ==
  ASSUME ConstantsAssumption, Inv, Typed', NEW q \in Requests, CommitMove(q), trans # None
  PROVE  Inv' /\ Steps
  <1> DEFINE r == request[q]
  <1>1. /\ r.pc = "ready" /\ r.kind = "move" /\ Refuse(q) /\ UNCHANGED <<born, items, adj, world, ops>>
        /\ trans' = [trans EXCEPT !.account = r.facet]
    BY DEF CommitMove
  <1>2. Knows(q) /\ r.facet # None
    BY <1>1 DEF Inv, UnderWay, Knows, Valid
  <1>3. trans \in Trans /\ r.facet \in Accounts \cup {None} /\ None \notin Trans
    BY Facts DEF Inv
  <1>4. request'[q].pc = "idle" /\ \A p \in Requests : p # q => request'[p] = request[p]
    BY <1>1, Ended DEF Inv
  <1>5. \A p \in Requests : p # q => overtaken'[p] = overtaken[p]
    BY <1>1, Facts DEF Inv, Refuse
  <1>6. /\ trans' # None /\ trans'.account = r.facet /\ trans'.cur = trans.cur
        /\ trans'.cat = trans.cat /\ trans'.type = trans.type /\ trans'.amount = trans.amount
        /\ trans'.orig = trans.orig /\ trans'.origCur = trans.origCur
    <2> HIDE DEF r
    <2>1. trans' \in Trans
      BY <1>1, <1>3 DEF Trans
    <2> QED
      BY <1>1, <1>3, <2>1 DEF Trans
  <1>7. RowKept /\ ItemsKept
    BY <1>1, <1>6, Unwritten DEF RowKept
  <1>8. Inv'
    <2>1. \A p \in Requests : p # q /\ request[p].pc # "idle" => Notices(p)
      BY <1>5, <1>7 DEF Notices
    <2>2. BornFirst'
      BY <1>1 DEF Inv, BornFirst
    <2> QED
      BY <1>1, <1>4, <2>1, <2>2, InvKept
  <1>9. ASSUME "row" \notin overtaken[q], CurrenciesAgree
        PROVE  CurrenciesAgree'
    <2>1. CurrencyOf[r.facet] = trans.cur
      BY <1>1, <1>2, <1>9 DEF Knows, KnowsRow
    <2> QED
      BY <1>6, <1>9, <2>1 DEF CurrenciesAgree
  <1>10. CurrencyStep
    BY <1>1, <1>4, <1>9 DEF CurrencyStep, Stale
  <1>11. Rest(trans, items)' = Rest(trans, items)
    BY <1>1, <1>6 DEF Rest
  <1>12. (Covered => Covered') /\ (Overfull' => Overfull)
         /\ (ItemCategoriesAgree => ItemCategoriesAgree')
         /\ (AdjustmentMirrors => AdjustmentMirrors')
    BY <1>1, <1>6, <1>11
       DEF Covered, Overfull, ItemCategoriesAgree, AdjustmentMirrors
  <1> QED
    BY <1>8, <1>10, <1>12 DEF Steps, CoverStep, FullStep, CategoryStep, MirrorStep

\* The steps that commit.
LEMMA CommitsInv ==
  ASSUME ConstantsAssumption, Inv, Typed', NEW q \in Requests,
         CommitUpdate(q) \/ CommitItems(q) \/ CommitMove(q)
  PROVE  Inv' /\ Steps
  <1>1. request[q].pc = "ready" /\ (Refuse(q) \/ Finish(q)) /\ UNCHANGED <<born, world, ops>>
    BY DEF CommitUpdate, CommitItems, CommitMove
  <1>2. CASE UNCHANGED <<trans, items, adj>>
    BY <1>1, <1>2, RefuseInv
  <1>3. CASE CommitUpdate(q) /\ ~UNCHANGED <<trans, items, adj>>
    <2>1. /\ trans' = request[q].row /\ items' = Merged(request[q])
          /\ adj' = IF request[q].facet # None
                    THEN Upserted(request[q].row, request[q].facet, request[q].linked, request[q].op)
                    ELSE IF request[q].linked # None /\ adj # None /\ adj.op = request[q].linked.op
                    THEN None ELSE adj
      BY <1>3 DEF CommitUpdate
    <2> QED
      BY <1>3, <2>1, UpdateInv
  <1>4. CASE CommitItems(q) /\ ~UNCHANGED <<trans, items, adj>>
    <2>1. items' = Merged(request[q])
      BY <1>4 DEF CommitItems
    <2> QED
      BY <1>4, <2>1, ItemsInv
  <1>5. CASE CommitMove(q) /\ ~UNCHANGED <<trans, items, adj>>
    <2>1. trans # None
      BY <1>5 DEF CommitMove
    <2> QED
      BY <1>5, <2>1, MoveInv
  <1> QED
    BY <1>2, <1>3, <1>4, <1>5

-----------------------------------------------------------------------------
(* The steps that are served at once.                                      *)

\* A new transaction: nothing else is under way.
LEMMA CreateInv ==
  ASSUME ConstantsAssumption, Inv, Typed', NEW f \in Forms, NEW list \in Lists, Create(f, list)
  PROVE  Inv' /\ Steps
  <1> DEFINE row == RowOf(f)
             op == ops + 1
             t == WithRows(Empty, op, list)
  <1>1. /\ row \in Trans /\ SameCurrencies(row) /\ row.cat = f.cat /\ row.orig = f.orig
        /\ row.origCur = f.origCur
        /\ f.origAccount # None => f.orig # 0 /\ CurrencyOf[f.origAccount] = f.origCur
    BY RowOfForm DEF Create
  <1>2. list \in Seq(Line) /\ Len(list) <= MaxRows /\ None \notin Trans
    BY DEF ConstantsAssumption
  <1>3. ops' = op /\ op \in 1..MaxOps /\ UNCHANGED request /\ born'
    BY Facts DEF Create, Op, Inv, ConstantsAssumption
  <1>4. /\ ~OverSum(row, t) /\ items' \in Normalized(row, t, op) /\ trans' = row
        /\ adj' = IF f.origAccount = None THEN None ELSE Upserted(row, f.origAccount, None, op)
        /\ ItemCategoriesAllowed(f.cat, ListCategories(list))
    BY <1>3 DEF Create
  <1>5. \A q \in Requests : request[q].pc = "idle"
    BY DEF Create, Inv, BornFirst
  <1> HIDE DEF row, op
  <1>6. /\ t \in Table /\ t[<<op, 0>>] = None /\ Remainders(t) = {} /\ \A i \in Rows(t) : i[1] = op
        /\ \A i \in Rows(t) : i[2] \in DOMAIN list /\ t[i].cat = list[i[2]].cat
    BY <1>2, <1>3, EmptyTable, GivenRows
  <1> HIDE DEF t
  <1>7. /\ Covers(row, items') /\ ~OverSum(row, items')
        /\ \A i \in Rows(items') : i \in Rows(t) \/ (i = <<op, 0>> /\ items'[i].cat = None)
        /\ \A i \in Rows(t) \cap Rows(items') : items'[i].cat = t[i].cat
    BY <1>1, <1>3, <1>4, <1>6, NormalizedKeeps, NormalizedCovers
  <1>8. Covered'
    BY <1>1, <1>2, <1>4, <1>7 DEF Covered, Covers
  <1>9. ~Overfull'
    BY <1>4, <1>7 DEF Overfull, OverSum
  <1>10. ItemCategoriesAgree'
    <2> SUFFICES ASSUME row.cat # None, NEW i \in Rows(items'), items'[i].cat # None
                 PROVE  BudgetOf[items'[i].cat] = BudgetOf[row.cat]
      BY <1>4 DEF ItemCategoriesAgree
    <2>1. i \in Rows(t) /\ items'[i].cat = t[i].cat
      BY <1>7
    <2>2. t[i].cat \in ListCategories(list)
      BY <1>6, <2>1 DEF ListCategories
    <2> QED
      BY <1>1, <1>4, <2>1, <2>2 DEF ItemCategoriesAllowed
  <1>11. CurrenciesAgree'
    BY <1>1, <1>4 DEF SameCurrencies, CurrenciesAgree
  <1>12. AdjustmentMirrors'
    <2>1. CASE f.origAccount # None
      <3> DEFINE up == Upserted(row, f.origAccount, None, op)
      <3>1. adj' = up /\ up.account = f.origAccount /\ up.amount = Signed(row)
        BY <1>4, <2>1 DEF Upserted
      <3> HIDE DEF up
      <3> QED
        BY <1>1, <1>2, <1>4, <2>1, <3>1 DEF AdjustmentMirrors, Signed
    <2>2. CASE f.origAccount = None
      BY <1>4, <2>2 DEF AdjustmentMirrors
    <2> QED
      BY <2>1, <2>2
  <1>13. Inv'
    <2>1. \A i \in Rows(items') : i[1] = op
      BY <1>6, <1>7
    <2>2. (\A i \in Rows(items) : i[1] <= ops)'
      BY <1>3, <2>1
    <2>3. UnderWay'
      BY <1>3, <1>5 DEF UnderWay
    <2>4. BornFirst'
      BY <1>3 DEF BornFirst
    <2> QED
      BY <2>2, <2>3, <2>4 DEF Inv
  <1> QED
    BY <1>8, <1>9, <1>10, <1>11, <1>12, <1>13
       DEF Steps, CoverStep, FullStep, CategoryStep, CurrencyStep, MirrorStep

\* Nothing is left of a transaction that is deleted.
LEMMA DeleteInv ==
  ASSUME ConstantsAssumption, Inv, Typed', Delete
  PROVE  Inv' /\ Steps
  <1>1. /\ Op /\ UNCHANGED <<born, request>> /\ trans' = None /\ items' = Empty /\ adj' = None
        /\ Overtake(None) /\ trans # None
    BY DEF Delete
  <1>2. Rows(items') = {}
    BY <1>1, EmptyTable
  <1>3. Covered' /\ ~Overfull' /\ ItemCategoriesAgree' /\ CurrenciesAgree' /\ AdjustmentMirrors'
    BY <1>1, <1>2 DEF Covered, Overfull, ItemCategoriesAgree, CurrenciesAgree, AdjustmentMirrors
  <1>4. \A q \in Requests : q # None /\ request[q].pc # "idle" => Notices(q)
    BY <1>1, Noticed
  <1>5. BornFirst'
    BY <1>1 DEF Inv, BornFirst
  <1>6. Inv'
    BY <1>1, <1>2, <1>4, <1>5, Facts, InvKept DEF Op, Inv
  <1> QED
    BY <1>3, <1>6 DEF Steps, CoverStep, FullStep, CategoryStep, CurrencyStep, MirrorStep

\* A category that goes leaves its rows to one of the same budget, or to none.
LEMMA RecategorizedInv ==
  ASSUME ConstantsAssumption, Inv, Typed', Op, NEW k \in Categories,
         NEW l \in Categories \cup {None},
         l # None => BudgetOf[k] = BudgetOf[l], Recategorized(k, l)
  PROVE  Inv' /\ Steps
  <1>1. /\ UNCHANGED <<born, adj, request, overtaken>>
        /\ trans' = IF trans # None /\ trans.cat = k THEN [trans EXCEPT !.cat = l] ELSE trans
        /\ items' = [i \in Ids |-> IF i \in Rows(items) /\ items[i].cat = k
                                   THEN [items[i] EXCEPT !.cat = l] ELSE items[i]]
    BY DEF Recategorized
  <1>2. /\ trans \in Trans \cup {None} /\ trans' \in Trans \cup {None} /\ items \in Table
        /\ items' \in Table
        /\ None \notin Categories /\ None \notin Trans /\ None \notin Item
    BY Facts DEF Inv, Typed, TypeOK, Table, ConstantsAssumption
  <1>3. ASSUME NEW i \in Rows(items)
        PROVE  /\ items'[i] # None /\ items'[i].total = items[i].total
               /\ items'[i].rem = items[i].rem
               /\ items'[i].cat # None =>
                    items[i].cat # None /\ BudgetOf[items'[i].cat] = BudgetOf[items[i].cat]
    <2>1. items[i] \in Item /\ i \in Ids
      BY <1>2, RowFacts
    <2>2. items'[i] = IF items[i].cat = k THEN [items[i] EXCEPT !.cat = l] ELSE items[i]
      BY <1>1, <2>1
    <2>3. items'[i] \in Item /\ items'[i] # None
      BY <1>2, <2>1, <2>2 DEF Item
    <2>4. CASE items[i].cat = k
      BY <1>2, <2>1, <2>2, <2>3, <2>4 DEF Item
    <2>5. CASE items[i].cat # k
      BY <2>2, <2>3, <2>5
    <2> QED
      BY <2>4, <2>5
  <1>4. Rows(items') = Rows(items)
    <2>1. \A i \in Ids : i \notin Rows(items) => items'[i] = None
      BY <1>1 DEF Rows
    <2> QED
      BY <1>3, <2>1 DEF Rows
  <1>5. trans = None => trans' = None
    BY <1>1
  <1>6. trans # None =>
          /\ trans' # None /\ trans'.type = trans.type /\ trans'.amount = trans.amount
          /\ trans'.account = trans.account /\ trans'.cur = trans.cur
          /\ trans'.orig = trans.orig /\ trans'.origCur = trans.origCur
          /\ trans'.cat # None => trans.cat # None /\ BudgetOf[trans'.cat] = BudgetOf[trans.cat]
    <2> SUFFICES ASSUME trans # None
                 PROVE  /\ trans' # None /\ trans'.type = trans.type /\ trans'.amount = trans.amount
                        /\ trans'.account = trans.account /\ trans'.cur = trans.cur
                        /\ trans'.orig = trans.orig /\ trans'.origCur = trans.origCur
                        /\ trans'.cat # None =>
                             trans.cat # None /\ BudgetOf[trans'.cat] = BudgetOf[trans.cat]
      OBVIOUS
    <2>1. CASE trans.cat = k
      <3>1. trans' = [trans EXCEPT !.cat = l] /\ trans \in Trans
        BY <1>1, <1>2, <2>1
      <3>2. trans' \in Trans
        BY <3>1 DEF Trans
      <3> QED
        BY <1>2, <2>1, <3>1, <3>2 DEF Trans
    <2>2. CASE trans.cat # k
      BY <1>1, <2>2
    <2> QED
      BY <2>1, <2>2
  <1>7. RowKept
    BY <1>1, <1>6 DEF RowKept
  <1>8. Same(items, items') /\ ItemsKept
    BY <1>3, <1>4 DEF Same, ItemsKept
  <1>9. Inv'
    <2>1. \A q \in Requests : Notices(q)
      BY <1>1, <1>7, <1>8 DEF Notices
    <2>2. BornFirst'
      BY <1>1, <1>5 DEF Inv, BornFirst
    <2> QED
      BY <1>1, <1>4, <2>1, <2>2, Facts, InvKept DEF Op, Inv
  <1>10. (Covered => Covered') /\ (Overfull' => Overfull)
    <2>1. CASE trans = None
      BY <1>4, <1>5, <2>1 DEF Covered, Overfull
    <2>2. CASE trans # None
      <3> DEFINE u == items'
                 row == trans'
      <3>1. u \in Table /\ Same(items, u) /\ Remainders(items) = Remainders(u)
            /\ Rest(trans, items) = Rest(trans, u) /\ (Covers(trans, items) => Covers(trans, u))
        BY <1>2, <1>8, SameCovers
      <3>2. row # None /\ row.type = trans.type /\ row.amount = trans.amount
        BY <1>6, <2>2 DEF row
      <3> HIDE DEF u, row
      <3>3. Rest(row, u) = Rest(trans, items) /\ (Covers(trans, items) => Covers(row, u))
        BY <3>1, <3>2 DEF Covers, Rest
      <3>4. Covered => Covers(trans, items)
        BY <2>2 DEF Covered, Covers
      <3>5. Covers(row, u) => Covered'
        BY <3>2 DEF u, row, Covered, Covers
      <3> QED
        BY <2>2, <3>2, <3>3, <3>4, <3>5 DEF u, row, Overfull
    <2> QED
      BY <2>1, <2>2
  <1>11. ItemCategoriesAgree => ItemCategoriesAgree'
    <2> SUFFICES ASSUME ItemCategoriesAgree, trans' # None, trans'.cat # None,
                        NEW i \in Rows(items), items'[i].cat # None
                 PROVE  BudgetOf[items'[i].cat] = BudgetOf[trans'.cat]
      BY <1>4 DEF ItemCategoriesAgree
    <2> QED
      BY <1>3, <1>5, <1>6 DEF ItemCategoriesAgree
  <1>12. CurrenciesAgree => CurrenciesAgree'
    BY <1>5, <1>6 DEF CurrenciesAgree
  <1>13. AdjustmentMirrors => AdjustmentMirrors'
    BY <1>1, <1>6 DEF AdjustmentMirrors
  <1> QED
    BY <1>9, <1>10, <1>11, <1>12, <1>13
       DEF Steps, CoverStep, FullStep, CategoryStep, CurrencyStep, MirrorStep

\* Archiving touches none of the rows.
LEMMA ArchivesInv ==
  ASSUME ConstantsAssumption, Inv, Typed',
         (\E k \in Categories : ArchiveCategory(k)) \/ (\E a \in Accounts : ArchiveAccount(a))
  PROVE  Inv' /\ Steps
  <1>1. Op /\ UNCHANGED <<trans, born, items, adj, request, overtaken>>
    BY DEF ArchiveCategory, ArchiveAccount
  <1>2. \A q \in Requests : Notices(q)
    BY <1>1, Unwritten DEF Notices
  <1>3. BornFirst'
    BY <1>1 DEF Inv, BornFirst
  <1> QED
    BY <1>1, <1>2, <1>3, Facts, InvKept, QuietSteps DEF Op, Inv

\* Every step keeps the invariant, and breaks a property only where it may.
LEMMA StepInv ==
  ASSUME ConstantsAssumption, Inv, [Next]_vars
  PROVE  Inv' /\ Steps
  <1>0. Typed'
    BY StepTyped DEF Inv
  <1>1. CASE UNCHANGED vars
    <2>1. \A q \in Requests : Notices(q)
      BY <1>1, Unwritten DEF vars, Notices
    <2>2. BornFirst'
      BY <1>1 DEF vars, Inv, BornFirst
    <2> QED
      BY <1>0, <1>1, <2>1, <2>2, Facts, InvKept, QuietSteps DEF vars, Inv
  <1>2. ASSUME NEW f \in Forms, NEW list \in Lists, Create(f, list)
        PROVE  Inv' /\ Steps
    BY <1>0, <1>2, CreateInv
  <1>3. ASSUME NEW q \in Requests,
               \/ \E f \in Forms : BeginUpdate(q, f)
               \/ \E list \in Lists, k \in Categories \cup {None} : BeginReplace(q, list, k)
               \/ \E list \in Receipts : BeginFill(q, list)
               \/ \E a \in Accounts : BeginMove(q, a)
        PROVE  Inv' /\ Steps
    BY <1>0, <1>3, BeginsInv
  <1>4. CASE \E q \in Requests : PrepareUpdate(q) \/ PrepareReplace(q) \/ PrepareFill(q)
    BY <1>0, <1>4, PreparesInv
  <1>5. CASE \E q \in Requests : CommitUpdate(q) \/ CommitItems(q) \/ CommitMove(q)
    BY <1>0, <1>5, CommitsInv
  <1>6. CASE Delete
    BY <1>0, <1>6, DeleteInv
  <1>7. ASSUME NEW k \in Categories, DeleteCategory(k) \/ \E l \in Categories : MergeCategory(k, l)
        PROVE  Inv' /\ Steps
    <2>1. PICK l \in Categories \cup {None} : Op /\ Recategorized(k, l)
            /\ (l # None => BudgetOf[k] = BudgetOf[l])
      BY <1>7 DEF DeleteCategory, MergeCategory
    <2> QED
      BY <1>0, <2>1, RecategorizedInv
  <1>8. CASE (\E k \in Categories : ArchiveCategory(k)) \/ (\E a \in Accounts : ArchiveAccount(a))
    BY <1>0, <1>8, ArchivesInv
  <1> QED
    BY <1>1, <1>2, <1>3, <1>4, <1>5, <1>6, <1>7, <1>8 DEF Next

-----------------------------------------------------------------------------
(* Theorems.                                                               *)

\* However requests overlap and whatever they send, every row has its types,
\* and what holds row by row holds: the sign of the amount, what an adjustment
\* may carry, both halves of the original-currency facet or neither.
THEOREM TypeCorrect ==
  ASSUME ConstantsAssumption
  PROVE  Spec => []TypeOK
  <1>1. Init => Typed
    BY InitTyped
  <1>2. Typed /\ [Next]_vars => Typed'
    BY StepTyped
  <1>3. Typed => TypeOK
    BY DEF Typed
  <1> QED
    BY <1>1, <1>2, <1>3, PTL DEF Spec

\* What every request under way knows of what was not overtaken.
THEOREM Overlapping ==
  ASSUME ConstantsAssumption
  PROVE  Spec => []Inv
  <1>1. Init => Inv
    BY InitInv
  <1>2. Inv /\ [Next]_vars => Inv'
    BY StepInv
  <1> QED
    BY <1>1, <1>2, PTL DEF Spec

\* The items of a transaction go on summing to its amount, by one remainder at
\* most (_normalize_coverage), however requests overlap, until an edit commits
\* whose transaction or items were written after it began.
THEOREM AmountCovered ==
  ASSUME ConstantsAssumption
  PROVE  Spec => StaysCovered
  <1>1. Inv /\ [Next]_vars => [CoverStep]_vars
    BY StepInv DEF Steps
  <1> QED
    BY <1>1, Overlapping, PTL DEF Spec, StaysCovered, CoverStep

\* Only a receipt's rows leave the items above the amount, on a transaction
\* that had no user rows, or an edit that was overtaken.
THEOREM OnlyReceiptsOverfill ==
  ASSUME ConstantsAssumption
  PROVE  Spec => OverfilledByReceiptOnly
  <1>1. Inv /\ [Next]_vars => [FullStep]_vars
    BY StepInv DEF Steps
  <1> QED
    BY <1>1, Overlapping, PTL DEF Spec, OverfilledByReceiptOnly, FullStep

\* The categories of the items stay in the budget of the transaction's own
\* category: through merges and deletions of categories beside any request, and
\* through every edit but an update whose items were written after it began and
\* a replacement whose transaction was.
THEOREM CategoriesAgree ==
  ASSUME ConstantsAssumption
  PROVE  Spec => CategoriesStayTogether
  <1>1. Inv /\ [Next]_vars => [CategoryStep]_vars
    BY StepInv DEF Steps
  <1> QED
    BY <1>1, Overlapping, PTL DEF Spec, CategoriesStayTogether, CategoryStep

\* The currency of the transaction stays that of its account, and the facet
\* stays in another one, through every update however stale: only a move in
\* bulk parts them, if the transaction was written after its check.
THEOREM CurrenciesKept ==
  ASSUME ConstantsAssumption
  PROVE  Spec => CurrenciesStayEqual
  <1>1. Inv /\ [Next]_vars => [CurrencyStep]_vars
    BY StepInv DEF Steps
  <1> QED
    BY <1>1, Overlapping, PTL DEF Spec, CurrenciesStayEqual, CurrencyStep

\* The linked adjustment stays a mirror of its source until an update commits
\* whose transaction or adjustment was written after it began.
THEOREM AdjustmentKept ==
  ASSUME ConstantsAssumption
  PROVE  Spec => AdjustmentStaysMirror
  <1>1. Inv /\ [Next]_vars => [MirrorStep]_vars
    BY StepInv DEF Steps
  <1> QED
    BY <1>1, Overlapping, PTL DEF Spec, AdjustmentStaysMirror, MirrorStep
=============================================================================
