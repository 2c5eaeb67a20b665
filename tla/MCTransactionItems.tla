------------------------- MODULE MCTransactionItems -------------------------
(* TransactionItems with two budgets, three categories, three accounts in    *)
(* two currencies, and amounts of a few cents.                               *)
EXTENDS TransactionItems, TLC

CONSTANTS k1, k2, k3, a1, a2, a3

MCBudgetOf == (k1 :> "home") @@ (k2 :> "home") @@ (k3 :> "trip")
MCCurrencyOf == (a1 :> "EUR") @@ (a2 :> "EUR") @@ (a3 :> "PLN")

Plain(type, amount, account, cat) ==
  [type |-> type, amount |-> amount, account |-> account, code |-> None, cat |-> cat,
   orig |-> 0, origCur |-> None, origAccount |-> None]

\* A card payment in zloty, booked on the zloty account or only noted.
Paid(f, orig, account) == [f EXCEPT !.orig = orig, !.origCur = "PLN", !.origAccount = account]

MCForms ==
  {Plain("expense", 3, a3, k3), Plain("adjustment", -2, a1, None),
   Plain("income", 0, a2, None), Paid(Plain("expense", 2, a1, k1), 5, a3),
   Paid(Plain("income", 2, a2, None), 6, a3), Paid(Plain("expense", 3, a1, k2), 5, None)}

RequestSymmetry == Permutations(Requests)

One(total, cat) == [total |-> total, cat |-> cat]

MCLists == {<<>>, <<One(1, k2), One(1, None)>>, <<One(4, None)>>}
MCReceipts == {<<>>, <<One(3, None)>>}
=============================================================================
