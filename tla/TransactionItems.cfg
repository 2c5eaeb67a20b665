SPECIFICATION Spec
CONSTANTS
  k1 = k1
  k2 = k2
  k3 = k3
  a1 = a1
  a2 = a2
  a3 = a3
  Categories = {k1, k2, k3}
  BudgetOf <- MCBudgetOf
  Accounts = {a1, a2, a3}
  CurrencyOf <- MCCurrencyOf
  Currencies = {"EUR", "PLN"}
  Forms <- MCForms
  Lists <- MCLists
  Receipts <- MCReceipts
  Requests = {q1, q2}
  MaxRows = 2
  MaxOps = 4
  None = None
SYMMETRY RequestSymmetry
PROPERTY StaysCovered
PROPERTY CategoriesStayTogether
PROPERTY CurrenciesStayEqual
PROPERTY AdjustmentStaysMirror
CHECK_DEADLOCK FALSE
