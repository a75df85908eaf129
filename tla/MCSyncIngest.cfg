CONSTANTS
  a1 = a1
  a2 = a2
  a3 = a3
  t1 = t1
  t2 = t2
  b1 = b1
  h1 = h1
  h2 = h2
  m1 = m1
  Accounts = {a1, a2, a3}
  Credit = {a1}
  Transactions = {t1, t2}
  Bills = {b1}
  BillOf <- BillAccounts
  Holdings = {h1, h2}
  FirstPage = {a1, a2, h1}
  Movements = {m1}
  MovementOf <- MovementHoldings
  PageOf <- TransactionPages
  Pages = 2
  NoParent = NoParent
  Volatile = {t1}
  MaxVersion = 2
  MaxRuns = 2
SPECIFICATION Spec
INVARIANTS HookFollowsRow CountersAgree
PROPERTIES CompletedMeansStored CompletedMeansPlaced
CHECK_DEADLOCK FALSE
