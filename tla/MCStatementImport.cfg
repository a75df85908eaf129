SPECIFICATION Spec
CONSTANTS
  a1 = a1 a2 = a2 f1 = f1 f2 = f2 f3 = f3 b1 = b1 b2 = b2 b3 = b3 r1 = r1 r2 = r2
  Accounts = {a1, a2}
  Known = {a1}
  NoAccount = NoAccount
  Files = {f1, f2, f3}
  Content <- MCContent
  Plain = {b1, b3}
  LookAlikes <- MCLookAlikes
  Legacy <- MCLegacy
  MaxImports = 2
  Requests = {r1, r2}
SYMMETRY Tabs
INVARIANTS ReimportFindsNothingNew
PROPERTIES StoredAsSeen BalanceMovesForward
