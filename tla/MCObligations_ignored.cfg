CONSTANTS
  t1 = t1
  t2 = t2
  p1 = p1
  p2 = p2
  o1 = o1
  o2 = o2
  r1 = r1
  r2 = r2
  None = None
  Transactions = {t1, t2}
  Manual = {t1, t2}
  Payables = {p1, p2}
  Plans = {1, 2}
  LinkIds = {1, 2}
  Occurrences = {o1, o2}
  Requests = {r1}
  MaxRevision = 3
SPECIFICATION Spec
INVARIANT IgnoredPaysNothing
CHECK_DEADLOCK FALSE
