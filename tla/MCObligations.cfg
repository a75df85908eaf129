CONSTANTS
  t1 = t1
  t2 = t2
  p1 = p1
  p2 = p2
  o1 = o1
  o2 = o2
  r1 = r1
  r2 = r2
  None = None
  Transactions = {t1, t2}
  Manual = {t1}
  Payables = {p1}
  Plans = {1}
  LinkIds = {1, 2}
  Occurrences = {o1}
  Requests = {r1, r2}
  MaxRevision = 2
SPECIFICATION Spec
SYMMETRY Symmetry
CONSTRAINT Bounded
INVARIANTS ClearedPaysNothing DeletedCarriesNothing RealizationsFollowLinks TrailMatches
CHECK_DEADLOCK FALSE
