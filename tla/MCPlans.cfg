SPECIFICATION PlanSpec
CONSTANTS
  t1 = t1 t2 = t2
  Callers = {r1, r2}
  InstallmentIds = {1, 2, 3, 4}
  Payments = {t1, t2}
  Worth <- MCWorth
  Owed = 5
  Amounts <- MCAmounts
  Counts = {2}
  LastMonth = 3
  MaxCommits = 3
  Earlier <- MCEarlier
PROPERTIES PlanExpectsWhatRemains AllocatedStands
CHECK_DEADLOCK FALSE
SYMMETRY Tabs
