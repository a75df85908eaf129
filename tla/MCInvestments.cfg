CONSTANTS
  a1 = a1
  a2 = a2
  i1 = i1
  x = x
  l1 = l1
  l2 = l2
  m1 = m1
  Manual = {a1, a2}
  Integrated = {i1}
  Assets = {x}
  Lines = {l1, l2}
  LineValues <- SmallValues
  Movements = {m1}
  Imported = {l2}
  Reports <- SmallReports
  Batches <- SmallBatches
  Corrections <- SmallCorrections
  Openings <- SmallOpenings
  Amounts = {1}
  Quantities = {1}
  Days = {1, 2}
  None = None
  MaxRows = 4
SPECIFICATION Spec
CONSTRAINT Bounded
INVARIANTS BooksReplay TransfersBalance LinksExplain CapacityKept PivotReachable
CHECK_DEADLOCK FALSE
