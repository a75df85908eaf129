CONSTANTS
  s1 = s1
  w1 = w1
  w2 = w2
  Runs = {1, 2}
  Sources = {s1}
  SourceOf <- OneSource
  Workers = {w1, w2}
  Steady = {w1}
  NoWorker = NoWorker
  NoRun = NoRun
  NoPage = NoPage
  Lease = 0
  Pages = 1
  MaxVersion = 1
SPECIFICATION FairSpec
INVARIANTS Inv
PROPERTIES StoredForward VerdictFinal RecoversOnlySilent ImplementsSlot EveryRunEnds
CHECK_DEADLOCK FALSE
