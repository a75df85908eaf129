CONSTANTS
  petr = petr
  btc = btc
  Assets = {a}
  Instruments <- MCInstruments
  Chain <- MCChain
  Trades <- MCTrades
  FirstDay = 3
  LastDay = 4
  Ladder = {0, 1, 3}
  Bought = 1
  None = None
  MaxSaves = 2
  MaxSyncs = 1
  MaxCrashes = 1
SPECIFICATION FairSpec
INVARIANTS CoverageHonest NoSaveSleeps
PROPERTIES HistoryAsked
CHECK_DEADLOCK FALSE
