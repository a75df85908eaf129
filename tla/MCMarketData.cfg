CONSTANTS
  Callers = {c1, c2}
  Symbols = {petr}
  ChainLength = 2
  Spacing = 1
  MaxWait = 1
  Penalty = 2
  Hints = {0, 1}
  TTL = 1
  Backoff = 1
  MaxAttempts = 2
  MaxCalls = 3
  MaxCancels = 1
  Nil = Nil
SPECIFICATION FairMarketSpec
INVARIANTS SharedLookup OwnOutcome
PROPERTIES EveryCallReturns
CHECK_DEADLOCK FALSE
