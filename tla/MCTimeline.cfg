SPECIFICATION Spec
CONSTANTS
  c1 = c1 c2 = c2 rent = rent other = other bank = bank card = card
  None = None
  Requests = {r1}
  Commitments = {c1, c2}
  Transactions = {1, 2, 3}
  Facts <- MCFacts
  OccurredOn <- MCOccurredOn
  Lengths <- MCLengths
  YearMonths = 2
  Reach = 3
  Schedules <- MCSchedules
  Rules <- MCRules
  Categories = {rent, other}
  Accounts = {bank, card}
  Windows <- MCWindows
  MaxWrites = 2
  Cards = {card}
  Reference = 7
  Cash = 20
  Bills <- MCBills
  Installments <- MCInstallments
  Expected <- MCExpected
CONSTRAINT Bounded
INVARIANTS ScreensAgree OneOccurrencePerPayment BalanceSameInEveryWindow
CHECK_DEADLOCK FALSE
SYMMETRY Names
