SPECIFICATION Spec
CONSTANTS
  t1 = t1 t2 = t2 m1 = m1 m2 = m2 n1 = n1 n2 = n2 p1 = p1 c1 = c1 c2 = c2
  Transactions = {t1, t2, m1, m2}
  Names = {n1, n2}
  Purchases = {p1}
  Categories = {c1, c2}
  k1 = k1
  Keys = {k1}
  None = None
  Provided <- MCProvided
  RuleForms <- MCRuleForms
  Autos <- MCAutos
  MaxRules = 2
  MaxRequests = 3
SYMMETRY HandMade
INVARIANTS TrailTells OneEntryPerKey
PROPERTIES ManualStands Precedence
