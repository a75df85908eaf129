----------------------------- MODULE MCDecisions -----------------------------
EXTENDS Decisions, TLC
CONSTANTS t1, t2, m1, m2, n1, n2, p1, c1, c2, k1
Synced(name, purchase, labels) == [name |-> name, purchase |-> purchase, labels |-> labels]
MCProvided == (t1 :> {Synced(n1, p1, {})}) @@ (m1 :> {}) @@ (m2 :> {})
  @@ (t2 :> {Synced(n1, p1, {"source"}), Synced(n2, None, {"card", "source"})})
Form(names, cat, ignore) == [names |-> names, cat |-> cat, ignore |-> ignore, active |-> TRUE]
MCRuleForms == {Form({n1}, c1, FALSE), Form({n1, n2}, c2, TRUE)}
HandMade == Permutations({m1, m2})
MCAutos == [label \in Labels |-> IF label = "card" THEN c1 ELSE c2]
=============================================================================
