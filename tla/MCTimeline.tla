------------------------------ MODULE MCTimeline ------------------------------
EXTENDS Timeline, TLC
CONSTANTS c1, c2, rent, other, bank, card

Fact(account, amount, bill, payment, forecast) ==
  [account |-> account, amount |-> amount, inflow |-> payment, bill |-> bill,
   payment |-> payment, forecast |-> forecast]
MCFacts == <<Fact(bank, 5, 0, FALSE, 0), Fact(card, 9, 0, FALSE, 0), Fact(card, 2, 0, TRUE, 3)>>
MCOccurredOn == <<<<3, 7>>, <<2, 4>>, <<4>>>>
MCLengths == <<3, 2, 3, 3>>
Typed(day, month) ==
  [active |-> TRUE, income |-> FALSE, category |-> rent, account |-> None,
   day |-> day, month |-> month, start |-> 1, end |-> 8]
MCSchedules == {Typed(3, 0), Typed(1, 0)}
Condition(field, low, high) == [field |-> field, low |-> low, high |-> high]
MCRules ==
  {[active |-> TRUE, logic |-> "and",
    conditions |-> {Condition("amount", 4, 6), Condition("day_of_month", 3, 1)}],
   [active |-> TRUE, logic |-> "or",
    conditions |-> {Condition("description", 0, 0), Condition("day_of_month", 1, 3)}]}
MCWindows == {<<2, 7>>, <<4, 8>>, <<7, 9>>}
MCBills == {[closing |-> 3, due |-> 4], [closing |-> 5, due |-> 8]}
MCInstallments ==
  {[scenario |-> "plan", day |-> 7, amount |-> -3, allocated |-> 0, active |-> TRUE],
   [scenario |-> "plan", day |-> 5, amount |-> -3, allocated |-> 1, active |-> TRUE],
   [scenario |-> "trip", day |-> 8, amount |-> -4, allocated |-> 0, active |-> FALSE]}
MCExpected == [c \in Commitments |-> 6]
\* Bound of the run: the payment of the bill stays in its category.
Bounded == tx[3].category = other
Names == Permutations(Commitments)
=============================================================================
