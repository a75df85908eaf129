--------------------------- MODULE MCInvestments ---------------------------
(* A small instance of Investments for TLC. *)
EXTENDS Investments, TLC

CONSTANTS a1, a2, i1, x, l1, l2, m1

\* A provider's deposit of 2, of which it is not always sure.
SmallReports == (m1 :> [account : {i1}, direction : {"inflow", "unknown"}, interest : {FALSE},
                        amount : {2}, day : {1}])

SmallValues == {-1, 1}

In(a, p, kind, d, amount, q, extra) ==
  [account |-> a, position |-> p, kind |-> kind, day |-> d, amount |-> amount,
   quantity |-> q, extra |-> extra]

Buy == In(a1, <<a1, x>>, "buy", 2, 1, 1, 1)
Sell == In(a2, <<a2, x>>, "sell", 2, 1, 1, 0)
Deposit == In(a1, None, "deposit", 1, 2, 0, 0)
Income == In(i1, None, "income", 2, 2, 0, 0)
LateDeposit == In(a1, None, "deposit", 2, 1, 0, 0)
Withdrawal == In(a2, None, "withdrawal", 2, 1, 0, 0)
Stray == In(a2, <<a1, x>>, "initial_balance", 1, 1, 1, 0)
Valuation == In(a1, <<a1, x>>, "valuation", 2, 1, 0, 0)

SmallBatches == {<<Sell>>, <<Deposit, Buy>>}
SmallCorrections == {LateDeposit, Income, Stray}
SmallOpenings == [quantity : {0, 1}, total : {0, 1}, day : {1}]

\* Bound of the run: one line or movement at a time is ignored or changed by a
\* synchronization under its links.
Bounded == Cardinality(drifted \cup ignored) <= 1
=============================================================================
