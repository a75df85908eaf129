-------------------------- MODULE MCStatementImport --------------------------
EXTENDS StatementImport, TLC
CONSTANTS r1, r2, a1, a2, f1, f2, f3, b1, b2, b3
Tabs == Permutations({r1, r2})
At(b) == CASE b = b1 -> 1 [] b = b2 -> 2 [] OTHER -> 3
Ok(b, n) == [base |-> b, bal |-> n, at |-> At(b), valid |-> TRUE]
Bad(b, at) == [base |-> b, bal |-> 0, at |-> at, valid |-> FALSE]
MCContent == [f \in {f1, f2, f3} |->
  CASE f = f1 -> <<Ok(b1, 1), Ok(b2, 2), Bad(b3, 0)>>
    [] f = f2 -> <<Ok(b1, 2), Ok(b1, 1), Ok(b2, 3)>>
    [] OTHER -> <<Ok(b2, 2), Ok(b2, 2), Bad(b3, 1), Ok(b3, 4)>>]
MCLookAlikes == {<<"pluggy", NoAccount, b2>>, <<"manual", a1, b1>>}
MCLegacy == (a1 :> {[id |-> <<"v1", b1, 1>>, base |-> b1, bal |-> 1, file |-> "older"]}) @@ (a2 :> {})
=============================================================================
