------------------------------- MODULE MCPlans -------------------------------
EXTENDS Plans, TLC
CONSTANTS t1, t2
MCWorth == (t1 :> 2) @@ (t2 :> 3)
Planned(x, m) == [amount |-> x, month |-> m]
Nothing == [i \in InstallmentIds |-> NoInstallment]
MCEarlier == {Nothing, [Nothing EXCEPT ![1] = Planned(-1, 1), ![2] = Planned(3, 2)]}
MCAmounts == {2}
Tabs == Permutations(Callers)
=============================================================================
