---------------------------- MODULE MCSyncIngest ----------------------------
(* A small instance of SyncIngest for TLC. *)
EXTENDS SyncIngest

CONSTANTS a1, a2, a3, t1, t2, b1, h1, h2, m1

\* Two transactions on the two pages of an account, one bill, one investment
\* with one movement; an account and an investment on a second page.
BillAccounts == (b1 :> a1)
MovementHoldings == (m1 :> h1)
TransactionPages == (t1 :> 1) @@ (t2 :> 2)
=============================================================================
