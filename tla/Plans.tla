-------------------------------- MODULE Plans --------------------------------
(***************************************************************************)
(* The installments planned for a debt (or a credit): generated from what  *)
(* remains to be paid, edited by hand, allocated to real payments, and     *)
(* readjusted.  Generating, readjusting and allocating read the payable,   *)
(* the plan and its allocations on the plain connection, one query after   *)
(* another, and only then write: other requests run in between.            *)
(*                                                                         *)
(* One payable with one plan, its accounting source; amounts are cents,    *)
(* dates are the months of the plan.                                       *)
(***************************************************************************)
EXTENDS Integers, FiniteSets, Sequences, FiniteSetsExt

CONSTANTS
  Callers,         \* requests in flight at once
  InstallmentIds,  \* ids of planned installments; a deleted one's may be used again
  Payments,        \* the real payments that may be linked to the payable
  Worth,           \* [Payments -> cents]: a payment's effective amount
  Owed,            \* the payable's total, less what was settled at its start
  Amounts,         \* the amounts a user types for an installment or an allocation
  Counts,          \* the numbers of installments a user asks for
  LastMonth,       \* bound: the last month a plan may reach
  Earlier,         \* plans typed before the first request: the initial contents of `planned`
  MaxCommits       \* bound: how many writes a behaviour commits

Installment == [amount : Int, month : 1 .. LastMonth]
NoInstallment == [amount |-> 0, month |-> 0]

ASSUME PlansAssumption ==
  /\ Owed \in Nat \ {0} /\ LastMonth \in Nat \ {0}
  /\ Worth \in [Payments -> Nat \ {0}]
  /\ Counts \subseteq Nat \ {0} /\ Amounts \subseteq Int \ {0}
  /\ IsFiniteSet(InstallmentIds) /\ IsFiniteSet(Payments)
  /\ Earlier \subseteq [InstallmentIds -> Installment \cup {NoInstallment}]

VARIABLES
  planned,    \* [InstallmentIds -> NoInstallment or an Installment]
  linked,     \* the payments linked to the payable (and settling it)
  allocated,  \* allocation rows: <<installment, payment, amount, number among the equal ones>>
  call,       \* [Callers -> what the request has read so far]
  commits     \* how many writes were committed

planVars == <<planned, linked, allocated, call, commits>>

AtRest == [stage |-> "idle"]

-----------------------------------------------------------------------------
(* What is derived on every read.                                          *)

PlanOf(plan) == {i \in InstallmentIds : plan[i] # NoInstallment}

(* remaining_amount: what the links have not settled, within [0, Owed].    *)
Settled(links) == MapThenSumSet(LAMBDA t : Worth[t], links)
Remaining(links) == IF Settled(links) > Owed THEN 0 ELSE Owed - Settled(links)

AllocationsOf(i, rows) == {a \in rows : a[1] = i}
Realized(i, rows) == MapThenSumSet(LAMBDA a : a[3], AllocationsOf(i, rows))

(* The installments a readjustment may replace, and what the others reserve*)
(* of the remaining amount: their shortfall, never a negative one.         *)
(* (Defect AffectedUnlessPaid: partly paid installments are replaced too.) *)
AffectedUnlessPaid(plan, rows) == {i \in PlanOf(plan) : Realized(i, rows) < plan[i].amount}
Affected(plan, rows) == {i \in PlanOf(plan) : Realized(i, rows) = 0}
Shortfall(plan, rows, i) ==
  IF plan[i].amount > Realized(i, rows) THEN plan[i].amount - Realized(i, rows) ELSE 0
Reserved(plan, rows) ==
  MapThenSumSet(LAMBDA i : Shortfall(plan, rows, i), PlanOf(plan) \ Affected(plan, rows))

(* What the plan still expects to be paid.                                 *)
PlannedFor(plan, those) == MapThenSumSet(LAMBDA i : plan[i].amount, those)
ToBePaid(plan, rows) ==
  Reserved(plan, rows) + PlannedFor(plan, Affected(plan, rows))

-----------------------------------------------------------------------------
(* Splitting an amount: n equal shares, or as many of a given value as it  *)
(* takes; the last share absorbs what the division leaves.                 *)
(* (Defect EvenlyTruncated: no share absorbs the rest.)                    *)
EvenlyTruncated(total, n) == [k \in 1 .. n |-> total \div n]
Evenly(total, n) ==
  [k \in 1 .. n |-> IF k < n THEN total \div n ELSE total - (n - 1) * (total \div n)]

CeilDiv(total, value) == -((-total) \div value)
ByAmount(total, value) ==
  LET needed == IF value < 0 THEN 1 ELSE CeilDiv(total, value)
      n == Max({1, needed})
  IN [k \in 1 .. n |-> IF k < n THEN value ELSE total - (n - 1) * value]

Drafts(amounts, months) ==
  [k \in DOMAIN amounts |-> [amount |-> amounts[k], month |-> months[k]]]

(* "Abater do final": as many installments of the largest affected amount  *)
(* as the balance takes, one a month from the first affected one.          *)
First(plan, those) == Min({plan[i].month : i \in those})
ReduceTerm(balance, plan, those) ==
  LET amounts == ByAmount(balance, Max({plan[i].amount : i \in those}))
  IN Drafts(amounts, [k \in DOMAIN amounts |-> First(plan, those) + k - 1])

(* "Redistribuir entre os meses": the affected installments' own dates, in *)
(* order, with equal shares of the balance.                                *)
KthMonth(plan, those, k) ==
  CHOOSE m \in {plan[i].month : i \in those} :
    /\ Cardinality({i \in those : plan[i].month < m}) < k
    /\ Cardinality({i \in those : plan[i].month <= m}) >= k
Redistribute(balance, plan, those) ==
  LET amounts == Evenly(balance, Cardinality(those))
  IN Drafts(amounts, [k \in DOMAIN amounts |-> KthMonth(plan, those, k)])

-----------------------------------------------------------------------------
PlanInit ==
  /\ planned \in Earlier
  /\ linked \in SUBSET Payments
  /\ allocated = {}
  /\ call = [r \in Callers |-> AtRest]
  /\ commits = 0

At(r, stage) == call[r].stage = stage
Goes(r, next) == call' = [call EXCEPT ![r] = next]
Reads(r, next) == Goes(r, next) /\ UNCHANGED <<planned, linked, allocated, commits>>
Starts(r) == At(r, "idle") /\ commits < MaxCommits
OneWrite == commits < MaxCommits /\ commits' = commits + 1
Commits(r) == Goes(r, AtRest) /\ commits' = commits + 1

(* Rows are inserted under ids that no request in flight has ever seen; the*)
(* installments of a batch are told apart only by their place in it.       *)
Held == UNION {call[r].ids : r \in {x \in Callers : "ids" \in DOMAIN call[x]}}
FreshIds(plan, n) ==
  LET free == InstallmentIds \ (PlanOf(plan) \cup PlanOf(planned) \cup Held)
  IN IF Cardinality(free) < n THEN {}
     ELSE {CHOOSE s \in [1 .. n -> free] : \A j, k \in 1 .. n : j # k => s[j] # s[k]}
Inserted(plan, drafts, ids) ==
  [i \in InstallmentIds |->
     IF \E k \in DOMAIN drafts : ids[k] = i
     THEN drafts[CHOOSE k \in DOMAIN drafts : ids[k] = i] ELSE plan[i]]
Fits(drafts) == \A k \in DOMAIN drafts : drafts[k].month <= LastMonth

-----------------------------------------------------------------------------
(* Generating a plan: refused (409) unless the plan is empty.              *)
CheckEmpty(r) ==
  /\ Starts(r)
  /\ PlanOf(planned) = {}
  /\ Reads(r, [stage |-> "generate"])

(* What remains is read next, and the shares computed; nothing remaining is*)
(* an invalid plan (422).                                                  *)
GenerateDrafts(r) ==
  /\ At(r, "generate")
  /\ LET remaining == Remaining(linked) IN
     IF remaining = 0 THEN Reads(r, AtRest)
     ELSE \E amounts \in {Evenly(remaining, n) : n \in Counts}
                           \cup {ByAmount(remaining, v) : v \in {x \in Amounts : x > 0}} :
            Reads(r, [stage |-> "create", drafts |-> Drafts(amounts, [k \in DOMAIN amounts |-> k])])

(* One transaction inserts them all.                                       *)
CreateGeneratedInstallments(r) ==
  /\ At(r, "create")
  /\ Fits(call[r].drafts)
  /\ \E ids \in FreshIds(planned, Len(call[r].drafts)) :
       planned' = Inserted(planned, call[r].drafts, ids)
  /\ Commits(r)
  /\ UNCHANGED <<linked, allocated>>

-----------------------------------------------------------------------------
(* Readjusting: the remaining amount, the plan and its allocations are read*)
(* by three queries.                                                       *)
ReadRemaining(r) ==
  /\ Starts(r)
  /\ \E strategy \in {"abater_do_final", "redistribuir"} :
       Reads(r, [stage |-> "list", strategy |-> strategy, remaining |-> Remaining(linked)])

ReadPlan(r) ==
  /\ At(r, "list")
  /\ Reads(r, [stage |-> "allocations", strategy |-> call[r].strategy,
               remaining |-> call[r].remaining, plan |-> planned, ids |-> PlanOf(planned)])

(* With nothing to replace, or nothing left to distribute, it is refused   *)
(* (422); dividing by a reference amount of zero is a panic that ends the  *)
(* request.                                                                *)
Balance(remaining, plan, rows) == remaining - Reserved(plan, rows)

ReadAllocations(r) ==
  /\ At(r, "allocations")
  /\ LET plan == call[r].plan
         those == Affected(plan, allocated)
         balance == Balance(call[r].remaining, plan, allocated)
         reference == Max({plan[i].amount : i \in those})
     IN IF those = {} \/ balance <= 0 \/ (call[r].strategy = "abater_do_final" /\ reference = 0)
        THEN Reads(r, AtRest)
        ELSE Reads(r, [stage |-> "replace", strategy |-> call[r].strategy, remaining |-> call[r].remaining,
                       plan |-> plan, rows |-> allocated, those |-> those, ids |-> PlanOf(plan),
                       drafts |-> IF call[r].strategy = "redistribuir"
                                  THEN Redistribute(balance, plan, those)
                                  ELSE ReduceTerm(balance, plan, those)])

(* One transaction deletes the installments that were read as unallocated  *)
(* (and by cascade whatever was allocated to them meanwhile) and inserts   *)
(* the new ones; one of them gone is an error and a rollback.              *)
Replace(r) ==
  /\ At(r, "replace")
  /\ Fits(call[r].drafts)
  /\ IF call[r].those \subseteq PlanOf(planned)
     THEN LET kept == [i \in InstallmentIds |-> IF i \in call[r].those THEN NoInstallment ELSE planned[i]]
          IN \E ids \in FreshIds(kept, Len(call[r].drafts)) :
               /\ planned' = Inserted(kept, call[r].drafts, ids)
               /\ allocated' = {a \in allocated : a[1] \notin call[r].those}
     ELSE UNCHANGED <<planned, allocated>>
  /\ Commits(r)
  /\ UNCHANGED linked

-----------------------------------------------------------------------------
(* Editing by hand: single statements, whatever the amount (but not zero). *)
CreateScenarioTransaction ==
  /\ OneWrite
  /\ \E ids \in FreshIds(planned, 1), x \in Amounts, m \in 1 .. LastMonth :
       planned' = [planned EXCEPT ![ids[1]] = [amount |-> x, month |-> m]]
  /\ UNCHANGED <<linked, allocated, call>>

UpdateScenarioTransaction(i) ==
  /\ OneWrite
  /\ i \in PlanOf(planned)
  /\ \E x \in Amounts, m \in 1 .. LastMonth : planned' = [planned EXCEPT ![i] = [amount |-> x, month |-> m]]
  /\ UNCHANGED <<linked, allocated, call>>

DeleteScenarioTransaction(i) ==
  /\ OneWrite
  /\ i \in PlanOf(planned)
  /\ planned' = [planned EXCEPT ![i] = NoInstallment]
  /\ allocated' = {a \in allocated : a[1] # i}
  /\ UNCHANGED <<linked, call>>

(* Allocating a payment to an installment: the installment and the link are*)
(* read and checked first.  CreateRealization adds a row; RealizeEvent puts*)
(* one in the place of the installment's rows, for the installment's own   *)
(* magnitude when no amount is given.                                      *)
CheckAllocation(r) ==
  /\ Starts(r)
  /\ \E i \in PlanOf(planned), t \in linked :
       \/ \E x \in {y \in Amounts : y > 0} : \E how \in {"add", "put"} :
            Reads(r, [stage |-> how, row |-> <<i, t, x>>, ids |-> {i}])
       \/ LET own == Max({planned[i].amount, -planned[i].amount}) IN
          /\ own # 0
          /\ Reads(r, [stage |-> "put", row |-> <<i, t, own>>, ids |-> {i}])

(* A row is inserted under an id of its own: allocating the same amount of *)
(* the same payment twice makes two rows.                                  *)
RowOf(a, n) == <<a[1], a[2], a[3], n>>
WithRow(a, rows) ==
  LET free == {n \in 1 .. MaxCommits : RowOf(a, n) \notin rows}
  IN {rows \cup {RowOf(a, n)} : n \in {k \in free : \A l \in free : k <= l}}

(* The row refers to the installment: it fails when that is gone.  Adding  *)
(* reads the link once more, together with the insert.                     *)
CreateRealization(r) ==
  /\ At(r, "add")
  /\ IF call[r].row[1] \in PlanOf(planned) /\ call[r].row[2] \in linked
     THEN allocated' \in WithRow(call[r].row, allocated) ELSE allocated' = allocated
  /\ Commits(r)
  /\ UNCHANGED <<planned, linked>>

RealizeEvent(r) ==
  /\ At(r, "put")
  /\ IF call[r].row[1] \in PlanOf(planned)
     THEN allocated' \in WithRow(call[r].row, allocated \ AllocationsOf(call[r].row[1], allocated))
     ELSE allocated' = allocated
  /\ Commits(r)
  /\ UNCHANGED <<planned, linked>>

DeleteRealization(a) ==
  /\ OneWrite
  /\ a \in allocated
  /\ allocated' = allocated \ {a}
  /\ UNCHANGED <<planned, linked, call>>

(* Linking a payment to the payable settles that much of it; unlinking takes*)
(* the payment's allocations along.  A payment linked again after that has *)
(* a link of another id, which is not told apart from the first: only an   *)
(* allocation under way could see the difference (it would fail).          *)
CreateLink(t) ==
  /\ OneWrite
  /\ t \notin linked
  /\ linked' = linked \cup {t}
  /\ UNCHANGED <<planned, allocated, call>>

DeleteLink(t) ==
  /\ OneWrite
  /\ t \in linked
  /\ linked' = linked \ {t}
  /\ allocated' = {a \in allocated : a[2] # t}
  /\ UNCHANGED <<planned, call>>

(* A statement fails: 503, and nothing written.                            *)
Fail(r) ==
  /\ ~At(r, "idle")
  /\ Reads(r, AtRest)

PlanNext ==
  \/ \E r \in Callers :
       \/ CheckEmpty(r) \/ GenerateDrafts(r) \/ CreateGeneratedInstallments(r)
       \/ ReadRemaining(r) \/ ReadPlan(r) \/ ReadAllocations(r) \/ Replace(r)
       \/ CheckAllocation(r) \/ CreateRealization(r) \/ RealizeEvent(r)
       \/ Fail(r)
  \/ CreateScenarioTransaction
  \/ \E i \in InstallmentIds : UpdateScenarioTransaction(i) \/ DeleteScenarioTransaction(i)
  \/ \E a \in allocated : DeleteRealization(a)
  \/ \E t \in Payments : CreateLink(t) \/ DeleteLink(t)

PlanSpec == PlanInit /\ [][PlanNext]_planVars

-----------------------------------------------------------------------------
(* Types: an allocation is of a payment to an installment of the plan.     *)
PlanTypes ==
  /\ planned \in [InstallmentIds -> Installment \cup {NoInstallment}]
  /\ linked \subseteq Payments
  /\ \A a \in allocated : a[1] \in PlanOf(planned) /\ a[2] \in Payments /\ a[3] \in Nat \ {0}

(* The request's reads are still what the database holds.                  *)
StillTrue(r) ==
  /\ call[r].remaining = Remaining(linked)
  /\ call[r].plan = planned
  /\ call[r].rows = allocated

Replaces(r) == At(r, "replace") /\ call'[r] = AtRest /\ planned' # planned

(* A readjustment nobody interfered with leaves a plan that expects exactly*)
(* what remains to be paid, whatever was partially paid or overpaid before,*)
(* and `redistribuir` does not move the month of the last payment.         *)
PlanExpectsWhatRemains ==
  [][\A r \in Callers : Replaces(r) /\ StillTrue(r) =>
       /\ ToBePaid(planned', allocated') = Remaining(linked')
       /\ call[r].strategy = "redistribuir" =>
            Max({planned'[i].month : i \in PlanOf(planned')})
              = Max({planned[i].month : i \in PlanOf(planned)})]_planVars

(* A readjustment replaces no installment it read an allocation of, in full*)
(* or in part: the installment, its amount and its rows stay.              *)
AllocatedStands ==
  [][\A r \in Callers : Replaces(r) =>
       \A a \in call[r].rows : a[1] \in PlanOf(planned) =>
         /\ planned'[a[1]] = planned[a[1]]
         /\ a \in allocated => a \in allocated']_planVars
=============================================================================
