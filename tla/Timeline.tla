------------------------------- MODULE Timeline -------------------------------
(***************************************************************************)
(* The financial timeline: one series merging real transactions, the       *)
(* installments of plans and the occurrences of recurring commitments,     *)
(* walked from the cash on hand at a reference day.  It is computed anew   *)
(* for every period asked for, from what the database holds.               *)
(***************************************************************************)
EXTENDS Recurrences

CONSTANTS
  Cards,         \* accounts that are credit cards
  Reference,     \* the reference day: today
  Cash,          \* the cash on hand the banks report
  Bills,         \* the known bills of a card: a set of [closing, due], closing = 0 if not told
  Installments,  \* planned events: [scenario, day, amount, allocated, active]
  Expected       \* [Commitments -> the magnitude of an occurrence]

ASSUME TimelineAssumption ==
  /\ Cash \in Int /\ Reference \in Nat \ {0}
  /\ Expected \in [Commitments -> Nat \ {0}]
  /\ IsFiniteSet(Commitments) /\ IsFiniteSet(Transactions) /\ IsFiniteSet(Installments)
  /\ \A t \in Transactions : Facts[t].amount \in Nat
  /\ \A i \in Installments : i.amount \in Int

-----------------------------------------------------------------------------
(* When a card purchase leaves the account: the day its bill is due.       *)
ClosesOn(bill) == IF bill.closing = 0 THEN bill.due ELSE bill.closing

(* A bill k months on, on the same days of the month, clamped.             *)
MonthsOn(day, k) == OccurrenceDate(MonthOf(day) + k, DayOfMonth(day))
Later(bill, k) ==
  [closing |-> IF bill.closing = 0 THEN 0 ELSE MonthsOn(bill.closing, k), due |-> MonthsOn(bill.due, k)]

LastBill == CHOOSE b \in Bills : \A x \in Bills : ClosesOn(x) <= ClosesOn(b)
Estimated == {Later(LastBill, k) : k \in 1 .. (Len(Lengths) - MonthOf(LastBill.due))}
Earliest(bills) == CHOOSE b \in bills : \A x \in bills : ClosesOn(b) <= ClosesOn(x)
Latest(bills) == CHOOSE b \in bills : \A x \in bills : ClosesOn(x) <= ClosesOn(b)

(* The first bill still open on a day, estimated beyond the known ones.    *)
InferredDueDate(day) ==
  IF Bills = {} THEN day ELSE Earliest({b \in Bills \cup Estimated : ClosesOn(b) >= day}).due

(* The last bill already closed on a day: what a payment settles.          *)
Closed(day) ==
  {b \in Bills : ClosesOn(b) <= day}
    \cup (IF Bills = {} \/ LastBill.closing = 0 THEN {} ELSE {b \in Estimated : b.closing <= day})

(* The bill the provider names, the one it forecasts (for a purchase), the *)
(* one a payment settles, or the one still open.                           *)
ProjectedEntryDate(t, occurredAt) ==
  LET named == {b \in Bills : b.due = Facts[t].bill}
      forecast == {b \in Bills : ~Facts[t].payment /\ MonthOf(b.due) = Facts[t].forecast}
  IN IF named # {} THEN (CHOOSE b \in named : TRUE).due
     ELSE IF forecast # {} THEN Earliest(forecast).due
     ELSE IF Facts[t].payment /\ Closed(occurredAt) # {} THEN Latest(Closed(occurredAt)).due
     ELSE InferredDueDate(occurredAt)

-----------------------------------------------------------------------------
(* The entries of a period.                                                *)
OnCard(t) == Facts[t].account \in Cards
EntryDate(t) == IF OnCard(t) THEN ProjectedEntryDate(t, tx[t].day) ELSE tx[t].day

Signed(amount, inflow) == IF inflow THEN amount ELSE -amount
Entry(key, date, amount, source) == [key |-> key, date |-> date, amount |-> amount, source |-> source]

(* Real transactions are asked for from two months before the period: a card*)
(* purchase counts on its due date.  Days the earlier month does not have  *)
(* carry over into the next one.                                           *)
TwoMonthsBefore(day) ==
  IF MonthOf(day) <= 2 THEN 1 ELSE StartOf[MonthOf(day) - 2] + DayOfMonth(day) - 1
RealEntries(from, to) ==
  {Entry(<<"transaction", t>>, EntryDate(t), Signed(Facts[t].amount, Facts[t].inflow),
         IF OnCard(t) THEN "card" ELSE "cash") : t \in RealItems(TwoMonthsBefore(from), to)}

(* Planned events: those of the active scenarios, or of the ones named; an *)
(* event realized by a real transaction is that transaction's already.     *)
Selected(ids) ==
  IF ids # {} THEN ids \cap {c \in Commitments : Exists(c)}
  ELSE {c \in Commitments : commitment[c].active}
PlannedEntries(ids, from, to) ==
  {Entry(<<"installment", i>>, i.day, i.amount, "planned") :
     i \in {x \in Installments : /\ IF ids # {} THEN x.scenario \in ids ELSE x.active
                                 /\ x.day \in from .. to /\ x.allocated = 0}}
  \cup UNION {LET events == RecurringProjections(c, from, to)
              IN {Entry(<<c, d>>, d, Signed(Expected[c], commitment[c].income), "planned") :
                    d \in {x \in DOMAIN events : events[x].tx = None}} :
                c \in Selected(ids)}

(* (Defect Unclipped: entries dated outside the period are kept.)          *)
Unclipped(entries, from, to) == entries
WithinWindow(entries, from, to) == {e \in entries : e.date \in from .. to}
Entries(ids, from, to) ==
  WithinWindow(RealEntries(from, to) \cup PlannedEntries(ids, from, to), from, to)

(* A bill due before the reference day was paid by a real transaction: its *)
(* purchases are not walked again.  What is dated on the reference day but *)
(* is not in cash yet is walked as if it came later.                       *)
CashEntries(entries) == {e \in entries : ~(e.source = "card" /\ e.date < Reference)}
AwaitingCash(e) == e.date = Reference /\ e.source # "cash"

Total(entries) == MapThenSumSet(LAMBDA e : e.amount, entries)
Anchor(entries) == Cash - Total({e \in entries : e.date <= Reference /\ ~AwaitingCash(e)})
Points(ids, from, to) ==
  LET walked == CashEntries(Entries(ids, from, to))
      anchor == Anchor(walked)
  IN [d \in from .. to |-> anchor + Total({e \in walked : e.date \in from .. d})]

(* The base curve, and the simulations that name one scenario.             *)
Simulations == {{}} \cup {{c} : c \in Commitments} \cup {{i.scenario} : i \in Installments}

-----------------------------------------------------------------------------
(* What reading two months back takes for granted, and nothing enforces: a *)
(* purchase whose bill is due today or later is no later than that day, nor*)
(* earlier than two months before any day up to today.                     *)
PurchasesNear ==
  \A t \in Transactions : OnCard(t) /\ ~tx[t].ignored /\ EntryDate(t) >= Reference =>
    /\ tx[t].day <= EntryDate(t)
    /\ \A from \in 1 .. Reference : TwoMonthsBefore(from) <= tx[t].day

(* A day's balance does not depend on the period the curve is drawn for,   *)
(* whatever days it begins and ends on, as long as it has the reference day*)
(* (and hand-picked transactions and purchases are near their occurrence   *)
(* and their bill), in the base and in any simulation: re-dated purchases, *)
(* bills already paid, realized events and events still due today are each *)
(* counted once.                                                           *)
BalanceSameInEveryWindow ==
  PurchasesNear /\ (\A o \in override : o.tx # None => PickedNear(o)) =>
    \A ids \in Simulations :
      LET drawn == {Points(ids, w[1], w[2]) : w \in {x \in Windows : Reference \in x[1] .. x[2]}}
      IN \A p, q \in drawn : \A d \in DOMAIN p \cap DOMAIN q : p[d] = q[d]
=============================================================================
