---------------------------- MODULE Planning_proofs ----------------------------
(***************************************************************************)
(* Proofs about what is planned and what of it is realized: Recurrences    *)
(* and Timeline, for any commitments, transactions, rules, schedules,      *)
(* calendar, bills, reach and periods, on whatever days; Plans, for any      *)
(* requests, installments, payments and amounts.                           *)
(***************************************************************************)
EXTENDS Timeline, Plans, FiniteSetTheorems, WellFoundedInduction, TLAPS

USE DEF vars

-----------------------------------------------------------------------------
(* The calendar                                                            *)

\* A set of natural numbers has a least one.
LEMMA LeastOf ==
  ASSUME NEW S, S \subseteq Nat, S # {}
  PROVE  \E x \in S : \A y \in S : x <= y
<1>1. PICK x \in S : \A y \in S : ~ (<<y, x>> \in OpToRel(<, Nat))
  BY NatLessThanWellFounded, WFMin
<1>2. ASSUME NEW y \in S PROVE x <= y
  <2>1. ~(y < x)
    BY <1>1 DEF OpToRel
  <2>2. QED
    BY <2>1
<1>3. QED
  BY <1>2

\* A month starts where the one before it ends.
LEMMA MonthStarts ==
  \A m \in Months : StartOf[m] = IF m = 1 THEN 1 ELSE StartOf[m - 1] + Lengths[m - 1]
<1> DEFINE Upto(f, n) == f = [m \in 1 .. n |-> IF m = 1 THEN 1 ELSE f[m - 1] + Lengths[m - 1]]
           Stuck == {n \in Nat : \A f : ~Upto(f, n)}
<1>1. \A n \in Nat : n \notin Stuck => \E f : Upto(f, n)
  <2> HIDE DEF Upto
  <2>1. QED
    OBVIOUS
<1>2. Stuck = {}
  <2>1. SUFFICES ASSUME Stuck # {} PROVE FALSE
    OBVIOUS
  <2>2. PICK n \in Stuck : \A y \in Stuck : n <= y
    <3>1. Stuck \subseteq Nat
      OBVIOUS
    <3>2. QED
      BY <2>1, <3>1, LeastOf
  <2>3. CASE n = 0
    <3>1. PICK f : f = [m \in 1 .. 0 |-> 1]
      OBVIOUS
    <3>2. Upto(f, 0)
      BY <3>1
    <3>3. QED
      BY <2>2, <2>3, <3>2
  <2>4. CASE n # 0
    <3>1. n \in Nat /\ n - 1 \in Nat /\ n - 1 \notin Stuck
      <4>1. n \in Nat
        BY <2>2
      <4> HIDE DEF Stuck
      <4>2. QED
        BY <2>2, <2>4, <4>1
    <3>2. PICK g : Upto(g, n - 1)
      <4> HIDE DEF Stuck, Upto
      <4>1. QED
        BY <1>1, <3>1
    <3>3. PICK f : f = [m \in 1 .. n |-> IF m # n THEN g[m] ELSE
                                         IF m = 1 THEN 1 ELSE g[m - 1] + Lengths[m - 1]]
      OBVIOUS
    <3>4. ASSUME NEW m \in 1 .. n
          PROVE  f[m] = IF m = 1 THEN 1 ELSE f[m - 1] + Lengths[m - 1]
      <4>1. CASE m = 1 /\ m = n
        BY <3>3, <4>1
      <4>2. CASE m # 1
        <5>1. f[m - 1] = g[m - 1]
          BY <3>1, <3>3, <4>2
        <5>2. m # n => g[m] = g[m - 1] + Lengths[m - 1]
          BY <3>1, <3>2, <4>2
        <5>3. QED
          BY <3>3, <4>2, <5>1, <5>2
      <4>3. CASE m = 1 /\ m # n
        <5>1. g[m] = 1
          BY <3>1, <3>2, <4>3
        <5>2. QED
          BY <3>3, <4>3, <5>1
      <4>4. QED
        BY <4>1, <4>2, <4>3
    <3>5. Upto(f, n)
      BY <3>3, <3>4
    <3>6. QED
      BY <2>2, <3>5
  <2>5. QED
    BY <2>3, <2>4
<1>3. \E f : Upto(f, Len(Lengths))
  <2>1. Len(Lengths) \in Nat
    BY RecurrencesAssumption
  <2> HIDE DEF Stuck, Upto
  <2>2. QED
    BY <1>1, <1>2, <2>1
<1>4. PICK f : f = CHOOSE g : Upto(g, Len(Lengths))
  OBVIOUS
<1>5. Upto(f, Len(Lengths))
  <2> HIDE DEF Upto
  <2>1. QED
    BY <1>3, <1>4
<1>6. StartOf = f
  BY <1>4 DEF StartOf, Months
<1>7. QED
  BY <1>5, <1>6 DEF Months

\* Every month has days, the first of them numbered from 1.
LEMMA MonthsTyped ==
  /\ Months \subseteq Nat \ {0} /\ Len(Lengths) \in Months /\ 1 \in Months
  /\ \A m \in Months : /\ StartOf[m] \in Nat \ {0} /\ Lengths[m] \in Nat \ {0}
                       /\ m # 1 => m - 1 \in Months
<1>1. Len(Lengths) \in Nat \ {0} /\ \A m \in Months : Lengths[m] \in Nat \ {0}
  BY RecurrencesAssumption DEF Months
<1>2. \A m \in Months : m \in Nat \ {0} /\ (m # 1 => m - 1 \in Months)
  BY <1>1 DEF Months
<1> DEFINE Bad == {m \in Months : StartOf[m] \notin Nat \ {0}}
<1>3. Bad = {}
  <2>1. SUFFICES ASSUME Bad # {} PROVE FALSE
    OBVIOUS
  <2>2. PICK m \in Bad : \A y \in Bad : m <= y
    <3>1. Bad \subseteq Nat
      BY <1>2
    <3>2. QED
      BY <2>1, <3>1, LeastOf
  <2>3. m \in Months /\ m \in Nat \ {0} /\ StartOf[m] \notin Nat \ {0}
    BY <1>2
  <2>4. m # 1
    BY <2>3, MonthStarts
  <2>5. m - 1 \in Months /\ m - 1 \notin Bad
    <3>1. ~(m <= m - 1)
      BY <2>3
    <3>2. m - 1 \in Months
      BY <1>2, <2>3, <2>4
    <3> HIDE DEF Bad
    <3>3. QED
      BY <2>2, <3>1, <3>2
  <2>6. StartOf[m - 1] \in Nat \ {0} /\ Lengths[m - 1] \in Nat \ {0}
    BY <1>1, <2>5
  <2>7. StartOf[m] = StartOf[m - 1] + Lengths[m - 1]
    BY <2>3, <2>4, MonthStarts
  <2>8. QED
    BY <2>3, <2>6, <2>7
<1>4. QED
  BY <1>1, <1>2, <1>3 DEF Months

\* A later month starts after an earlier one ended.
LEMMA MonthsInOrder ==
  ASSUME NEW m \in Months, NEW n \in Months, m < n
  PROVE  StartOf[m] + Lengths[m] <= StartOf[n]
<1> DEFINE Bad == {k \in Months : m < k /\ ~(StartOf[m] + Lengths[m] <= StartOf[k])}
<1>1. Bad = {}
  <2>1. SUFFICES ASSUME Bad # {} PROVE FALSE
    OBVIOUS
  <2>2. PICK k \in Bad : \A y \in Bad : k <= y
    <3>1. Bad \subseteq Nat
      BY MonthsTyped
    <3>2. QED
      BY <2>1, <3>1, LeastOf
  <2>3. k \in Months /\ m < k /\ ~(StartOf[m] + Lengths[m] <= StartOf[k])
    OBVIOUS
  <2>4. m \in Nat \ {0} /\ k \in Nat \ {0} /\ k # 1 /\ k - 1 \in Months
    BY <2>3, MonthsTyped
  <2>5. StartOf[k] = StartOf[k - 1] + Lengths[k - 1]
    BY <2>3, <2>4, MonthStarts
  <2>6. /\ StartOf[m] \in Nat /\ Lengths[m] \in Nat
        /\ StartOf[k - 1] \in Nat /\ Lengths[k - 1] \in Nat
    BY <2>4, MonthsTyped
  <2>7. m < k - 1
    <3>1. m # k - 1
      BY <2>3, <2>5, <2>6
    <3>2. QED
      BY <2>3, <2>4, <3>1
  <2>8. k - 1 \notin Bad
    <3>1. ~(k <= k - 1)
      BY <2>4
    <3> HIDE DEF Bad
    <3>2. QED
      BY <2>2, <3>1
  <2>9. StartOf[m] + Lengths[m] <= StartOf[k - 1]
    BY <2>4, <2>7, <2>8
  <2>10. QED
    BY <2>3, <2>5, <2>6, <2>9
<1>2. QED
  BY <1>1

In(day, m) == m \in Months /\ day \in Int /\ StartOf[m] <= day /\ day < StartOf[m] + Lengths[m]

\* A day is in one month.
LEMMA MonthOfDay ==
  ASSUME NEW day, NEW m, In(day, m)
  PROVE  MonthOf(day) = m
<1>1. ASSUME NEW n \in Months, StartOf[n] <= day, day < StartOf[n] + Lengths[n]
      PROVE  n = m
  <2>1. /\ m \in Nat /\ n \in Nat /\ m \in Months /\ day \in Int
        /\ StartOf[m] \in Nat /\ Lengths[m] \in Nat /\ StartOf[n] \in Nat /\ Lengths[n] \in Nat
    BY MonthsTyped DEF In
  <2>2. ~(m < n)
    BY <1>1, <2>1, MonthsInOrder DEF In
  <2>3. ~(n < m)
    BY <1>1, <2>1, MonthsInOrder DEF In
  <2>4. QED
    BY <2>1, <2>2, <2>3
<1>2. QED
  BY <1>1 DEF In, MonthOf

\* A day of the calendar is in the month it is said to be.
LEMMA DaysHaveMonths ==
  ASSUME NEW day \in 1 .. LastDay
  PROVE  In(day, MonthOf(day))
<1> DEFINE Open == {n \in Months : day < StartOf[n] + Lengths[n]}
<1>1. day \in Int /\ 1 <= day /\ day < StartOf[Len(Lengths)] + Lengths[Len(Lengths)]
  BY MonthsTyped DEF LastDay
<1>2. Len(Lengths) \in Open
  BY <1>1, MonthsTyped
<1>3. PICK n \in Open : \A y \in Open : n <= y
  <2>1. Open \subseteq Nat
    BY MonthsTyped
  <2>2. QED
    BY <1>2, <2>1, LeastOf
<1>4. n \in Months /\ n \in Nat \ {0} /\ day < StartOf[n] + Lengths[n]
  BY MonthsTyped
<1>5. StartOf[n] <= day
  <2>1. CASE n = 1
    BY <1>1, <1>4, <2>1, MonthStarts
  <2>2. CASE n # 1
    <3>1. n - 1 \in Months /\ ~(n <= n - 1)
      BY <1>4, <2>2, MonthsTyped
    <3>2. n - 1 \notin Open
      <4> HIDE DEF Open
      <4>1. QED
        BY <1>3, <3>1
    <3>3. StartOf[n] = StartOf[n - 1] + Lengths[n - 1]
      BY <1>4, <2>2, MonthStarts
    <3>4. StartOf[n - 1] \in Nat /\ Lengths[n - 1] \in Nat
      BY <3>1, MonthsTyped
    <3>5. QED
      BY <1>1, <3>1, <3>2, <3>3, <3>4
  <2>3. QED
    BY <2>1, <2>2
<1>6. In(day, n)
  BY <1>1, <1>4, <1>5 DEF In
<1>7. QED
  BY <1>6, MonthOfDay

\* An occurrence stays in its month, whatever day it is due on.
LEMMA OccurrenceInMonth ==
  ASSUME NEW m \in Months, NEW day \in Nat \ {0}
  PROVE  In(OccurrenceDate(m, day), m)
<1>1. StartOf[m] \in Nat /\ Lengths[m] \in Nat \ {0}
  BY MonthsTyped
<1>2. PICK least : least = Min({day, Lengths[m]})
  OBVIOUS
<1>3. least \in {day, Lengths[m]} /\ \A y \in {day, Lengths[m]} : least <= y
  <2>1. \E x \in {day, Lengths[m]} : \A y \in {day, Lengths[m]} : x <= y
    BY <1>1
  <2>2. QED
    BY <1>2, <2>1 DEF Min
<1>4. least \in Nat \ {0} /\ least <= Lengths[m]
  BY <1>1, <1>3
<1>5. QED
  BY <1>1, <1>2, <1>4 DEF In, OccurrenceDate

LEMMA LastDayTyped == LastDay \in Nat
BY MonthsTyped DEF LastDay

\* The occurrences of a period are days of it.
LEMMA OccurrencesAreDays ==
  ASSUME NEW s, NEW from \in Int, NEW to \in Int
  PROVE  OccurrencesInRange(s, from, to) \subseteq from .. to /\ OccurrencesInRange(s, from, to) \subseteq Int
BY DEF OccurrencesInRange

\* The provider dates a transaction on a day of the calendar.
LEMMA DatesTyped ==
  ASSUME NEW t \in Transactions
  PROVE  1 \in DOMAIN OccurredOn[t] /\ \A k \in DOMAIN OccurredOn[t] : OccurredOn[t][k] \in 1 .. LastDay
<1>1. PICK dates, S : dates = OccurredOn[t] /\ S = 1 .. LastDay
  OBVIOUS
<1>2. dates \in Seq(S) /\ dates # <<>>
  BY <1>1, CalendarAssumption
<1>3. 1 \in DOMAIN dates /\ \A k \in DOMAIN dates : dates[k] \in S
  BY <1>2
<1>4. QED
  BY <1>1, <1>3

-----------------------------------------------------------------------------
(* The inductive invariant                                                 *)

Decision == [of : Commitments, date : Int, tx : Transactions \cup {None}]
AnyRule == Rules \cup {[x EXCEPT !.active = FALSE] : x \in Rules} \cup {NoRule}

Typed ==
  /\ commitment \in [Commitments -> Schedule \cup {NoCommitment}]
  /\ rule \in [Commitments -> AnyRule]
  /\ tx \in [Transactions -> [day : 1 .. LastDay, category : Categories, ignored : BOOLEAN]]
  /\ override \subseteq Decision
  /\ req \in [Requests -> Decision \cup {Idle}]

\* An occurrence has one decision, and a transaction carries one occurrence.
OneDecision == \A x, y \in override : x.of = y.of /\ x.date = y.date => x = y
OneCarried == \A x, y \in override : x.tx = y.tx /\ x.tx # None => x = y

Inv == Typed /\ TypeOK /\ OneDecision /\ OneCarried

LEMMA SchedulesExist == \A s \in Schedule : s # NoCommitment /\ s.day \in Nat \ {0}
<1>1. ASSUME NEW s \in Schedule PROVE s # NoCommitment
  <2>1. "day" \in DOMAIN s
    BY DEF Schedule
  <2>2. "day" \notin DOMAIN NoCommitment
    BY DEF NoCommitment
  <2>3. QED
    BY <2>1, <2>2
<1>2. QED
  BY <1>1 DEF Schedule

LEMMA InitInv == Init => Inv
<1> SUFFICES ASSUME Init PROVE Inv
  OBVIOUS
<1>1. commitment \in [Commitments -> Schedule \cup {NoCommitment}]
  BY RecurrencesAssumption DEF Init
<1>2. rule \in [Commitments -> AnyRule] /\ \A c \in Commitments : Targeted(c) => Exists(c)
  <2>1. PICK r \in Rules : rule = [c \in Commitments |-> IF Exists(c) THEN r ELSE NoRule]
    BY DEF Init
  <2>2. QED
    BY <2>1 DEF AnyRule, Targeted, NoRule
<1>3. tx \in [Transactions -> [day : 1 .. LastDay, category : Categories, ignored : BOOLEAN]]
  <2>1. PICK category \in [Transactions -> Categories] :
          tx = [t \in Transactions |->
                  [day |-> OccurredOn[t][1], category |-> category[t], ignored |-> FALSE]]
    BY DEF Init
  <2>2. \A t \in Transactions : OccurredOn[t][1] \in 1 .. LastDay
    BY DatesTyped
  <2>3. QED
    BY <2>1, <2>2
<1>4. override = {} /\ req \in [Requests -> Decision \cup {Idle}]
  BY DEF Init
<1>5. QED
  BY <1>1, <1>2, <1>3, <1>4 DEF Inv, Typed, TypeOK, OneDecision, OneCarried

\* Fewer decisions on as many commitments fit together as those before did.
LEMMA FewerDecisions ==
  ASSUME Inv, override' \subseteq override, \A o \in override' : Exists(o.of)'
  PROVE  (override \subseteq Decision /\ OneDecision /\ OneCarried)'
         /\ \A o \in override' : Exists(o.of)' /\ o.tx \in Transactions \cup {None}
BY DEF Inv, Typed, TypeOK, OneDecision, OneCarried

\* A commitment comes, changes, is switched or goes; so does its rule.
LEMMA CommitmentStep ==
  ASSUME Inv, NEW c \in Commitments,
         Create(c) \/ Update(c) \/ SetActive(c) \/ Delete(c) \/ SetRule(c)
  PROVE  Inv'
<1>1. CASE Create(c) \/ Update(c) \/ SetActive(c)
  <2>1. PICK s \in Schedule : commitment' = [commitment EXCEPT ![c] = s]
    <3>1. CASE Create(c) \/ Update(c)
      BY <3>1, RecurrencesAssumption DEF Create, Update
    <3>2. CASE SetActive(c)
      <4>1. commitment[c] \in Schedule
        BY <3>2 DEF SetActive, Exists, Inv, Typed
      <4>2. [commitment[c] EXCEPT !.active = ~@] \in Schedule
        BY <4>1 DEF Schedule
      <4>3. commitment' = [commitment EXCEPT ![c] = [commitment[c] EXCEPT !.active = ~@]]
        BY <3>2 DEF SetActive
      <4>4. QED
        BY <4>2, <4>3
    <3>3. QED
      BY <1>1, <3>1, <3>2
  <2>2. UNCHANGED <<rule, tx, override, req>>
    BY <1>1 DEF Create, Update, SetActive
  <2>3. commitment' \in [Commitments -> Schedule \cup {NoCommitment}]
    BY <2>1 DEF Inv, Typed
  <2>4. \A x \in Commitments : Exists(x) => Exists(x)'
    BY <2>1, SchedulesExist DEF Exists, Inv, Typed
  <2>5. \A o \in override' : Exists(o.of)'
    BY <2>2, <2>4 DEF Inv, Typed, TypeOK, Decision
  <2>6. QED
    BY <2>2, <2>3, <2>4, <2>5, FewerDecisions DEF Inv, Typed, TypeOK, Targeted
<1>2. CASE Delete(c)
  <2>1. /\ commitment' = [commitment EXCEPT ![c] = NoCommitment] /\ rule[c] = NoRule
        /\ override' = {o \in override : o.of # c} /\ UNCHANGED <<rule, tx, req>>
    BY <1>2 DEF Delete
  <2>2. \A x \in Commitments \ {c} : Exists(x) => Exists(x)'
    BY <2>1 DEF Exists, Inv, Typed
  <2>3. \A o \in override' : Exists(o.of)'
    BY <2>1, <2>2 DEF Inv, Typed, TypeOK, Decision
  <2>4. \A x \in Commitments : Targeted(x)' => Exists(x)'
    BY <2>1, <2>2 DEF Inv, TypeOK, Targeted, NoRule
  <2>5. QED
    BY <2>1, <2>3, <2>4, FewerDecisions DEF Inv, Typed, TypeOK
<1>3. CASE SetRule(c)
  <2>1. PICK r \in AnyRule : rule' = [rule EXCEPT ![c] = r]
    BY <1>3 DEF SetRule, AnyRule
  <2>2. Exists(c) /\ UNCHANGED <<commitment, tx, override, req>>
    BY <1>3 DEF SetRule
  <2>3. \A x \in Commitments : Targeted(x)' => Exists(x)'
    BY <2>1, <2>2 DEF Inv, Typed, TypeOK, Targeted, Exists
  <2>4. \A o \in override' : Exists(o.of)'
    BY <2>2 DEF Inv, Typed, TypeOK, Exists
  <2>5. QED
    BY <2>1, <2>2, <2>3, <2>4, FewerDecisions DEF Inv, Typed, TypeOK
<1>4. QED
  BY <1>1, <1>2, <1>3

\* A transaction gets another category or date, is ignored or considered.
LEMMA TransactionStep ==
  ASSUME Inv, NEW t \in Transactions, SetCategory(t) \/ Ignore(t) \/ Consider(t) \/ Redate(t)
  PROVE  Inv'
<1>1. tx' \in [Transactions -> [day : 1 .. LastDay, category : Categories, ignored : BOOLEAN]]
  <2>1. tx \in [Transactions -> [day : 1 .. LastDay, category : Categories, ignored : BOOLEAN]]
    BY DEF Inv, Typed
  <2>2. CASE SetCategory(t)
    BY <2>1, <2>2 DEF SetCategory
  <2>3. CASE Ignore(t) \/ Consider(t)
    BY <2>1, <2>3 DEF Ignore, Consider
  <2>4. CASE Redate(t)
    <3>1. PICK k \in DOMAIN OccurredOn[t] : tx' = [tx EXCEPT ![t].day = OccurredOn[t][k]]
      BY <2>4 DEF Redate
    <3>2. OccurredOn[t][k] \in 1 .. LastDay
      BY DatesTyped
    <3>3. QED
      BY <2>1, <3>1, <3>2
  <2>5. QED
    BY <2>2, <2>3, <2>4
<1>2. UNCHANGED <<commitment, rule, req>> /\ override' \subseteq override
  BY DEF SetCategory, Ignore, Consider, Redate
<1>3. /\ \A c \in Commitments : Targeted(c)' => Exists(c)'
      /\ \A o \in override' : Exists(o.of)'
  BY <1>2 DEF Inv, TypeOK, Targeted, Exists
<1>4. QED
  BY <1>1, <1>2, <1>3, FewerDecisions DEF Inv, Typed, TypeOK

\* A decision is checked, written in the place of the one before, or dropped.
LEMMA DecisionStep ==
  ASSUME Inv,
         \/ \E r \in Requests : CheckOverride(r) \/ PutOverride(r)
         \/ \E o \in override : DeleteOverride(o)
  PROVE  Inv'
<1>1. UNCHANGED <<commitment, rule, tx>>
  BY DEF CheckOverride, PutOverride, DeleteOverride
<1>2. \A c \in Commitments : (Exists(c) <=> Exists(c)') /\ (Targeted(c) <=> Targeted(c)')
  BY <1>1 DEF Exists, Targeted
<1>3. CASE \E r \in Requests : CheckOverride(r)
  <2>1. PICK r \in Requests : CheckOverride(r)
    BY <1>3
  <2>2. PICK c \in Commitments :
          \E d \in OccurrencesInRange(commitment[c], 1, LastDay) : \E t \in {None} \cup Transactions :
            req' = [req EXCEPT ![r] = [of |-> c, date |-> d, tx |-> t]]
    BY <2>1 DEF CheckOverride
  <2>3. PICK d \in OccurrencesInRange(commitment[c], 1, LastDay) :
          \E t \in {None} \cup Transactions : req' = [req EXCEPT ![r] = [of |-> c, date |-> d, tx |-> t]]
    BY <2>2
  <2>4. d \in Int
    BY LastDayTyped, OccurrencesAreDays
  <2>5. req' \in [Requests -> Decision \cup {Idle}] /\ override' = override
    BY <2>1, <2>3, <2>4 DEF Inv, Typed, Decision, CheckOverride
  <2>6. QED
    BY <1>1, <1>2, <2>5, FewerDecisions DEF Inv, Typed, TypeOK, Decision
<1>4. CASE \E r \in Requests : PutOverride(r)
  <2>1. PICK r \in Requests : PutOverride(r)
    BY <1>4
  <2>2. PICK q : q = req[r]
    OBVIOUS
  <2>3. q \in Decision /\ req' \in [Requests -> Decision \cup {Idle}]
    BY <2>1, <2>2 DEF PutOverride, Inv, Typed
  <2>4. override' = IF Exists(q.of) /\ ~CarriedElsewhere(q) THEN Others(q) \cup {q} ELSE override
    BY <2>1, <2>2 DEF PutOverride
  <2>5. CASE Exists(q.of) /\ ~CarriedElsewhere(q)
    <3>1. override' = Others(q) \cup {q}
      BY <2>4, <2>5
    <3>2. OneDecision'
      BY <3>1 DEF OneDecision, Others, Inv
    <3>3. OneCarried'
      BY <2>5, <3>1 DEF OneCarried, Others, CarriedElsewhere, Inv
    <3>4. override' \subseteq Decision
      BY <2>3, <3>1 DEF Others, Inv, Typed
    <3>5. \A o \in override' : Exists(o.of)' /\ o.tx \in Transactions \cup {None}
      BY <1>2, <2>3, <2>5, <3>1, <3>4 DEF Others, Inv, TypeOK, Decision
    <3>6. QED
      BY <1>1, <1>2, <2>3, <3>2, <3>3, <3>4, <3>5 DEF Inv, Typed, TypeOK
  <2>6. CASE ~(Exists(q.of) /\ ~CarriedElsewhere(q))
    <3>1. override' = override
      BY <2>4, <2>6
    <3>2. QED
      BY <1>1, <1>2, <2>3, <3>1, FewerDecisions DEF Inv, Typed, TypeOK, Decision
  <2>7. QED
    BY <2>5, <2>6
<1>5. CASE \E o \in override : DeleteOverride(o)
  <2>1. override' \subseteq override /\ req' = req
    BY <1>5 DEF DeleteOverride
  <2>2. QED
    BY <1>1, <1>2, <2>1, FewerDecisions DEF Inv, Typed, TypeOK, Decision
<1>6. QED
  BY <1>3, <1>4, <1>5

LEMMA NextStep == Inv /\ [Next]_vars => Inv'
<1> SUFFICES ASSUME Inv, [Next]_vars PROVE Inv'
  OBVIOUS
<1>1. CASE Next
  BY <1>1, CommitmentStep, TransactionStep, DecisionStep DEF Next
<1>2. CASE UNCHANGED vars
  BY <1>2 DEF Inv, Typed, TypeOK, OneDecision, OneCarried, Targeted, Exists
<1>3. QED
  BY <1>1, <1>2

\* In every state, an occurrence has one decision at most, a transaction is
\* picked by hand for one, and both are of commitments that exist.
THEOREM Inductive == Spec => []Inv
<1>1. QED
  BY InitInv, NextStep, PTL DEF Spec

\* No rule and no decision outlives its commitment.
THEOREM TypeCorrect == Spec => []TypeOK
<1>1. Inv => TypeOK
  BY DEF Inv
<1>2. QED
  BY <1>1, Inductive, PTL

-----------------------------------------------------------------------------
(* The two readers                                                         *)

\* What the Timeline and the occurrence screen derive of an occurrence of an
\* active commitment is the same, whatever the period (ScreensAgree).
THEOREM SameOnBothScreens == Spec => []ScreensAgree
<1>1. Inv => ScreensAgree
  <2> SUFFICES ASSUME Inv, NEW w \in Windows, NEW c \in Commitments, commitment[c].active
               PROVE  LET line == RecurringProjections(c, w[1], w[2])
                          screen == OccurrenceScreen(c, w[1], w[2])
                      IN /\ DOMAIN line = DOMAIN screen
                         /\ \A d \in DOMAIN line :
                              /\ line[d].tx = screen[d].tx
                              /\ line[d].detached = screen[d].detached
                              /\ line[d].tx # None => line[d].origin = screen[d].origin
    BY DEF ScreensAgree
  <2>1. PICK manual : manual = ListOverrides(c, w[1] - Reach, w[2] + Reach)
    OBVIOUS
  <2>2. PICK items : items = RealItems(w[1] - Reach, w[2] + Reach)
    OBVIOUS
  <2>3. PICK dates : dates = OccurrencesInRange(commitment[c], w[1], w[2])
    OBVIOUS
  <2> DEFINE Told(o) == Resolved(o.tx, "manual", o.tx = None)
  <2>4. OccurrenceScreen(c, w[1], w[2]) = [d \in dates |-> Resolve(c, manual, items, d)]
    BY <2>1, <2>2, <2>3 DEF OccurrenceScreen, Occurrences
  <2>5. RecurringProjections(c, w[1], w[2]) =
          [d \in dates |->
             IF \E o \in manual : o.date = d THEN Told(CHOOSE o \in manual : o.date = d)
             ELSE IF Targeted(c) THEN Resolve(c, manual, items, d) ELSE Unreconciled]
    BY <2>1, <2>2, <2>3 DEF RecurringProjections, ManualLinks
  <2>6. ASSUME NEW d \in dates, NEW o \in manual, o.date = d
        PROVE  /\ Resolve(c, manual, items, d) = Decided(o)
               /\ (CHOOSE x \in manual : x.date = d) = o
    <3>1. \A x \in manual : x.date = d => x = o
      BY <2>1, <2>6 DEF ListOverrides, Inv, OneDecision
    <3>2. (CHOOSE x \in manual : x.date = d) = o
      BY <2>6, <3>1
    <3>3. {x \in manual : x.date = d} = {o}
      BY <2>6, <3>1
    <3>4. (CHOOSE x \in {o} : TRUE) = o
      OBVIOUS
    <3>5. QED
      BY <3>2, <3>3, <3>4 DEF Resolve
  <2>7. ASSUME NEW d \in dates, \A o \in manual : o.date # d, ~Targeted(c)
        PROVE  Resolve(c, manual, items, d) = Unreconciled
    <3>1. {x \in manual : x.date = d} = {}
      BY <2>7
    <3>2. QED
      BY <2>7, <3>1 DEF Resolve
  <2>8. \A o : /\ Told(o).tx = Decided(o).tx /\ Told(o).detached = Decided(o).detached
               /\ Told(o).tx # None => Told(o).origin = Decided(o).origin
    BY DEF Decided, Resolved
  <2>9. ASSUME NEW d \in dates, NEW a, a = RecurringProjections(c, w[1], w[2])[d],
               NEW b, b = OccurrenceScreen(c, w[1], w[2])[d]
        PROVE  a.tx = b.tx /\ a.detached = b.detached /\ (a.tx # None => a.origin = b.origin)
    <3>1. b = Resolve(c, manual, items, d)
      BY <2>4, <2>9
    <3>2. CASE \E o \in manual : o.date = d
      <4>1. PICK o \in manual : o.date = d
        BY <3>2
      <4>2. b = Decided(o) /\ a = Told(o)
        BY <2>5, <2>6, <2>9, <3>1, <4>1
      <4> HIDE DEF Told
      <4>3. QED
        BY <2>8, <4>2
    <3>3. CASE \A o \in manual : o.date # d
      <4>1. a = b
        BY <2>5, <2>7, <2>9, <3>1, <3>3
      <4>2. QED
        BY <4>1
    <3>4. QED
      BY <3>2, <3>3
  <2>10. DOMAIN RecurringProjections(c, w[1], w[2]) = dates /\ DOMAIN OccurrenceScreen(c, w[1], w[2]) = dates
    BY <2>4, <2>5
  <2>11. QED
    BY <2>9, <2>10
<1>2. QED
  BY <1>1, Inductive, PTL

\* The rule picks one of the transactions it may, the first of them.
LEMMA FirstMatch ==
  ASSUME Inv, NEW r, NEW free, free \subseteq Transactions,
         NEW t, t = ResolveOccurrence(r, free), t # None
  PROVE  t \in free
<1> DEFINE matching == {x \in free : Matches(r, x)}
           Before(x, y) == tx[x].day < tx[y].day \/ (tx[x].day = tx[y].day /\ x <= y)
<1>1. t = IF matching = {} THEN None ELSE CHOOSE x \in matching : \A u \in matching : Before(x, u)
  BY DEF ResolveOccurrence
<1>2. matching # {}
  BY <1>1
<1>3. \A x \in matching : x \in Nat /\ tx[x].day \in Nat
  BY RecurrencesAssumption, LastDayTyped DEF Inv, Typed
<1> HIDE DEF matching
<1>4. PICK first \in {tx[x].day : x \in matching} : \A y \in {tx[x].day : x \in matching} : first <= y
  <2>1. {tx[x].day : x \in matching} # {} /\ {tx[x].day : x \in matching} \subseteq Nat
    BY <1>2, <1>3
  <2>2. QED
    BY <2>1, LeastOf
<1>5. PICK x \in {y \in matching : tx[y].day = first} : \A u \in {y \in matching : tx[y].day = first} : x <= u
  <2>1. {y \in matching : tx[y].day = first} # {} /\ {y \in matching : tx[y].day = first} \subseteq Nat
    BY <1>3, <1>4
  <2>2. QED
    BY <2>1, LeastOf
<1>6. ASSUME NEW u \in matching PROVE Before(x, u)
  <2>1. first <= tx[u].day /\ tx[x].day = first /\ first \in Nat /\ tx[u].day \in Nat
    BY <1>3, <1>4, <1>5
  <2>2. CASE tx[u].day = first
    BY <1>5, <2>1, <2>2
  <2>3. CASE tx[u].day # first
    BY <2>1, <2>3
  <2>4. QED
    BY <2>2, <2>3
<1>7. x \in matching
  BY <1>5
<1> HIDE DEF Before
<1>8. t \in matching
  BY <1>1, <1>2, <1>6, <1>7
<1>9. QED
  BY <1>8 DEF matching

\* What an occurrence is realized by was picked by hand for it, or is a
\* transaction of its month that the decisions read do not hold.
LEMMA RealizedBy ==
  ASSUME Inv, NEW c \in Commitments, NEW w \in Windows, NEW d \in DOMAIN OccurrenceScreen(c, w[1], w[2]),
         NEW t, t = OccurrenceScreen(c, w[1], w[2])[d].tx, t # None
  PROVE  \/ \E o \in override : o.of = c /\ o.date = d /\ o.tx = t
         \/ /\ MonthOf(tx[t].day) = MonthOf(d) /\ t \in Transactions
            /\ \A o \in ListOverrides(c, w[1] - Reach, w[2] + Reach) : o.tx # t
<1>1. PICK decisions : decisions = ListOverrides(c, w[1] - Reach, w[2] + Reach)
  OBVIOUS
<1>2. PICK items : items = RealItems(w[1] - Reach, w[2] + Reach)
  OBVIOUS
<1>3. t = Resolve(c, decisions, items, d).tx
  BY <1>1, <1>2 DEF OccurrenceScreen
<1> DEFINE here == {o \in decisions : o.date = d}
<1>4. CASE here # {}
  <2>1. PICK o : o = CHOOSE x \in here : TRUE
    OBVIOUS
  <2>2. o \in here
    BY <1>4, <2>1
  <2>3. Resolve(c, decisions, items, d) = Decided(o)
    BY <1>4, <2>1 DEF Resolve
  <2>4. o.tx = t
    BY <1>3, <2>3 DEF Decided, Resolved
  <2>5. QED
    BY <1>1, <2>2, <2>4 DEF ListOverrides
<1>5. CASE here = {}
  <2>1. PICK candidates : candidates = CandidatesByMonth(c, items, MonthOf(d))
    OBVIOUS
  <2>2. PICK free : free = Available(candidates, decisions)
    OBVIOUS
  <2>3. PICK found : found = ResolveOccurrence(rule[c], free)
    OBVIOUS
  <2>4. found = t
    BY <1>3, <1>5, <2>1, <2>2, <2>3 DEF Resolve, Unreconciled, Resolved
  <2>5. t \in free
    <3>1. free \subseteq Transactions
      BY <1>2, <2>1, <2>2 DEF Available, CandidatesByMonth, RealItems
    <3>2. QED
      BY <2>3, <2>4, <3>1, FirstMatch
  <2>6. t \in candidates /\ \A o \in decisions : o.tx # t
    BY <2>2, <2>5 DEF Available
  <2>7. MonthOf(tx[t].day) = MonthOf(d) /\ t \in Transactions
    BY <1>2, <2>1, <2>6 DEF CandidatesByMonth, RealItems
  <2>8. QED
    BY <1>1, <2>6, <2>7
<1>6. QED
  BY <1>4, <1>5

\* The occurrences shown are days of the period, one a month.
LEMMA OccurrenceDates ==
  ASSUME Inv, NEW c \in Commitments, commitment[c].active, NEW w \in Windows,
         NEW d \in DOMAIN OccurrenceScreen(c, w[1], w[2])
  PROVE  /\ d \in w[1] .. w[2] /\ In(d, MonthOf(d))
         /\ d = OccurrenceDate(MonthOf(d), commitment[c].day)
<1>1. d \in OccurrencesInRange(commitment[c], w[1], w[2])
  BY DEF OccurrenceScreen, Occurrences
<1>2. PICK m \in Months : d = OccurrenceDate(m, commitment[c].day)
  BY <1>1 DEF OccurrencesInRange
<1>3. commitment[c].day \in Nat \ {0}
  <2>1. commitment[c] \in Schedule \cup {NoCommitment}
    BY DEF Inv, Typed
  <2>2. commitment[c] # NoCommitment
    BY DEF NoCommitment
  <2>3. QED
    BY <2>1, <2>2, SchedulesExist
<1>4. In(d, m)
  BY <1>2, <1>3, OccurrenceInMonth
<1>5. MonthOf(d) = m
  BY <1>4, MonthOfDay
<1>6. d \in w[1] .. w[2]
  BY <1>1 DEF OccurrencesInRange
<1>7. QED
  BY <1>2, <1>4, <1>5, <1>6

\* A period begins and ends on a day of the calendar.
LEMMA PeriodTyped ==
  ASSUME NEW w \in Windows
  PROVE  w[1] \in Int /\ w[2] \in Int /\ w[1] \in 1 .. LastDay /\ w[2] \in 1 .. LastDay
BY CalendarAssumption, LastDayTyped

\* The days of a month are within reach of every period that has one of them.
LEMMA SameMonthNear ==
  ASSUME NEW w \in Windows, NEW k, NEW d \in w[1] .. w[2], In(d, k), NEW day, In(day, k)
  PROVE  day \in (w[1] - Reach) .. (w[2] + Reach)
<1>1. /\ k \in Months /\ StartOf[k] \in Nat /\ Lengths[k] \in Nat /\ Lengths[k] <= Reach
      /\ Reach \in Nat /\ w[1] \in Int /\ w[2] \in Int
  BY MonthsTyped, PeriodTyped, RecurrencesAssumption, CalendarAssumption DEF In
<1>2. /\ d \in Int /\ w[1] <= d /\ d <= w[2]
      /\ StartOf[k] <= d /\ d < StartOf[k] + Lengths[k]
      /\ day \in Int /\ StartOf[k] <= day /\ day < StartOf[k] + Lengths[k]
  BY <1>1 DEF In
<1>3. QED
  BY <1>1, <1>2

\* A rule does not claim what is held by hand near its occurrence: the decision
\* is among those read around a period that has a day of the payment's month.
LEMMA HeldByHand ==
  ASSUME Inv, NEW c \in Commitments, NEW w \in Windows,
         NEW e \in w[1] .. w[2], In(e, MonthOf(e)),
         NEW t \in Transactions, MonthOf(tx[t].day) = MonthOf(e),
         NEW o \in override, o.of = c, o.tx = t, PickedNear(o)
  PROVE  o \in ListOverrides(c, w[1] - Reach, w[2] + Reach)
<1>1. PICK m : m = MonthOf(e)
  OBVIOUS
<1>2. /\ m \in Months /\ StartOf[m] \in Nat /\ Lengths[m] \in Nat
      /\ e \in Int /\ StartOf[m] <= e /\ e <= StartOf[m] + Lengths[m] - 1
      /\ Reach \in Nat /\ o.date \in Int /\ w[1] \in Int /\ w[2] \in Int
  <2>1. In(e, m)
    BY <1>1
  <2>2. m \in Months /\ StartOf[m] \in Nat /\ Lengths[m] \in Nat
    BY <2>1, MonthsTyped DEF In
  <2>3. Reach \in Nat /\ o.date \in Int /\ w[1] \in Int /\ w[2] \in Int
    BY RecurrencesAssumption, PeriodTyped DEF Inv, Typed, Decision
  <2>4. QED
    BY <2>1, <2>2, <2>3 DEF In
<1>3. o.date \in (StartOf[m] + Lengths[m] - 1 - Reach) .. (StartOf[m] + Reach)
  BY <1>1 DEF PickedNear
<1>4. o.date \in (w[1] - Reach) .. (w[2] + Reach)
  BY <1>2, <1>3
<1>5. QED
  BY <1>4 DEF ListOverrides

\* One payment realizes one occurrence of a commitment, in whatever periods
\* two reads look at it, unless it was picked by hand out of reach
\* (OneOccurrencePerPayment).
THEOREM PaymentsRealizeOnce == Spec => []OneOccurrencePerPayment
<1>1. Inv => OneOccurrencePerPayment
  <2> SUFFICES ASSUME Inv, NEW c \in Commitments, commitment[c].active,
                      NEW v \in Windows, NEW w \in Windows,
                      NEW d \in DOMAIN OccurrenceScreen(c, v[1], v[2]),
                      NEW e \in DOMAIN OccurrenceScreen(c, w[1], w[2]),
                      OccurrenceScreen(c, v[1], v[2])[d].tx = OccurrenceScreen(c, w[1], w[2])[e].tx,
                      OccurrenceScreen(c, v[1], v[2])[d].tx # None,
                      \A o \in override : o.tx = OccurrenceScreen(c, v[1], v[2])[d].tx => PickedNear(o)
               PROVE  d = e
    BY DEF OneOccurrencePerPayment
  <2>1. PICK t : t = OccurrenceScreen(c, v[1], v[2])[d].tx
    OBVIOUS
  <2> DEFINE ByHand(x) == \E o \in override : o.of = c /\ o.date = x /\ o.tx = t
             ByRule(x, p) == /\ MonthOf(tx[t].day) = MonthOf(x) /\ t \in Transactions
                             /\ \A o \in ListOverrides(c, p[1] - Reach, p[2] + Reach) : o.tx # t
  <2>2. (ByHand(d) \/ ByRule(d, v)) /\ (ByHand(e) \/ ByRule(e, w))
    <3>1. t = OccurrenceScreen(c, w[1], w[2])[e].tx /\ t # None
      BY <2>1
    <3>2. ByHand(d) \/ ByRule(d, v)
      BY <2>1, <3>1, RealizedBy
    <3>3. ByHand(e) \/ ByRule(e, w)
      BY <3>1, RealizedBy
    <3>4. QED
      BY <3>2, <3>3
  <2>3. /\ d \in v[1] .. v[2] /\ In(d, MonthOf(d)) /\ d = OccurrenceDate(MonthOf(d), commitment[c].day)
        /\ e \in w[1] .. w[2] /\ In(e, MonthOf(e)) /\ e = OccurrenceDate(MonthOf(e), commitment[c].day)
    BY OccurrenceDates
  <2>4. CASE ByHand(d) /\ ByHand(e)
    BY <2>1, <2>4 DEF Inv, OneCarried
  <2>5. CASE ByRule(d, v) /\ ByRule(e, w)
    BY <2>3, <2>5
  <2>6. \A o \in override : o.tx = t => PickedNear(o)
    BY <2>1
  <2>7. ~(ByHand(d) /\ ByRule(e, w))
    BY <2>3, <2>6, HeldByHand
  <2>8. ~(ByRule(d, v) /\ ByHand(e))
    BY <2>3, <2>6, HeldByHand
  <2>9. QED
    BY <2>2, <2>4, <2>5, <2>7, <2>8
<1>2. QED
  BY <1>1, Inductive, PTL

-----------------------------------------------------------------------------
(* Sums: induction over finite sets, by the smallest counterexample        *)

\* Of finite sets, one has the fewest elements.
LEMMA SmallestOf ==
  ASSUME NEW F, F # {}, \A S \in F : IsFiniteSet(S)
  PROVE  \E S \in F : \A T \in F : Cardinality(S) <= Cardinality(T)
<1> DEFINE N == {Cardinality(S) : S \in F}
<1>1. N \subseteq Nat /\ N # {}
  BY FS_CardinalityType
<1>2. PICK n \in N : \A y \in N : ~ (<<y, n>> \in OpToRel(<, Nat))
  BY <1>1, NatLessThanWellFounded, WFMin
<1>3. \A y \in N : n <= y
  <2> SUFFICES ASSUME NEW y \in N PROVE n <= y
    OBVIOUS
  <2>1. ~(y < n)
    BY <1>1, <1>2 DEF OpToRel
  <2>2. y \in Nat /\ n \in Nat
    BY <1>1, <1>2
  <2> HIDE DEF N
  <2>3. QED
    BY <2>1, <2>2
<1>4. PICK S \in F : n = Cardinality(S)
  BY <1>2
<1>5. \A T \in F : Cardinality(S) <= Cardinality(T)
  BY <1>3, <1>4
<1>6. QED
  BY <1>5

\* Removing an element of a finite set leaves a smaller one.
LEMMA Smaller ==
  ASSUME NEW S, IsFiniteSet(S), NEW x \in S
  PROVE  /\ IsFiniteSet(S \ {x})
         /\ Cardinality(S) \in Nat /\ Cardinality(S \ {x}) \in Nat
         /\ Cardinality(S \ {x}) = Cardinality(S) - 1
         /\ ~ (Cardinality(S) <= Cardinality(S \ {x}))
<1>1. /\ IsFiniteSet(S \ {x}) /\ Cardinality(S \ {x}) = Cardinality(S) - 1
  BY FS_RemoveElement
<1>2. Cardinality(S) \in Nat /\ Cardinality(S \ {x}) \in Nat
  BY <1>1, FS_CardinalityType
<1>3. QED
  BY <1>1, <1>2

\* The element a sum takes next, what a function must be to sum f over the
\* subsets of S, and the sum.
OneOf(s) == CHOOSE k \in s : TRUE
Sums(g, f, S) == g = [s \in SUBSET S |-> IF s = {} THEN 0 ELSE f[OneOf(s)] + g[s \ {OneOf(s)}]]
SumOf(f, S) == (CHOOSE g : Sums(g, f, S))[S]

LEMMA SumsExist ==
  ASSUME NEW f, NEW S, IsFiniteSet(S)
  PROVE  \E g : Sums(g, f, S)
<1> DEFINE Turn(g, s) == IF s = {} THEN 0 ELSE f[OneOf(s)] + g[s \ {OneOf(s)}]
           Good(g, R) == g = [s \in SUBSET S |-> g[s]] /\ \A s \in SUBSET S : Cardinality(s) <= Cardinality(R) => g[s] = Turn(g, s)
           Bad == {R \in SUBSET S : \A g : ~Good(g, R)}
<1>1. \A R \in SUBSET S : IsFiniteSet(R) /\ Cardinality(R) \in Nat
  BY FS_Subset, FS_CardinalityType
<1>2. Bad = {}
  <2>1. SUFFICES ASSUME Bad # {} PROVE FALSE
    OBVIOUS
  <2>2. PICK R \in Bad : \A T \in Bad : Cardinality(R) <= Cardinality(T)
    BY <1>1, <2>1, SmallestOf
  <2>3. CASE R = {}
    <3>1. PICK g : g = [s \in SUBSET S |-> 0]
      OBVIOUS
    <3>2. ASSUME NEW s \in SUBSET S, Cardinality(s) <= Cardinality(R)
          PROVE  g[s] = Turn(g, s)
      <4>1. s = {}
        BY <1>1, <2>3, <3>2, FS_EmptySet
      <4>2. QED
        BY <3>1, <4>1
    <3>3. g = [s \in SUBSET S |-> g[s]]
      BY <3>1
    <3>4. Good(g, R)
      BY <3>2, <3>3
    <3>5. QED
      BY <2>2, <3>4
  <2>4. CASE R # {}
    <3>1. PICK x \in R : TRUE
      BY <2>4
    <3>2. R \in SUBSET S /\ IsFiniteSet(R)
      BY <1>1, <2>2
    <3>3. PICK T : T = R \ {x}
      OBVIOUS
    <3>4. /\ Cardinality(T) = Cardinality(R) - 1 /\ Cardinality(R) \in Nat /\ Cardinality(T) \in Nat
          /\ ~(Cardinality(R) <= Cardinality(T))
      BY <3>1, <3>2, <3>3, Smaller
    <3>5. T \in SUBSET S /\ T \notin Bad
      BY <2>2, <3>2, <3>3, <3>4
    <3>6. PICK g : Good(g, T)
      <4> HIDE DEF Good
      <4>1. QED
        BY <3>5
    <3>7. PICK h : h = [s \in SUBSET S |-> IF Cardinality(s) <= Cardinality(T) THEN g[s] ELSE Turn(g, s)]
      OBVIOUS
    <3>8. ASSUME NEW s \in SUBSET S, Cardinality(s) <= Cardinality(R)
          PROVE  h[s] = Turn(h, s)
      <4>1. h[s] = Turn(g, s)
        BY <3>6, <3>7
      <4>2. CASE s = {}
        BY <4>1, <4>2
      <4>3. CASE s # {}
        <5>1. OneOf(s) \in s
          BY <4>3 DEF OneOf
        <5>2. PICK u : u = s \ {OneOf(s)}
          OBVIOUS
        <5>3. Cardinality(u) <= Cardinality(T) /\ u \in SUBSET S
          <6>1. Cardinality(u) = Cardinality(s) - 1 /\ Cardinality(s) \in Nat
            BY <1>1, <5>1, <5>2, Smaller
          <6>2. u \in SUBSET S
            BY <5>2
          <6>3. QED
            BY <3>4, <3>8, <6>1, <6>2
        <5>4. h[u] = g[u]
          BY <3>7, <5>3
        <5>5. QED
          BY <4>1, <4>3, <5>2, <5>4
      <4>4. QED
        BY <4>2, <4>3
    <3>9. h = [s \in SUBSET S |-> h[s]]
      BY <3>7
    <3>10. Good(h, R)
      BY <3>8, <3>9
    <3>11. QED
      BY <2>2, <3>10
  <2>5. QED
    BY <2>3, <2>4
<1>3. \A s \in SUBSET S : Cardinality(s) <= Cardinality(S)
  BY FS_Subset
<1>4. PICK g : Good(g, S)
  <2> HIDE DEF Good
  <2>1. QED
    BY <1>2
<1>5. \A s \in SUBSET S : g[s] = Turn(g, s)
  BY <1>3, <1>4
<1>6. g = [s \in SUBSET S |-> Turn(g, s)]
  BY <1>4, <1>5
<1>7. QED
  BY <1>6 DEF Sums

\* Two such functions agree where both are defined.
LEMMA SumsAgree ==
  ASSUME NEW f, NEW S, NEW T, NEW g, NEW h, Sums(g, f, S), Sums(h, f, T),
         NEW R, R \subseteq S, R \subseteq T, IsFiniteSet(R)
  PROVE  g[R] = h[R]
<1> DEFINE Bad == {Q \in SUBSET R : g[Q] # h[Q]}
<1>1. SUFFICES Bad = {}
  OBVIOUS
<1>2. SUFFICES ASSUME Bad # {} PROVE FALSE
  OBVIOUS
<1>3. \A Q \in SUBSET R : IsFiniteSet(Q)
  BY FS_Subset
<1>4. PICK Q \in Bad : \A U \in Bad : Cardinality(Q) <= Cardinality(U)
  BY <1>2, <1>3, SmallestOf
<1>5. /\ g[Q] = IF Q = {} THEN 0 ELSE f[OneOf(Q)] + g[Q \ {OneOf(Q)}]
      /\ h[Q] = IF Q = {} THEN 0 ELSE f[OneOf(Q)] + h[Q \ {OneOf(Q)}]
  <2>1. Q \in SUBSET S /\ Q \in SUBSET T
    BY <1>4
  <2>2. QED
    BY <2>1 DEF Sums
<1>6. Q # {}
  BY <1>4, <1>5
<1>7. OneOf(Q) \in Q
  BY <1>6 DEF OneOf
<1>8. Q \ {OneOf(Q)} \in SUBSET R /\ Q \ {OneOf(Q)} \notin Bad
  BY <1>3, <1>4, <1>7, Smaller
<1>9. QED
  BY <1>4, <1>5, <1>8

LEMMA SumSums ==
  ASSUME NEW f, NEW S, IsFiniteSet(S)
  PROVE  \E g : Sums(g, f, S) /\ SumOf(f, S) = g[S]
<1>1. \E g : Sums(g, f, S)
  BY SumsExist
<1>2. PICK g : g = CHOOSE h : Sums(h, f, S)
  OBVIOUS
<1>3. Sums(g, f, S)
  <2> HIDE DEF Sums
  <2>1. QED
    BY <1>1, <1>2
<1>4. QED
  BY <1>2, <1>3 DEF SumOf

LEMMA SumStep ==
  ASSUME NEW f, NEW S, IsFiniteSet(S)
  PROVE  SumOf(f, S) = IF S = {} THEN 0 ELSE f[OneOf(S)] + SumOf(f, S \ {OneOf(S)})
<1>1. PICK g : Sums(g, f, S) /\ SumOf(f, S) = g[S]
  BY SumSums
<1>2. g[S] = IF S = {} THEN 0 ELSE f[OneOf(S)] + g[S \ {OneOf(S)}]
  BY <1>1 DEF Sums
<1>3. CASE S = {}
  BY <1>1, <1>2, <1>3
<1>4. CASE S # {}
  <2>1. PICK T : T = S \ {OneOf(S)}
    OBVIOUS
  <2>2. T \subseteq S /\ IsFiniteSet(T)
    BY <2>1, FS_Subset
  <2>3. PICK h : Sums(h, f, T) /\ SumOf(f, T) = h[T]
    BY <2>2, SumSums
  <2>4. g[T] = h[T]
    BY <1>1, <2>2, <2>3, SumsAgree
  <2>5. QED
    BY <1>1, <1>2, <1>4, <2>1, <2>3, <2>4
<1>5. QED
  BY <1>3, <1>4

\* The sum of integers is one.
LEMMA SumType ==
  ASSUME NEW f, NEW S, IsFiniteSet(S), \A k \in S : f[k] \in Int
  PROVE  SumOf(f, S) \in Int
<1> DEFINE Bad == {R \in SUBSET S : SumOf(f, R) \notin Int}
<1>1. SUFFICES ASSUME Bad # {} PROVE FALSE
  OBVIOUS
<1>2. \A R \in SUBSET S : IsFiniteSet(R)
  BY FS_Subset
<1>3. PICK R \in Bad : \A T \in Bad : Cardinality(R) <= Cardinality(T)
  BY <1>1, <1>2, SmallestOf
<1>4. SumOf(f, R) = IF R = {} THEN 0 ELSE f[OneOf(R)] + SumOf(f, R \ {OneOf(R)})
  BY <1>2, <1>3, SumStep
<1>5. CASE R # {}
  <2>1. OneOf(R) \in R
    BY <1>5 DEF OneOf
  <2>2. R \ {OneOf(R)} \in SUBSET S /\ R \ {OneOf(R)} \notin Bad
    BY <1>2, <1>3, <2>1, Smaller
  <2>3. SumOf(f, R \ {OneOf(R)}) \in Int /\ f[OneOf(R)] \in Int
    BY <1>3, <2>1, <2>2
  <2>4. QED
    BY <1>3, <1>4, <1>5, <2>3
<1>6. QED
  BY <1>3, <1>4, <1>5

\* Whichever element is taken out, the sum loses its amount.
LEMMA SumWithout ==
  ASSUME NEW f, NEW S, IsFiniteSet(S), \A k \in S : f[k] \in Int, NEW x \in S
  PROVE  SumOf(f, S) = f[x] + SumOf(f, S \ {x})
<1> DEFINE Lost(R) == \A k \in R : SumOf(f, R) = f[k] + SumOf(f, R \ {k})
           Bad == {R \in SUBSET S : ~Lost(R)}
<1>1. SUFFICES ASSUME Bad # {} PROVE FALSE
  OBVIOUS
<1>2. \A R \in SUBSET S : IsFiniteSet(R) /\ SumOf(f, R) \in Int
  BY FS_Subset, SumType
<1>3. PICK R \in Bad : \A T \in Bad : Cardinality(R) <= Cardinality(T)
  BY <1>1, <1>2, SmallestOf
<1>4. PICK k \in R : SumOf(f, R) # f[k] + SumOf(f, R \ {k})
  BY <1>3
<1>5. PICK y : y = OneOf(R)
  OBVIOUS
<1>6. y \in R /\ R \in SUBSET S /\ IsFiniteSet(R)
  BY <1>2, <1>3, <1>4, <1>5 DEF OneOf
<1>7. SumOf(f, R) = f[y] + SumOf(f, R \ {y})
  BY <1>4, <1>5, <1>6, SumStep
<1>8. k # y
  BY <1>4, <1>7
<1>9. R \ {y} \in SUBSET S /\ Lost(R \ {y})
  BY <1>3, <1>6, Smaller
<1>10. R \ {k} \in SUBSET S /\ Lost(R \ {k})
  BY <1>3, <1>4, <1>6, Smaller
<1>11. (R \ {y}) \ {k} = (R \ {k}) \ {y}
  OBVIOUS
<1>12. PICK rest : rest = (R \ {y}) \ {k}
  OBVIOUS
<1>13. SumOf(f, R \ {y}) = f[k] + SumOf(f, rest) /\ SumOf(f, R \ {k}) = f[y] + SumOf(f, rest)
  BY <1>4, <1>6, <1>8, <1>9, <1>10, <1>11, <1>12
<1>14. SumOf(f, rest) \in Int /\ f[k] \in Int /\ f[y] \in Int
  <2>1. rest \in SUBSET S
    BY <1>6, <1>12
  <2>2. QED
    BY <1>2, <1>4, <1>6, <2>1
<1>15. QED
  BY <1>4, <1>7, <1>13, <1>14

LEMMA SumWith ==
  ASSUME NEW f, NEW S, IsFiniteSet(S), \A k \in S : f[k] \in Int, NEW x, x \notin S, f[x] \in Int
  PROVE  SumOf(f, S \cup {x}) = SumOf(f, S) + f[x]
<1>1. PICK T : T = S \cup {x}
  OBVIOUS
<1>2. IsFiniteSet(T) /\ T \ {x} = S /\ x \in T /\ \A k \in T : f[k] \in Int
  BY <1>1, FS_AddElement
<1>3. SumOf(f, T) = f[x] + SumOf(f, S)
  BY <1>2, SumWithout
<1>4. SumOf(f, S) \in Int
  BY SumType
<1>5. QED
  BY <1>1, <1>3, <1>4

\* The sum of what two functions give alike is one.
LEMMA SumSame ==
  ASSUME NEW f, NEW g, NEW S, IsFiniteSet(S), \A k \in S : f[k] = g[k]
  PROVE  SumOf(f, S) = SumOf(g, S)
<1> DEFINE Bad == {R \in SUBSET S : SumOf(f, R) # SumOf(g, R)}
<1>1. SUFFICES ASSUME Bad # {} PROVE FALSE
  OBVIOUS
<1>2. \A R \in SUBSET S : IsFiniteSet(R)
  BY FS_Subset
<1>3. PICK R \in Bad : \A T \in Bad : Cardinality(R) <= Cardinality(T)
  BY <1>1, <1>2, SmallestOf
<1>4. /\ SumOf(f, R) = IF R = {} THEN 0 ELSE f[OneOf(R)] + SumOf(f, R \ {OneOf(R)})
      /\ SumOf(g, R) = IF R = {} THEN 0 ELSE g[OneOf(R)] + SumOf(g, R \ {OneOf(R)})
  BY <1>2, <1>3, SumStep
<1>5. R # {}
  BY <1>3, <1>4
<1>6. OneOf(R) \in R
  BY <1>5 DEF OneOf
<1>7. R \ {OneOf(R)} \in SUBSET S /\ R \ {OneOf(R)} \notin Bad
  BY <1>2, <1>3, <1>6, Smaller
<1>8. QED
  BY <1>3, <1>4, <1>6, <1>7

\* Nothing sums to 0.
LEMMA SumEmpty == \A f : SumOf(f, {}) = 0
BY FS_EmptySet, SumStep

\* The sum of two sets apart is the sum of their sums.
LEMMA SumUnion ==
  ASSUME NEW f, NEW S, NEW T, IsFiniteSet(S), IsFiniteSet(T), S \cap T = {}, \A k \in S \cup T : f[k] \in Int
  PROVE  SumOf(f, S \cup T) = SumOf(f, S) + SumOf(f, T)
<1> DEFINE Splits(R) == SumOf(f, S \cup R) = SumOf(f, S) + SumOf(f, R)
           Bad == {R \in SUBSET T : ~Splits(R)}
<1>1. SUFFICES ASSUME Bad # {} PROVE FALSE
  OBVIOUS
<1>2. \A R \in SUBSET T : IsFiniteSet(R) /\ IsFiniteSet(S \cup R)
  BY FS_Subset, FS_Union
<1>3. PICK R \in Bad : \A U \in Bad : Cardinality(R) <= Cardinality(U)
  BY <1>1, <1>2, SmallestOf
<1>4. SumOf(f, S) \in Int
  BY SumType
<1>5. R # {}
  <2>1. ASSUME R = {} PROVE Splits(R)
    <3>1. S \cup R = S /\ SumOf(f, R) = 0
      BY <2>1, SumEmpty
    <3>2. SumOf(f, S \cup R) = SumOf(f, S)
      BY <3>1
    <3>3. QED
      BY <1>4, <3>1, <3>2
  <2>2. QED
    BY <1>3, <2>1
<1>6. PICK x \in R : TRUE
  BY <1>5
<1>7. PICK Q : Q = R \ {x}
  OBVIOUS
<1>8. Q \in SUBSET T /\ x \notin Q /\ x \notin S \cup Q /\ R = Q \cup {x} /\ S \cup R = (S \cup Q) \cup {x}
  BY <1>3, <1>6, <1>7
<1>9. Splits(Q)
  BY <1>2, <1>3, <1>6, <1>7, <1>8, Smaller
<1>10. f[x] \in Int /\ (\A k \in Q : f[k] \in Int) /\ \A k \in S \cup Q : f[k] \in Int
  BY <1>3, <1>6, <1>8
<1>11. SumOf(f, R) = SumOf(f, Q) + f[x]
  BY <1>2, <1>8, <1>10, SumWith
<1>12. SumOf(f, S \cup R) = SumOf(f, S \cup Q) + f[x]
  BY <1>2, <1>8, <1>10, SumWith
<1>13. SumOf(f, Q) \in Int
  BY <1>2, <1>8, <1>10, SumType
<1>14. Splits(R)
  BY <1>4, <1>9, <1>10, <1>11, <1>12, <1>13
<1>15. QED
  BY <1>3, <1>14

\* Summing over the places of an injection is summing over what is there.
LEMMA SumImage ==
  ASSUME NEW h, NEW f, NEW S, NEW ids, IsFiniteSet(S), IsFiniteSet({ids[k] : k \in S}),
         \A j, k \in S : ids[j] = ids[k] => j = k,
         \A k \in S : h[k] = f[ids[k]] /\ h[k] \in Int
  PROVE  SumOf(h, S) = SumOf(f, {ids[k] : k \in S})
<1> DEFINE Image(R) == {ids[k] : k \in R}
           Bad == {R \in SUBSET S : SumOf(h, R) # SumOf(f, Image(R))}
<1>1. SUFFICES ASSUME Bad # {} PROVE FALSE
  OBVIOUS
<1>2. \A R \in SUBSET S : IsFiniteSet(R) /\ IsFiniteSet(Image(R))
  <2> SUFFICES ASSUME NEW R \in SUBSET S PROVE IsFiniteSet(R) /\ IsFiniteSet(Image(R))
    OBVIOUS
  <2>1. Image(R) \subseteq Image(S)
    OBVIOUS
  <2>2. QED
    BY <2>1, FS_Subset
<1>3. PICK R \in Bad : \A U \in Bad : Cardinality(R) <= Cardinality(U)
  <2> HIDE DEF Image
  <2>1. QED
    BY <1>1, <1>2, SmallestOf
<1>4. R # {}
  <2>1. ASSUME R = {} PROVE FALSE
    <3>1. Image(R) = {}
      BY <2>1
    <3>2. QED
      BY <1>3, <2>1, <3>1, SumEmpty
  <2>2. QED
    BY <2>1
<1>5. PICK x \in R : TRUE
  BY <1>4
<1>6. PICK Q : Q = R \ {x}
  OBVIOUS
<1>7. Q \in SUBSET S /\ x \in S /\ x \notin Q /\ R = Q \cup {x}
  BY <1>3, <1>5, <1>6
<1>8. SumOf(h, Q) = SumOf(f, Image(Q))
  <2>1. Q \notin Bad
    BY <1>2, <1>3, <1>5, <1>6, Smaller
  <2> HIDE DEF Image
  <2>2. QED
    BY <1>7, <2>1
<1>9. Image(R) = Image(Q) \cup {ids[x]} /\ ids[x] \notin Image(Q)
  BY <1>7
<1>10. (\A k \in Image(Q) : f[k] \in Int) /\ f[ids[x]] = h[x] /\ h[x] \in Int /\ \A k \in Q : h[k] \in Int
  BY <1>7
<1>11. SumOf(f, Image(R)) = SumOf(f, Image(Q)) + f[ids[x]]
  <2> HIDE DEF Image
  <2>1. QED
    BY <1>2, <1>7, <1>9, <1>10, SumWith
<1>12. SumOf(h, R) = SumOf(h, Q) + h[x]
  BY <1>2, <1>7, <1>10, SumWith
<1>13. QED
  BY <1>3, <1>8, <1>10, <1>11, <1>12

\* Positive numbers sum to 0 only where there are none.
LEMMA SumOfPositive ==
  ASSUME NEW f, NEW S, IsFiniteSet(S), \A k \in S : f[k] \in Nat \ {0}
  PROVE  SumOf(f, S) \in Nat /\ (SumOf(f, S) = 0 <=> S = {})
<1> DEFINE Right(R) == SumOf(f, R) \in Nat /\ (SumOf(f, R) = 0 <=> R = {})
           Bad == {R \in SUBSET S : ~Right(R)}
<1>1. SUFFICES ASSUME Bad # {} PROVE FALSE
  OBVIOUS
<1>2. \A R \in SUBSET S : IsFiniteSet(R)
  BY FS_Subset
<1>3. PICK R \in Bad : \A T \in Bad : Cardinality(R) <= Cardinality(T)
  BY <1>1, <1>2, SmallestOf
<1>4. SumOf(f, R) = IF R = {} THEN 0 ELSE f[OneOf(R)] + SumOf(f, R \ {OneOf(R)})
  BY <1>2, <1>3, SumStep
<1>5. CASE R # {}
  <2>1. OneOf(R) \in R
    BY <1>5 DEF OneOf
  <2>2. Right(R \ {OneOf(R)})
    BY <1>2, <1>3, <2>1, Smaller
  <2>3. f[OneOf(R)] \in Nat \ {0}
    BY <1>3, <2>1
  <2>4. QED
    BY <1>3, <1>4, <1>5, <2>2, <2>3
<1>6. QED
  BY <1>3, <1>4, <1>5

\* A function has finitely many values where it has finitely many places.
LEMMA FiniteImage ==
  ASSUME NEW f, IsFiniteSet(DOMAIN f)
  PROVE  IsFiniteSet({f[x] : x \in DOMAIN f})
<1> DEFINE T == {f[x] : x \in DOMAIN f}
<1>1. [x \in DOMAIN f |-> f[x]] \in Surjection(DOMAIN f, T)
  BY DEF Surjection
<1>2. QED
  BY <1>1, FS_Surjection

-----------------------------------------------------------------------------
(* The Timeline                                                            *)

\* What the entries of a set add up to, as a sum over a set that has them all.
LEMMA TotalSums ==
  ASSUME NEW S, NEW U, U \subseteq S, IsFiniteSet(S)
  PROVE  Total(U) = SumOf([e \in S |-> e.amount], U)
<1> DEFINE f == [e \in S |-> e.amount]
           Turns(g) == g = [s \in SUBSET U |-> IF s = {} THEN 0 ELSE OneOf(s).amount + g[s \ {OneOf(s)}]]
<1>1. PICK g : g = CHOOSE it : Turns(it)
  OBVIOUS
<1>2. Total(U) = g[U]
  BY <1>1 DEF Total, MapThenSumSet, MapThenFoldSet, OneOf
<1>3. IsFiniteSet(U)
  BY FS_Subset
<1>4. \A s \in SUBSET U : s # {} => f[OneOf(s)] = OneOf(s).amount
  BY DEF OneOf
<1>5. \A h : Sums(h, f, U) <=> Turns(h)
  <2> SUFFICES ASSUME NEW h PROVE Sums(h, f, U) <=> Turns(h)
    OBVIOUS
  <2>1. [s \in SUBSET U |-> IF s = {} THEN 0 ELSE f[OneOf(s)] + h[s \ {OneOf(s)}]]
          = [s \in SUBSET U |-> IF s = {} THEN 0 ELSE OneOf(s).amount + h[s \ {OneOf(s)}]]
    BY <1>4
  <2>2. QED
    BY <2>1 DEF Sums
<1> HIDE DEF f, Turns
<1>6. PICK h : Sums(h, f, U) /\ SumOf(f, U) = h[U]
  BY <1>3, SumSums
<1>7. Sums(g, f, U)
  BY <1>1, <1>5, <1>6
<1>8. g[U] = h[U]
  BY <1>3, <1>6, <1>7, SumsAgree
<1>9. QED
  BY <1>2, <1>6, <1>8 DEF f

\* The totals of two sets of entries apart add up.
LEMMA TotalUnion ==
  ASSUME NEW S, NEW T, IsFiniteSet(S), IsFiniteSet(T), S \cap T = {}, \A e \in S \cup T : e.amount \in Int
  PROVE  Total(S) \in Int /\ Total(T) \in Int /\ Total(S \cup T) = Total(S) + Total(T)
<1>1. PICK f : f = [e \in S \cup T |-> e.amount]
  OBVIOUS
<1>2. IsFiniteSet(S \cup T) /\ \A e \in S \cup T : f[e] \in Int
  BY <1>1, FS_Union
<1>3. Total(S) = SumOf(f, S) /\ Total(T) = SumOf(f, T) /\ Total(S \cup T) = SumOf(f, S \cup T)
  BY <1>1, <1>2, TotalSums
<1>4. SumOf(f, S) \in Int /\ SumOf(f, T) \in Int
  BY <1>2, SumType
<1>5. SumOf(f, S \cup T) = SumOf(f, S) + SumOf(f, T)
  BY <1>2, SumUnion
<1>6. QED
  BY <1>3, <1>4, <1>5

\* What the anchor takes out from a day on, and what is walked between two days.
Anchored(E, a) == {e \in E : e.date \in a .. Reference /\ ~AwaitingCash(e)}
Between(E, a, d) == {e \in E : e.date \in a .. d}

\* What came before a day no later than the reference day is in the anchor and
\* in the walk alike: the balance of a later day depends on neither.
LEMMA WalkedFrom ==
  ASSUME NEW E, IsFiniteSet(E), NEW from \in Int, NEW a \in Int, NEW d \in Int,
         from <= a, a <= Reference, a <= d,
         \A e \in E : e.amount \in Int /\ e.date \in Int /\ from <= e.date
  PROVE  Anchor(E) + Total(Between(E, from, d)) = Cash - Total(Anchored(E, a)) + Total(Between(E, a, d))
<1>1. Reference \in Int /\ Cash \in Int
  BY TimelineAssumption
<1>2. PICK X, P, B, W : /\ X = {e \in E : e.date < a}
                        /\ P = Anchored(E, a) /\ B = Between(E, a, d) /\ W = Between(E, from, d)
  OBVIOUS
<1>3. IsFiniteSet(X) /\ IsFiniteSet(P) /\ IsFiniteSet(B) /\ X \cap P = {} /\ X \cap B = {}
  <2>1. X \subseteq E /\ P \subseteq E /\ B \subseteq E
    BY <1>2 DEF Anchored, Between
  <2>2. X \cap P = {} /\ X \cap B = {}
    BY <1>1, <1>2 DEF Anchored, Between
  <2>3. QED
    BY <2>1, <2>2, FS_Subset
<1>4. {e \in E : e.date <= Reference /\ ~AwaitingCash(e)} = X \cup P
  BY <1>1, <1>2 DEF AwaitingCash, Anchored, Between
<1>5. W = X \cup B
  BY <1>2 DEF Anchored, Between
<1>6. /\ \A e \in X \cup P : e.amount \in Int
      /\ \A e \in X \cup B : e.amount \in Int
  BY <1>2 DEF Anchored, Between
<1>7. Total(X) \in Int /\ Total(P) \in Int /\ Total(X \cup P) = Total(X) + Total(P)
  BY <1>3, <1>6, TotalUnion
<1>8. Total(B) \in Int /\ Total(X \cup B) = Total(X) + Total(B)
  BY <1>3, <1>6, TotalUnion
<1>9. Anchor(E) = Cash - Total(X \cup P)
  BY <1>4 DEF Anchor
<1>10. Anchor(E) + Total(X \cup B) = Cash - Total(P) + Total(B)
  BY <1>1, <1>7, <1>8, <1>9
<1>11. QED
  BY <1>2, <1>5, <1>10

\* Transactions are read from a day that is not after the period's first.
LEMMA TwoMonths ==
  ASSUME NEW day \in 1 .. LastDay
  PROVE  TwoMonthsBefore(day) \in Int /\ TwoMonthsBefore(day) <= day
<1>1. PICK m : m = MonthOf(day)
  OBVIOUS
<1>2. In(day, m)
  BY <1>1, DaysHaveMonths
<1>3. /\ m \in Months /\ m \in Nat \ {0} /\ StartOf[m] \in Nat /\ Lengths[m] \in Nat
      /\ day \in Int /\ 1 <= day /\ StartOf[m] <= day /\ DayOfMonth(day) = day - StartOf[m] + 1
  <2>1. m \in Months /\ m \in Nat \ {0} /\ StartOf[m] \in Nat /\ Lengths[m] \in Nat
    BY <1>2, MonthsTyped DEF In
  <2>2. DayOfMonth(day) = day - StartOf[m] + 1
    BY <1>1 DEF DayOfMonth
  <2>3. QED
    BY <1>2, <2>1, <2>2, LastDayTyped DEF In
<1>4. CASE m <= 2
  BY <1>1, <1>3, <1>4 DEF TwoMonthsBefore
<1>5. CASE m > 2
  <2>1. m - 2 \in Months
    BY <1>3, <1>5 DEF Months
  <2>2. StartOf[m - 2] \in Nat /\ Lengths[m - 2] \in Nat
    BY <2>1, MonthsTyped
  <2>3. StartOf[m - 2] + Lengths[m - 2] <= StartOf[m]
    BY <1>3, <1>5, <2>1, MonthsInOrder
  <2>4. TwoMonthsBefore(day) = StartOf[m - 2] + DayOfMonth(day) - 1
    BY <1>1, <1>3, <1>5 DEF TwoMonthsBefore
  <2>5. TwoMonthsBefore(day) = StartOf[m - 2] + (day - StartOf[m] + 1) - 1
    BY <1>3, <2>4
  <2>6. QED
    BY <1>3, <2>2, <2>3, <2>5
<1>6. QED
  BY <1>3, <1>4, <1>5

\* The transactions read for a period have those of its own days.
LEMMA CashInReach ==
  ASSUME NEW w \in Windows, NEW day \in w[1] .. w[2]
  PROVE  day \in TwoMonthsBefore(w[1]) .. w[2]
<1>1. w[1] \in Int /\ w[2] \in Int /\ w[1] \in 1 .. LastDay
  BY PeriodTyped
<1>2. TwoMonthsBefore(w[1]) \in Int /\ TwoMonthsBefore(w[1]) <= w[1]
  BY <1>1, TwoMonths
<1>3. QED
  BY <1>1, <1>2

\* They have the purchases of a bill that is due in it, from today on.
LEMMA PurchasesInReach ==
  ASSUME Inv, PurchasesNear, NEW w \in Windows, Reference \in w[1] .. w[2],
         NEW t \in Transactions, OnCard(t), ~tx[t].ignored,
         EntryDate(t) \in w[1] .. w[2], Reference <= EntryDate(t)
  PROVE  tx[t].day \in TwoMonthsBefore(w[1]) .. w[2]
<1>1. PICK day, due, from : day = tx[t].day /\ due = EntryDate(t) /\ from = w[1]
  OBVIOUS
<1>2. /\ day \in 1 .. LastDay /\ LastDay \in Nat /\ Reference \in Nat
      /\ from \in Int /\ w[2] \in Int /\ from \in 1 .. LastDay
      /\ due \in from .. w[2] /\ Reference <= due /\ from <= Reference
  BY <1>1, LastDayTyped, PeriodTyped, TimelineAssumption DEF Inv, Typed
<1>3. from \in 1 .. Reference /\ due >= Reference
  BY <1>2
<1>4. day <= due /\ TwoMonthsBefore(from) <= day
  BY <1>1, <1>3 DEF PurchasesNear
<1>5. TwoMonthsBefore(from) \in Int
  BY <1>2, TwoMonths
<1>6. QED
  BY <1>1, <1>2, <1>4, <1>5

\* The transactions picked by hand are near their occurrences.
AllPickedNear == \A o \in override : o.tx # None => PickedNear(o)

\* What realizes an occurrence is derived alike in any two periods it is in.
LEMMA SameResolution ==
  ASSUME Inv, AllPickedNear, NEW c \in Commitments, Exists(c), NEW v \in Windows, NEW w \in Windows,
         NEW d \in OccurrencesInRange(commitment[c], v[1], v[2]), d \in w[1] .. w[2]
  PROVE  /\ d \in OccurrencesInRange(commitment[c], w[1], w[2])
         /\ RecurringProjections(c, v[1], v[2])[d] = RecurringProjections(c, w[1], w[2])[d]
<1>1. d \in OccurrencesInRange(commitment[c], w[1], w[2]) /\ d \in v[1] .. v[2]
  BY DEF OccurrencesInRange
<1>2. In(d, MonthOf(d))
  <2>1. PICK m \in Months : d = OccurrenceDate(m, commitment[c].day)
    BY DEF OccurrencesInRange
  <2>2. commitment[c].day \in Nat \ {0}
    BY SchedulesExist DEF Inv, Typed, Exists
  <2>3. In(d, m)
    BY <2>1, <2>2, OccurrenceInMonth
  <2>4. QED
    BY <2>3, MonthOfDay
<1>3. /\ Reach \in Nat /\ d \in Int
      /\ v[1] \in Int /\ v[2] \in Int /\ w[1] \in Int /\ w[2] \in Int
  BY <1>1, RecurrencesAssumption, PeriodTyped
<1>4. PICK mv, mw : mv = ListOverrides(c, v[1] - Reach, v[2] + Reach) /\ mw = ListOverrides(c, w[1] - Reach, w[2] + Reach)
  OBVIOUS
<1>5. PICK iv, iw : iv = RealItems(v[1] - Reach, v[2] + Reach) /\ iw = RealItems(w[1] - Reach, w[2] + Reach)
  OBVIOUS
<1> DEFINE Here(m) == {o \in m : o.date = d}
           Told(o) == Resolved(o.tx, "manual", o.tx = None)
           Automatic(m, i) == IF Targeted(c) THEN Resolve(c, m, i, d) ELSE Unreconciled
           Found(m, i) == IF \E o \in m : o.date = d THEN Told(CHOOSE o \in m : o.date = d) ELSE Automatic(m, i)
<1>6. RecurringProjections(c, v[1], v[2])[d] = Found(mv, iv) /\ RecurringProjections(c, w[1], w[2])[d] = Found(mw, iw)
  BY <1>1, <1>4, <1>5 DEF RecurringProjections, ManualLinks
<1>7. \A o : o \in mv /\ o.date = d <=> o \in mw /\ o.date = d
  <2>1. d \in (v[1] - Reach) .. (v[2] + Reach) /\ d \in (w[1] - Reach) .. (w[2] + Reach)
    BY <1>1, <1>3
  <2>2. QED
    BY <1>4, <2>1 DEF ListOverrides
<1>8. CASE \E o \in mv : o.date = d
  <2>1. PICK o \in mv : o.date = d
    BY <1>8
  <2>2. \A x \in mv \cup mw : x.date = d => x = o
    BY <1>4, <2>1 DEF ListOverrides, Inv, OneDecision
  <2>3. o \in mw
    BY <1>7, <2>1
  <2>4. (CHOOSE x \in mv : x.date = d) = o /\ (CHOOSE x \in mw : x.date = d) = o
    BY <2>1, <2>2, <2>3
  <2>5. QED
    BY <1>1, <1>6, <2>1, <2>3, <2>4
<1>9. CASE \A o \in mv : o.date # d
  <2>1. Here(mv) = {} /\ Here(mw) = {}
    BY <1>7, <1>9
  <2>2. PICK n, cv, cw : n = MonthOf(d) /\ cv = CandidatesByMonth(c, iv, n) /\ cw = CandidatesByMonth(c, iw, n)
    OBVIOUS
  <2>3. ASSUME NEW t \in Transactions, MonthOf(tx[t].day) = n
        PROVE  /\ tx[t].day \in (v[1] - Reach) .. (v[2] + Reach)
               /\ tx[t].day \in (w[1] - Reach) .. (w[2] + Reach)
    <3>1. In(tx[t].day, n)
      BY <2>3, DaysHaveMonths DEF Inv, Typed
    <3>2. QED
      BY <1>1, <1>2, <2>2, <3>1, SameMonthNear
  <2>4. cv = cw
    BY <1>5, <2>2, <2>3 DEF CandidatesByMonth, RealItems
  <2>5. ASSUME NEW t \in cv
        PROVE  t \in {o.tx : o \in mv} <=> t \in {o.tx : o \in mw}
    <3>1. t \in Transactions /\ MonthOf(tx[t].day) = MonthOf(d)
      BY <1>5, <2>2, <2>5 DEF CandidatesByMonth, RealItems
    <3>2. \A o \in override : o.of = c /\ o.tx = t => o \in mv /\ o \in mw
      <4>1. \A o \in override : o.tx = t => PickedNear(o)
        BY <3>1, RecurrencesAssumption DEF AllPickedNear
      <4>2. QED
        BY <1>1, <1>2, <1>4, <3>1, <4>1, HeldByHand
    <3>3. mv \subseteq override /\ mw \subseteq override /\ \A o \in mv \cup mw : o.of = c
      BY <1>4 DEF ListOverrides
    <3>4. QED
      BY <3>2, <3>3
  <2>6. Available(cv, mv) = Available(cw, mw)
    BY <2>4, <2>5 DEF Available
  <2>7. Resolve(c, mv, iv, d) = Resolve(c, mw, iw, d)
    <3>1. {o \in mv : o.date = d} = {} /\ {o \in mw : o.date = d} = {}
      BY <2>1
    <3>2. QED
      BY <2>2, <2>6, <3>1 DEF Resolve
  <2>8. Found(mv, iv) = Automatic(mv, iv) /\ Found(mw, iw) = Automatic(mw, iw)
    <3>1. ~\E o \in mw : o.date = d
      BY <1>7, <1>9
    <3>2. ~\E o \in mv : o.date = d
      BY <1>9
    <3> HIDE DEF Automatic
    <3>3. QED
      BY <3>1, <3>2
  <2>9. Automatic(mv, iv) = Automatic(mw, iw)
    BY <2>7
  <2> HIDE DEF Found, Automatic
  <2>10. QED
    BY <1>1, <1>6, <2>8, <2>9
<1>10. QED
  BY <1>1, <1>8, <1>9

\* A selected commitment exists.
LEMMA SelectedExist ==
  ASSUME NEW ids
  PROVE  Selected(ids) \subseteq Commitments /\ \A c \in Selected(ids) : Exists(c)
BY DEF Selected, Exists, NoCommitment

\* What is walked of a period is walked of every other one that has its date.
LEMMA SameEntries ==
  ASSUME Inv, PurchasesNear, AllPickedNear, NEW ids, NEW v \in Windows, NEW w \in Windows,
         Reference \in w[1] .. w[2],
         NEW e \in CashEntries(Entries(ids, v[1], v[2])), e.date \in w[1] .. w[2]
  PROVE  e \in CashEntries(Entries(ids, w[1], w[2]))
<1>1. /\ e \in RealEntries(v[1], v[2]) \cup PlannedEntries(ids, v[1], v[2])
      /\ e.date \in v[1] .. v[2] /\ ~(e.source = "card" /\ e.date < Reference)
  BY DEF CashEntries, Entries, WithinWindow
<1>2. SUFFICES e \in RealEntries(w[1], w[2]) \cup PlannedEntries(ids, w[1], w[2])
  BY <1>1 DEF CashEntries, Entries, WithinWindow
<1>3. v[1] \in Int /\ v[2] \in Int /\ w[1] \in Int /\ w[2] \in Int /\ Reference \in Int /\ e.date \in Int
  BY <1>1, PeriodTyped, TimelineAssumption
<1>4. CASE e \in RealEntries(v[1], v[2])
  <2>1. PICK t \in RealItems(TwoMonthsBefore(v[1]), v[2]) :
          e = Entry(<<"transaction", t>>, EntryDate(t), Signed(Facts[t].amount, Facts[t].inflow),
                    IF OnCard(t) THEN "card" ELSE "cash")
    BY <1>4 DEF RealEntries
  <2>2. t \in Transactions /\ ~tx[t].ignored /\ e.date = EntryDate(t)
    BY <2>1 DEF RealItems, Entry
  <2>3. tx[t].day \in TwoMonthsBefore(w[1]) .. w[2]
    <3>1. CASE OnCard(t)
      <4>1. e.source = "card"
        BY <2>1, <3>1 DEF Entry
      <4>2. Reference <= EntryDate(t)
        BY <1>1, <1>3, <2>2, <4>1
      <4>3. QED
        BY <2>2, <3>1, <4>2, PurchasesInReach
    <3>2. CASE ~OnCard(t)
      <4>1. tx[t].day \in w[1] .. w[2]
        BY <2>2, <3>2 DEF EntryDate
      <4>2. QED
        BY <4>1, CashInReach
    <3>3. QED
      BY <3>1, <3>2
  <2>4. t \in RealItems(TwoMonthsBefore(w[1]), w[2])
    BY <2>2, <2>3 DEF RealItems
  <2>5. QED
    BY <2>1, <2>4 DEF RealEntries
<1>5. CASE e \in PlannedEntries(ids, v[1], v[2])
  <2> DEFINE Chosen(x) == IF ids # {} THEN x.scenario \in ids ELSE x.active
             Events(c, from, to) ==
               LET events == RecurringProjections(c, from, to)
               IN {Entry(<<c, d>>, d, Signed(Expected[c], commitment[c].income), "planned") :
                     d \in {x \in DOMAIN events : events[x].tx = None}}
             Once(from, to) ==
               {Entry(<<"installment", i>>, i.day, i.amount, "planned") :
                  i \in {x \in Installments : Chosen(x) /\ x.day \in from .. to /\ x.allocated = 0}}
  <2>1. \A from, to : PlannedEntries(ids, from, to) = Once(from, to) \cup UNION {Events(c, from, to) : c \in Selected(ids)}
    BY DEF PlannedEntries
  <2>2. CASE e \in Once(v[1], v[2])
    <3>1. PICK i \in Installments : /\ Chosen(i) /\ i.allocated = 0
                                    /\ e = Entry(<<"installment", i>>, i.day, i.amount, "planned")
      BY <2>2
    <3>2. i.day \in w[1] .. w[2]
      BY <3>1 DEF Entry
    <3>3. e \in Once(w[1], w[2])
      BY <3>1, <3>2
    <3>4. QED
      BY <2>1, <3>3
  <2>3. ASSUME NEW c \in Selected(ids), e \in Events(c, v[1], v[2])
        PROVE  e \in Events(c, w[1], w[2])
    <3>1. PICK ev, ew : ev = RecurringProjections(c, v[1], v[2]) /\ ew = RecurringProjections(c, w[1], w[2])
      OBVIOUS
    <3>2. PICK d \in DOMAIN ev : /\ ev[d].tx = None
                                 /\ e = Entry(<<c, d>>, d, Signed(Expected[c], commitment[c].income), "planned")
      BY <2>3, <3>1
    <3>3. /\ DOMAIN ev = OccurrencesInRange(commitment[c], v[1], v[2])
          /\ DOMAIN ew = OccurrencesInRange(commitment[c], w[1], w[2])
      BY <3>1 DEF RecurringProjections
    <3>4. d \in w[1] .. w[2]
      BY <3>2 DEF Entry
    <3>5. d \in DOMAIN ew /\ ew[d] = ev[d]
      BY <3>1, <3>2, <3>3, <3>4, SelectedExist, SameResolution
    <3>6. QED
      BY <3>1, <3>2, <3>5
  <2>4. CASE e \in UNION {Events(c, v[1], v[2]) : c \in Selected(ids)}
    <3>1. PICK c \in Selected(ids) : e \in Events(c, v[1], v[2])
      BY <2>4
    <3>2. e \in Events(c, w[1], w[2])
      BY <2>3, <3>1
    <3> HIDE DEF Events, Once
    <3>3. QED
      BY <2>1, <3>2
  <2> HIDE DEF Events, Once
  <2>5. QED
    BY <1>5, <2>1, <2>2, <2>4
<1>6. QED
  BY <1>1, <1>4, <1>5

\* The entries of a period are finitely many, dated within it.
LEMMA EntriesTyped ==
  ASSUME Inv, NEW ids, NEW w \in Windows, NEW E, E = CashEntries(Entries(ids, w[1], w[2]))
  PROVE  IsFiniteSet(E) /\ \A e \in E : e.amount \in Int /\ e.date \in Int /\ e.date \in w[1] .. w[2]
<1> DEFINE from == w[1]
           to == w[2]
           items == RealItems(TwoMonthsBefore(from), to)
           real == [t \in items |-> Entry(<<"transaction", t>>, EntryDate(t), Signed(Facts[t].amount, Facts[t].inflow),
                                          IF OnCard(t) THEN "card" ELSE "cash")]
           once == {x \in Installments : /\ IF ids # {} THEN x.scenario \in ids ELSE x.active
                                         /\ x.day \in from .. to /\ x.allocated = 0}
           single == [i \in once |-> Entry(<<"installment", i>>, i.day, i.amount, "planned")]
           open(c) == {x \in DOMAIN RecurringProjections(c, from, to) : RecurringProjections(c, from, to)[x].tx = None}
           event(c) == [d \in open(c) |-> Entry(<<c, d>>, d, Signed(Expected[c], commitment[c].income), "planned")]
           events(c) == LET shown == RecurringProjections(c, from, to)
                        IN {Entry(<<c, d>>, d, Signed(Expected[c], commitment[c].income), "planned") :
                              d \in {x \in DOMAIN shown : shown[x].tx = None}}
           recurring == [c \in Selected(ids) |-> events(c)]
           R == {real[t] : t \in DOMAIN real}
           S == {single[i] : i \in DOMAIN single}
           C == {recurring[c] : c \in DOMAIN recurring}
<1>1. E \subseteq (R \cup S) \cup UNION C
  <2>1. RealEntries(from, to) = R
    BY DEF RealEntries
  <2>2. PlannedEntries(ids, from, to) = S \cup UNION C
    <3>1. S = {Entry(<<"installment", i>>, i.day, i.amount, "planned") : i \in once}
      OBVIOUS
    <3>2. C = {events(c) : c \in Selected(ids)}
      OBVIOUS
    <3>3. PlannedEntries(ids, from, to)
            = {Entry(<<"installment", i>>, i.day, i.amount, "planned") : i \in once} \cup UNION {events(c) : c \in Selected(ids)}
      BY DEF PlannedEntries
    <3> HIDE DEF S, C, once, events
    <3>4. QED
      BY <3>1, <3>2, <3>3
  <2> HIDE DEF R, S, C
  <2>3. QED
    BY <2>1, <2>2 DEF CashEntries, Entries, WithinWindow
<1>2. IsFiniteSet(R)
  <2>1. items \subseteq Transactions
    BY DEF RealItems
  <2>2. IsFiniteSet(items)
    BY <2>1, TimelineAssumption, FS_Subset
  <2> HIDE DEF items
  <2>3. DOMAIN real = items
    OBVIOUS
  <2> HIDE DEF real
  <2>4. QED
    BY <2>2, <2>3, FiniteImage
<1>3. IsFiniteSet(S)
  <2>1. once \subseteq Installments
    OBVIOUS
  <2>2. IsFiniteSet(once)
    BY <2>1, TimelineAssumption, FS_Subset
  <2> HIDE DEF once
  <2>3. DOMAIN single = once
    OBVIOUS
  <2> HIDE DEF single
  <2>4. QED
    BY <2>2, <2>3, FiniteImage
<1>4. \A c : open(c) \subseteq from .. to
  BY DEF RecurringProjections, OccurrencesInRange
<1>5. IsFiniteSet(UNION C)
  <2>1. ASSUME NEW c PROVE IsFiniteSet(events(c))
    <3>1. IsFiniteSet(from .. to)
      BY PeriodTyped, FS_Interval
    <3>2. IsFiniteSet(open(c))
      BY <1>4, <3>1, FS_Subset
    <3>3. events(c) = {event(c)[d] : d \in open(c)}
      BY DEF open
    <3> HIDE DEF open
    <3>4. DOMAIN event(c) = open(c)
      OBVIOUS
    <3> HIDE DEF event, events
    <3>5. QED
      BY <3>2, <3>3, <3>4, FiniteImage
  <2>2. IsFiniteSet(Selected(ids))
    BY SelectedExist, TimelineAssumption, FS_Subset
  <2> HIDE DEF events
  <2>3. DOMAIN recurring = Selected(ids) /\ \A T \in C : IsFiniteSet(T)
    BY <2>1
  <2> HIDE DEF recurring
  <2>4. IsFiniteSet(C)
    BY <2>2, <2>3, FiniteImage
  <2>5. QED
    BY <2>3, <2>4, FS_UNION
<1>6. ASSUME NEW e \in (R \cup S) \cup UNION C PROVE e.amount \in Int
  <2>1. CASE e \in R
    <3>1. PICK t \in items : e = real[t]
      BY <2>1
    <3>2. e.amount = Signed(Facts[t].amount, Facts[t].inflow)
      BY <3>1 DEF Entry
    <3>3. t \in Transactions
      BY <3>1 DEF RealItems
    <3>4. Facts[t].amount \in Nat
      BY <3>3, TimelineAssumption
    <3>5. QED
      BY <3>2, <3>4 DEF Signed
  <2>2. CASE e \in S
    <3>1. PICK i \in Installments : e = Entry(<<"installment", i>>, i.day, i.amount, "planned")
      BY <2>2
    <3>2. QED
      BY <3>1, TimelineAssumption DEF Entry
  <2>3. CASE e \in UNION C
    <3>1. PICK c \in Selected(ids) : e \in events(c)
      BY <2>3
    <3>2. PICK d \in open(c) : e = event(c)[d]
      BY <3>1
    <3>3. e.amount = Signed(Expected[c], commitment[c].income)
      BY <3>2 DEF Entry
    <3>4. Expected[c] \in Nat
      BY SelectedExist, TimelineAssumption
    <3>5. QED
      BY <3>3, <3>4 DEF Signed
  <2>4. QED
    BY <2>1, <2>2, <2>3
<1>7. ASSUME NEW e \in E PROVE e.date \in from .. to /\ e.date \in Int
  <2>1. e.date \in from .. to
    BY DEF CashEntries, Entries, WithinWindow
  <2>2. QED
    BY <2>1, PeriodTyped
<1>8. IsFiniteSet((R \cup S) \cup UNION C)
  <2> HIDE DEF R, S, C
  <2>1. IsFiniteSet(R \cup S)
    BY <1>2, <1>3, FS_Union
  <2>2. QED
    BY <1>5, <2>1, FS_Union
<1> HIDE DEF R, S, C
<1>9. QED
  BY <1>1, <1>6, <1>7, <1>8, FS_Subset

\* Two periods that have the reference day show the same balance on a day they
\* share: what is walked since the later of their first days is the same.
LEMMA SameBalance ==
  ASSUME Inv, PurchasesNear, AllPickedNear, NEW ids, NEW v \in Windows, NEW w \in Windows,
         Reference \in v[1] .. v[2], Reference \in w[1] .. w[2], v[1] <= w[1],
         NEW d \in v[1] .. v[2], d \in w[1] .. w[2]
  PROVE  Points(ids, v[1], v[2])[d] = Points(ids, w[1], w[2])[d]
<1>1. PICK E, F : E = CashEntries(Entries(ids, v[1], v[2])) /\ F = CashEntries(Entries(ids, w[1], w[2]))
  OBVIOUS
<1>2. /\ v[1] \in Int /\ v[2] \in Int /\ w[1] \in Int /\ w[2] \in Int /\ d \in Int /\ Reference \in Int
      /\ w[1] <= Reference /\ Reference <= v[2] /\ Reference <= w[2]
      /\ w[1] <= d /\ d <= v[2] /\ d <= w[2]
  BY PeriodTyped, TimelineAssumption
<1>3. /\ Points(ids, v[1], v[2])[d] = Anchor(E) + Total(Between(E, v[1], d))
      /\ Points(ids, w[1], w[2])[d] = Anchor(F) + Total(Between(F, w[1], d))
  BY <1>1 DEF Points, Between
<1>4. /\ IsFiniteSet(E) /\ \A e \in E : e.amount \in Int /\ e.date \in Int /\ v[1] <= e.date /\ e.date <= v[2]
      /\ IsFiniteSet(F) /\ \A e \in F : e.amount \in Int /\ e.date \in Int /\ w[1] <= e.date /\ e.date <= w[2]
  <2>1. IsFiniteSet(E) /\ \A e \in E : e.amount \in Int /\ e.date \in Int /\ e.date \in v[1] .. v[2]
    BY <1>1, EntriesTyped
  <2>2. IsFiniteSet(F) /\ \A e \in F : e.amount \in Int /\ e.date \in Int /\ e.date \in w[1] .. w[2]
    BY <1>1, EntriesTyped
  <2>3. QED
    BY <1>2, <2>1, <2>2
<1>5. \A e : e.date \in w[1] .. v[2] /\ e.date \in w[1] .. w[2] => (e \in E <=> e \in F)
  <2> SUFFICES ASSUME NEW e, e.date \in w[1] .. v[2], e.date \in w[1] .. w[2]
               PROVE  e \in E <=> e \in F
    OBVIOUS
  <2>1. e.date \in v[1] .. v[2]
    BY <1>2
  <2>2. e \in E => e \in F
    BY <1>1, SameEntries
  <2>3. e \in F => e \in E
    BY <1>1, <2>1, SameEntries
  <2>4. QED
    BY <2>2, <2>3
<1>6. Anchored(E, w[1]) = Anchored(F, w[1])
  <2>1. \A e : e.date \in w[1] .. Reference => e.date \in w[1] .. v[2] /\ e.date \in w[1] .. w[2]
    BY <1>2
  <2>2. QED
    BY <1>5, <2>1 DEF Anchored
<1>7. Between(E, w[1], d) = Between(F, w[1], d)
  <2>1. \A e : e.date \in w[1] .. d => e.date \in w[1] .. v[2] /\ e.date \in w[1] .. w[2]
    BY <1>2
  <2>2. QED
    BY <1>5, <2>1 DEF Between
<1>8. Anchor(E) + Total(Between(E, v[1], d)) = Cash - Total(Anchored(E, w[1])) + Total(Between(E, w[1], d))
  BY <1>2, <1>4, WalkedFrom
<1>9. Anchor(F) + Total(Between(F, w[1], d)) = Cash - Total(Anchored(F, w[1])) + Total(Between(F, w[1], d))
  BY <1>2, <1>4, WalkedFrom
<1>10. QED
  BY <1>3, <1>6, <1>7, <1>8, <1>9

\* A day's balance does not depend on the period the curve is drawn for, in the
\* base or in a simulation (BalanceSameInEveryWindow).
THEOREM OneBalanceADay == Spec => []BalanceSameInEveryWindow
<1>1. Inv => BalanceSameInEveryWindow
  <2> SUFFICES ASSUME Inv, PurchasesNear, AllPickedNear, NEW ids \in Simulations,
                      NEW v \in Windows, Reference \in v[1] .. v[2],
                      NEW w \in Windows, Reference \in w[1] .. w[2],
                      NEW d \in DOMAIN Points(ids, v[1], v[2]) \cap DOMAIN Points(ids, w[1], w[2])
               PROVE  Points(ids, v[1], v[2])[d] = Points(ids, w[1], w[2])[d]
    BY DEF BalanceSameInEveryWindow, AllPickedNear
  <2>1. d \in v[1] .. v[2] /\ d \in w[1] .. w[2]
    BY DEF Points
  <2>2. v[1] \in Int /\ w[1] \in Int
    BY PeriodTyped
  <2>3. CASE v[1] <= w[1]
    BY <2>1, <2>3, SameBalance
  <2>4. CASE w[1] <= v[1]
    BY <2>1, <2>4, SameBalance
  <2>5. QED
    BY <2>2, <2>3, <2>4
<1>2. QED
  BY <1>1, Inductive, PTL

-----------------------------------------------------------------------------
(* Plans: the sums                                                         *)

Plan == [InstallmentIds -> Installment \cup {NoInstallment}]
Allocation == InstallmentIds \X Payments \X (Nat \ {0})
Row == InstallmentIds \X Payments \X (Nat \ {0}) \X (Nat \ {0})

\* What the links settled is the sum of the payments' worth.
LEMMA SettledSums ==
  ASSUME NEW links, IsFiniteSet(links)
  PROVE  Settled(links) = SumOf(Worth, links)
<1> DEFINE Turns(g) == g = [s \in SUBSET links |-> IF s = {} THEN 0 ELSE Worth[OneOf(s)] + g[s \ {OneOf(s)}]]
<1>1. PICK g : g = CHOOSE it : Turns(it)
  OBVIOUS
<1>2. Settled(links) = g[links]
  BY <1>1 DEF Settled, MapThenSumSet, MapThenFoldSet, OneOf
<1>3. \A h : Sums(h, Worth, links) <=> Turns(h)
  BY DEF Sums
<1> HIDE DEF Turns
<1>4. PICK h : Sums(h, Worth, links) /\ SumOf(Worth, links) = h[links]
  BY SumSums
<1>5. Sums(g, Worth, links)
  BY <1>1, <1>3, <1>4
<1>6. g[links] = h[links]
  BY <1>4, <1>5, SumsAgree
<1>7. QED
  BY <1>2, <1>4, <1>6

LEMMA RemainingTyped ==
  ASSUME NEW links, links \subseteq Payments
  PROVE  Remaining(links) \in Nat
<1>1. IsFiniteSet(links) /\ (\A t \in links : Worth[t] \in Int) /\ Owed \in Nat
  BY PlansAssumption, FS_Subset
<1>2. Settled(links) \in Int
  BY <1>1, SettledSums, SumType
<1>3. \A t \in links : Worth[t] \in Nat \ {0}
  BY PlansAssumption
<1>4. SumOf(Worth, links) \in Nat
  BY <1>1, <1>3, SumOfPositive
<1>5. Settled(links) \in Nat
  BY <1>1, <1>4, SettledSums
<1>6. QED
  BY <1>1, <1>5 DEF Remaining

\* What an installment has realized is the sum of its rows: nothing, only when
\* it has none.
LEMMA RealizedSums ==
  ASSUME NEW rows, IsFiniteSet(rows), NEW i
  PROVE  Realized(i, rows) = SumOf([a \in rows |-> a[3]], AllocationsOf(i, rows))
<1> DEFINE U == AllocationsOf(i, rows)
           f == [a \in rows |-> a[3]]
           Turns(g) == g = [s \in SUBSET U |-> IF s = {} THEN 0 ELSE OneOf(s)[3] + g[s \ {OneOf(s)}]]
<1>1. PICK g : g = CHOOSE it : Turns(it)
  OBVIOUS
<1>2. Realized(i, rows) = g[U]
  BY <1>1 DEF Realized, MapThenSumSet, MapThenFoldSet, OneOf
<1>3. U \subseteq rows /\ IsFiniteSet(U)
  <2>1. U \subseteq rows
    BY DEF AllocationsOf
  <2>2. QED
    BY <2>1, FS_Subset
<1>4. \A s \in SUBSET U : s # {} => f[OneOf(s)] = OneOf(s)[3]
  BY <1>3 DEF OneOf
<1>5. \A h : Sums(h, f, U) <=> Turns(h)
  <2> SUFFICES ASSUME NEW h PROVE Sums(h, f, U) <=> Turns(h)
    OBVIOUS
  <2>1. [s \in SUBSET U |-> IF s = {} THEN 0 ELSE f[OneOf(s)] + h[s \ {OneOf(s)}]]
          = [s \in SUBSET U |-> IF s = {} THEN 0 ELSE OneOf(s)[3] + h[s \ {OneOf(s)}]]
    BY <1>4
  <2>2. QED
    BY <2>1 DEF Sums
<1> HIDE DEF f, Turns, U
<1>6. PICK h : Sums(h, f, U) /\ SumOf(f, U) = h[U]
  BY <1>3, SumSums
<1>7. Sums(g, f, U)
  BY <1>1, <1>5, <1>6
<1>8. g[U] = h[U]
  BY <1>3, <1>6, <1>7, SumsAgree
<1>9. QED
  BY <1>2, <1>6, <1>8 DEF f, U

LEMMA RealizedTyped ==
  ASSUME NEW rows, IsFiniteSet(rows), rows \subseteq Row, NEW i
  PROVE  Realized(i, rows) \in Nat /\ (Realized(i, rows) = 0 <=> \A a \in rows : a[1] # i)
<1>1. PICK f, U : f = [a \in rows |-> a[3]] /\ U = AllocationsOf(i, rows)
  OBVIOUS
<1>2. IsFiniteSet(U) /\ \A a \in U : f[a] \in Nat \ {0}
  <2>1. U \subseteq rows
    BY <1>1 DEF AllocationsOf
  <2>2. \A a \in rows : a[3] \in Nat \ {0}
    BY DEF Row
  <2>3. QED
    BY <1>1, <2>1, <2>2, FS_Subset
<1>3. SumOf(f, U) \in Nat /\ (SumOf(f, U) = 0 <=> U = {})
  BY <1>2, SumOfPositive
<1>4. U = {} <=> \A a \in rows : a[1] # i
  BY <1>1 DEF AllocationsOf
<1>5. QED
  BY <1>1, <1>3, <1>4, RealizedSums

\* What is reserved is the sum of the shortfalls.
LEMMA ReservedSums ==
  ASSUME NEW plan, NEW rows
  PROVE  Reserved(plan, rows)
           = SumOf([i \in InstallmentIds |-> Shortfall(plan, rows, i)], PlanOf(plan) \ Affected(plan, rows))
<1> DEFINE U == PlanOf(plan) \ Affected(plan, rows)
           f == [i \in InstallmentIds |-> Shortfall(plan, rows, i)]
           Turns(g) == g = [s \in SUBSET U |-> IF s = {} THEN 0 ELSE Shortfall(plan, rows, OneOf(s)) + g[s \ {OneOf(s)}]]
<1>1. PICK g : g = CHOOSE it : Turns(it)
  OBVIOUS
<1>2. Reserved(plan, rows) = g[U]
  BY <1>1 DEF Reserved, MapThenSumSet, MapThenFoldSet, OneOf
<1>3. U \subseteq InstallmentIds /\ IsFiniteSet(U)
  <2>1. U \subseteq InstallmentIds
    BY DEF PlanOf
  <2>2. QED
    BY <2>1, PlansAssumption, FS_Subset
<1>4. \A s \in SUBSET U : s # {} => f[OneOf(s)] = Shortfall(plan, rows, OneOf(s))
  BY <1>3 DEF OneOf
<1>5. \A h : Sums(h, f, U) <=> Turns(h)
  <2> SUFFICES ASSUME NEW h PROVE Sums(h, f, U) <=> Turns(h)
    OBVIOUS
  <2>1. [s \in SUBSET U |-> IF s = {} THEN 0 ELSE f[OneOf(s)] + h[s \ {OneOf(s)}]]
          = [s \in SUBSET U |-> IF s = {} THEN 0 ELSE Shortfall(plan, rows, OneOf(s)) + h[s \ {OneOf(s)}]]
    BY <1>4
  <2>2. QED
    BY <2>1 DEF Sums
<1> HIDE DEF f, Turns, U
<1>6. PICK h : Sums(h, f, U) /\ SumOf(f, U) = h[U]
  BY <1>3, SumSums
<1>7. Sums(g, f, U)
  BY <1>1, <1>5, <1>6
<1>8. g[U] = h[U]
  BY <1>3, <1>6, <1>7, SumsAgree
<1>9. QED
  BY <1>2, <1>6, <1>8 DEF f, U

\* What is planned is the sum of the amounts.
LEMMA PlannedSums ==
  ASSUME NEW plan, NEW U, U \subseteq InstallmentIds
  PROVE  PlannedFor(plan, U) = SumOf([i \in InstallmentIds |-> plan[i].amount], U)
<1> DEFINE f == [i \in InstallmentIds |-> plan[i].amount]
           Turns(g) == g = [s \in SUBSET U |-> IF s = {} THEN 0 ELSE plan[OneOf(s)].amount + g[s \ {OneOf(s)}]]
<1>1. PICK g : g = CHOOSE it : Turns(it)
  OBVIOUS
<1>2. PlannedFor(plan, U) = g[U]
  BY <1>1 DEF PlannedFor, MapThenSumSet, MapThenFoldSet, OneOf
<1>3. IsFiniteSet(U)
  BY PlansAssumption, FS_Subset
<1>4. \A s \in SUBSET U : s # {} => f[OneOf(s)] = plan[OneOf(s)].amount
  BY DEF OneOf
<1>5. \A h : Sums(h, f, U) <=> Turns(h)
  <2> SUFFICES ASSUME NEW h PROVE Sums(h, f, U) <=> Turns(h)
    OBVIOUS
  <2>1. [s \in SUBSET U |-> IF s = {} THEN 0 ELSE f[OneOf(s)] + h[s \ {OneOf(s)}]]
          = [s \in SUBSET U |-> IF s = {} THEN 0 ELSE plan[OneOf(s)].amount + h[s \ {OneOf(s)}]]
    BY <1>4
  <2>2. QED
    BY <2>1 DEF Sums
<1> HIDE DEF f, Turns
<1>6. PICK h : Sums(h, f, U) /\ SumOf(f, U) = h[U]
  BY <1>3, SumSums
<1>7. Sums(g, f, U)
  BY <1>1, <1>5, <1>6
<1>8. g[U] = h[U]
  BY <1>3, <1>6, <1>7, SumsAgree
<1>9. QED
  BY <1>2, <1>6, <1>8 DEF f

-----------------------------------------------------------------------------
(* Plans: splitting an amount                                              *)

\* n times the same.
LEMMA SumConstant ==
  ASSUME NEW f, NEW q \in Int, NEW n \in Nat, \A k \in 1 .. n : f[k] = q
  PROVE  SumOf(f, 1 .. n) = n * q
<1> DEFINE Bad == {m \in 0 .. n : SumOf(f, 1 .. m) # m * q}
<1>1. SUFFICES ASSUME Bad # {} PROVE FALSE
  OBVIOUS
<1>2. PICK m \in Bad : \A y \in Bad : m <= y
  <2>1. Bad \subseteq Nat
    OBVIOUS
  <2> HIDE DEF Bad
  <2>2. QED
    BY <1>1, <2>1, LeastOf
<1>3. m \in 0 .. n /\ SumOf(f, 1 .. m) # m * q
  OBVIOUS
<1>4. m # 0
  <2>1. ASSUME m = 0 PROVE FALSE
    <3>1. 1 .. m = {}
      BY <2>1
    <3>2. SumOf(f, 1 .. m) = 0
      BY <3>1, SumEmpty
    <3>3. QED
      BY <1>3, <2>1, <3>2
  <2>2. QED
    BY <2>1
<1>5. PICK p : p = m - 1
  OBVIOUS
<1>6. p \in 0 .. n /\ p \in Nat /\ p < m /\ m = p + 1 /\ m \in 1 .. n
  BY <1>3, <1>4, <1>5
<1>7. SumOf(f, 1 .. p) = p * q
  <2>1. p \notin Bad
    <3> HIDE DEF Bad
    <3>1. QED
      BY <1>2, <1>3, <1>6
  <2>2. QED
    BY <1>6, <2>1
<1>8. 1 .. m = (1 .. p) \cup {m} /\ m \notin 1 .. p
  BY <1>6
<1>9. IsFiniteSet(1 .. p) /\ (\A k \in 1 .. p : f[k] \in Int) /\ f[m] = q
  <2>1. IsFiniteSet(1 .. p)
    BY <1>6, FS_Interval
  <2>2. QED
    BY <1>6, <2>1
<1>10. SumOf(f, 1 .. m) = SumOf(f, 1 .. p) + q
  BY <1>8, <1>9, SumWith
<1>11. m * q = p * q + q
  BY <1>6
<1>12. QED
  BY <1>3, <1>7, <1>10, <1>11

\* Equal shares and a last one that absorbs the rest make up the whole.
LEMMA SumShares ==
  ASSUME NEW total \in Int, NEW n \in Nat \ {0}, NEW q \in Int,
         NEW h, h = [k \in 1 .. n |-> IF k < n THEN q ELSE total - (n - 1) * q]
  PROVE  SumOf(h, 1 .. n) = total /\ h \in [1 .. n -> Int]
<1>1. PICK m : m = n - 1
  OBVIOUS
<1>2. m \in Nat /\ n = m + 1 /\ m * q \in Int
  BY <1>1
<1>3. h[n] = total - m * q /\ \A k \in 1 .. m : h[k] = q
  BY <1>1, <1>2
<1>4. SumOf(h, 1 .. m) = m * q
  BY <1>2, <1>3, SumConstant
<1>5. 1 .. n = (1 .. m) \cup {n} /\ n \notin 1 .. m
  BY <1>2
<1>6. IsFiniteSet(1 .. m)
  BY <1>2, FS_Interval
<1>7. h[n] \in Int
  BY <1>2, <1>3
<1>8. SumOf(h, 1 .. n) = SumOf(h, 1 .. m) + h[n]
  <2>1. \A k \in 1 .. m : h[k] \in Int
    BY <1>3
  <2>2. PICK S : S = 1 .. m
    OBVIOUS
  <2>3. 1 .. n = S \cup {n} /\ n \notin S /\ IsFiniteSet(S) /\ \A k \in S : h[k] \in Int
    BY <1>5, <1>6, <2>1, <2>2
  <2>4. SumOf(h, S \cup {n}) = SumOf(h, S) + h[n]
    BY <1>7, <2>3, SumWith
  <2>5. QED
    BY <2>2, <2>3, <2>4
<1>9. SumOf(h, 1 .. n) = total
  BY <1>2, <1>3, <1>4, <1>8
<1>10. \A k \in 1 .. n : h[k] \in Int
  BY <1>3, <1>5, <1>7
<1>11. QED
  BY <1>9, <1>10

\* As many parts as asked for, or as it takes; together they are the whole.
Parts(amounts, total) == \E n \in Nat \ {0} : amounts \in [1 .. n -> Int] /\ SumOf(amounts, 1 .. n) = total

LEMMA EvenlyParts ==
  ASSUME NEW total \in Int, NEW n \in Nat \ {0}
  PROVE  Evenly(total, n) \in [1 .. n -> Int] /\ SumOf(Evenly(total, n), 1 .. n) = total
<1>1. total \div n \in Int
  OBVIOUS
<1>2. Evenly(total, n) = [k \in 1 .. n |-> IF k < n THEN total \div n ELSE total - (n - 1) * (total \div n)]
  BY DEF Evenly
<1>3. QED
  BY <1>1, <1>2, SumShares

LEMMA ByAmountParts ==
  ASSUME NEW total \in Int, NEW value \in Int \ {0}
  PROVE  Parts(ByAmount(total, value), total)
<1>1. PICK needed : needed = IF value < 0 THEN 1 ELSE CeilDiv(total, value)
  OBVIOUS
<1>2. needed \in Int
  <2>1. CASE value < 0
    BY <1>1, <2>1
  <2>2. CASE value > 0
    <3>1. (-total) \div value \in Int
      BY <2>2
    <3>2. QED
      BY <1>1, <2>2, <3>1 DEF CeilDiv
  <2>3. QED
    BY <2>1, <2>2
<1>3. PICK n : n = Max({1, needed})
  OBVIOUS
<1>4. n \in Nat \ {0}
  <2>1. \E x \in {1, needed} : \A y \in {1, needed} : x >= y
    BY <1>2
  <2>2. n \in {1, needed} /\ \A y \in {1, needed} : n >= y
    BY <1>3, <2>1 DEF Max
  <2>3. QED
    BY <1>2, <2>2
<1>5. ByAmount(total, value) = [k \in 1 .. n |-> IF k < n THEN value ELSE total - (n - 1) * value]
  BY <1>1, <1>3 DEF ByAmount
<1>6. SumOf(ByAmount(total, value), 1 .. n) = total /\ ByAmount(total, value) \in [1 .. n -> Int]
  BY <1>4, <1>5, SumShares
<1>7. QED
  BY <1>4, <1>6 DEF Parts

\* What shares come to, as the model adds.
SharesOf(amounts) == MapThenSumSet(LAMBDA k : amounts[k], DOMAIN amounts)

LEMMA SharesSums ==
  ASSUME NEW amounts, NEW n \in Nat, DOMAIN amounts = 1 .. n
  PROVE  SharesOf(amounts) = SumOf(amounts, 1 .. n)
<1> DEFINE U == 1 .. n
           Turns(g) == g = [s \in SUBSET U |-> IF s = {} THEN 0 ELSE amounts[OneOf(s)] + g[s \ {OneOf(s)}]]
<1>1. PICK g : g = CHOOSE it : Turns(it)
  OBVIOUS
<1>2. SharesOf(amounts) = g[U]
  BY <1>1 DEF SharesOf, MapThenSumSet, MapThenFoldSet, OneOf
<1>3. IsFiniteSet(U)
  BY FS_Interval
<1>4. \A h : Sums(h, amounts, U) <=> Turns(h)
  BY DEF Sums
<1> HIDE DEF Turns, U
<1>5. PICK h : Sums(h, amounts, U) /\ SumOf(amounts, U) = h[U]
  BY <1>3, SumSums
<1>6. Sums(g, amounts, U)
  BY <1>1, <1>4, <1>5
<1>7. g[U] = h[U]
  BY <1>3, <1>5, <1>6, SumsAgree
<1>8. QED
  BY <1>2, <1>5, <1>7 DEF U

\* Into however many shares, or shares of whatever value, an amount is split
\* (splitEvenly, splitByAmount): no cent is lost and none is made, though the
\* division is truncated and the value need not divide it.
THEOREM NoCentLost ==
  ASSUME NEW total \in Int
  PROVE  /\ \A n \in Nat \ {0} : SharesOf(Evenly(total, n)) = total
         /\ \A value \in Int \ {0} : SharesOf(ByAmount(total, value)) = total
<1>1. ASSUME NEW n \in Nat \ {0} PROVE SharesOf(Evenly(total, n)) = total
  <2>1. PICK amounts : amounts = Evenly(total, n)
    OBVIOUS
  <2>2. DOMAIN amounts = 1 .. n /\ SumOf(amounts, 1 .. n) = total
    BY <2>1, EvenlyParts
  <2>3. QED
    BY <2>1, <2>2, SharesSums
<1>2. ASSUME NEW value \in Int \ {0} PROVE SharesOf(ByAmount(total, value)) = total
  <2>1. PICK amounts : amounts = ByAmount(total, value)
    OBVIOUS
  <2>2. PICK n \in Nat \ {0} : DOMAIN amounts = 1 .. n /\ SumOf(amounts, 1 .. n) = total
    BY <2>1, ByAmountParts DEF Parts
  <2>3. QED
    BY <2>1, <2>2, SharesSums
<1>3. QED
  BY <1>1, <1>2

\* The drafts of parts, one month each, are installments in a row.
Batch(drafts, n) == n \in Nat \ {0} /\ drafts \in [1 .. n -> [amount : Int, month : Nat \ {0}]]

LEMMA DraftsBatch ==
  ASSUME NEW n \in Nat \ {0}, NEW amounts \in [1 .. n -> Int], NEW months,
         \A k \in 1 .. n : months[k] \in Nat \ {0}
  PROVE  /\ Batch(Drafts(amounts, months), n)
         /\ \A k \in 1 .. n : /\ Drafts(amounts, months)[k].amount = amounts[k]
                              /\ Drafts(amounts, months)[k].month = months[k]
BY DEF Drafts, Batch

\* A batch is as long as it has places.
LEMMA BatchLength ==
  ASSUME NEW drafts, NEW n, Batch(drafts, n)
  PROVE  Len(drafts) = n /\ DOMAIN drafts = 1 .. n
BY DEF Batch

-----------------------------------------------------------------------------
(* Plans: the months and amounts of a readjustment                         *)

\* Finitely many numbers have a greatest one.
LEMMA GreatestOf ==
  ASSUME NEW S, IsFiniteSet(S), S \subseteq Int, S # {}
  PROVE  Max(S) \in S /\ \A y \in S : y <= Max(S)
<1> DEFINE Top(R) == \E x \in R : \A y \in R : x >= y
           Bad == {R \in SUBSET S : R # {} /\ ~Top(R)}
<1>1. \A R \in SUBSET S : IsFiniteSet(R)
  BY FS_Subset
<1>2. Bad = {}
  <2>1. SUFFICES ASSUME Bad # {} PROVE FALSE
    OBVIOUS
  <2>2. PICK R \in Bad : \A T \in Bad : Cardinality(R) <= Cardinality(T)
    BY <1>1, <2>1, SmallestOf
  <2>3. PICK x \in R : TRUE
    OBVIOUS
  <2>4. PICK Q : Q = R \ {x}
    OBVIOUS
  <2>5. Q \in SUBSET S /\ Q \notin Bad /\ R = Q \cup {x} /\ x \in Int /\ Q \subseteq Int
    BY <1>1, <2>2, <2>3, <2>4, Smaller
  <2>6. CASE Q = {}
    <3>1. x \in R /\ \A y \in R : x >= y
      BY <2>5, <2>6
    <3>2. QED
      BY <2>2, <3>1
  <2>7. CASE Q # {}
    <3>1. PICK z \in Q : \A y \in Q : z >= y
      BY <2>5, <2>7
    <3>2. z \in Int /\ x \in Int /\ z \in R /\ x \in R
      BY <2>5, <3>1
    <3>3. Top(R)
      <4>1. CASE z >= x
        <5>1. \A y \in R : z >= y
          BY <2>5, <3>1, <4>1
        <5>2. QED
          BY <3>2, <5>1
      <4>2. CASE x >= z
        <5>1. \A y \in Q : y \in Int /\ z >= y
          BY <2>5, <3>1
        <5>2. \A y \in R : x >= y
          BY <2>5, <3>2, <4>2, <5>1
        <5>3. QED
          BY <3>2, <5>2
      <4>3. QED
        BY <3>2, <4>1, <4>2
    <3>4. QED
      BY <2>2, <3>3
  <2>8. QED
    BY <2>6, <2>7
<1>3. Top(S)
  BY <1>2
<1>4. Max(S) \in S /\ \A y \in S : Max(S) >= y
  BY <1>3 DEF Max
<1>5. QED
  BY <1>4

MonthsOf(plan, those) == {plan[i].month : i \in those}

\* Installments of a plan are finitely many, with amounts and months.
LEMMA PlannedTyped ==
  ASSUME NEW plan \in Plan, NEW those, those \subseteq PlanOf(plan), those # {}
  PROVE  /\ IsFiniteSet(those) /\ Cardinality(those) \in Nat \ {0}
         /\ those \subseteq InstallmentIds
         /\ \A i \in those : plan[i].amount \in Int /\ plan[i].month \in 1 .. LastMonth /\ plan[i].month \in Nat \ {0}
         /\ IsFiniteSet(MonthsOf(plan, those)) /\ MonthsOf(plan, those) # {}
         /\ MonthsOf(plan, those) \subseteq Nat \ {0}
         /\ IsFiniteSet({plan[i].amount : i \in those}) /\ {plan[i].amount : i \in those} # {}
<1>1. those \subseteq InstallmentIds /\ \A i \in those : plan[i] \in Installment
  BY DEF PlanOf, Plan
<1>2. IsFiniteSet(those) /\ Cardinality(those) \in Nat \ {0}
  <2>1. IsFiniteSet(those)
    BY <1>1, PlansAssumption, FS_Subset
  <2>2. QED
    BY <2>1, FS_CardinalityType, FS_EmptySet
<1>3. \A i \in those : plan[i].amount \in Int /\ plan[i].month \in 1 .. LastMonth /\ plan[i].month \in Nat \ {0}
  BY <1>1, PlansAssumption DEF Installment
<1>4. IsFiniteSet(MonthsOf(plan, those))
  <2>1. PICK f : f = [i \in those |-> plan[i].month]
    OBVIOUS
  <2>2. DOMAIN f = those /\ MonthsOf(plan, those) = {f[i] : i \in DOMAIN f}
    BY <2>1 DEF MonthsOf
  <2>3. QED
    BY <1>2, <2>2, FiniteImage
<1>5. IsFiniteSet({plan[i].amount : i \in those})
  <2>1. PICK f : f = [i \in those |-> plan[i].amount]
    OBVIOUS
  <2>2. DOMAIN f = those /\ {plan[i].amount : i \in those} = {f[i] : i \in DOMAIN f}
    BY <2>1
  <2>3. QED
    BY <1>2, <2>2, FiniteImage
<1>6. QED
  BY <1>1, <1>2, <1>3, <1>4, <1>5 DEF MonthsOf

\* The k-th month in order is one of them, and the last one is the latest.
LEMMA KthMonthOf ==
  ASSUME NEW plan \in Plan, NEW those, those \subseteq PlanOf(plan), those # {},
         NEW k \in 1 .. Cardinality(those)
  PROVE  /\ KthMonth(plan, those, k) \in MonthsOf(plan, those)
         /\ k = Cardinality(those) => \A i \in those : plan[i].month <= KthMonth(plan, those, k)
<1> DEFINE M == MonthsOf(plan, those)
           Upto(m) == {i \in those : plan[i].month <= m}
           Below(m) == {i \in those : plan[i].month < m}
           Enough == {m \in M : Cardinality(Upto(m)) >= k}
<1>1. /\ IsFiniteSet(those) /\ Cardinality(those) \in Nat \ {0} /\ k \in Nat \ {0} /\ k <= Cardinality(those)
      /\ \A i \in those : plan[i].month \in Nat /\ plan[i].month \in M
      /\ IsFiniteSet(M) /\ M # {} /\ M \subseteq Nat
  <2>1. /\ IsFiniteSet(those) /\ Cardinality(those) \in Nat \ {0}
        /\ \A i \in those : plan[i].month \in Nat \ {0}
        /\ IsFiniteSet(MonthsOf(plan, those)) /\ MonthsOf(plan, those) # {}
        /\ MonthsOf(plan, those) \subseteq Nat \ {0}
    BY PlannedTyped
  <2>2. \A i \in those : plan[i].month \in M
    BY DEF MonthsOf
  <2>3. QED
    BY <2>1, <2>2
<1>2. \A m : Cardinality(Upto(m)) \in Nat /\ Cardinality(Below(m)) \in Nat /\ IsFiniteSet(Upto(m)) /\ IsFiniteSet(Below(m))
  <2> SUFFICES ASSUME NEW m PROVE Cardinality(Upto(m)) \in Nat /\ Cardinality(Below(m)) \in Nat /\ IsFiniteSet(Upto(m)) /\ IsFiniteSet(Below(m))
    OBVIOUS
  <2>1. Upto(m) \subseteq those /\ Below(m) \subseteq those
    OBVIOUS
  <2>2. IsFiniteSet(Upto(m)) /\ IsFiniteSet(Below(m))
    BY <1>1, <2>1, FS_Subset
  <2>3. QED
    BY <2>2, FS_CardinalityType
<1>3. Max(M) \in Enough
  <2>1. Max(M) \in M /\ \A y \in M : y <= Max(M)
    BY <1>1, GreatestOf
  <2>2. Upto(Max(M)) = those
    BY <1>1, <2>1
  <2>3. QED
    BY <1>1, <2>1, <2>2
<1>4. PICK m \in Enough : \A y \in Enough : m <= y
  <2>1. Enough \subseteq Nat
    BY <1>1
  <2> HIDE DEF Enough
  <2>2. QED
    BY <1>3, <2>1, LeastOf
<1>5. Cardinality(Below(m)) < k
  <2>1. CASE Below(m) = {}
    <3>1. Cardinality(Below(m)) = 0
      BY <2>1, FS_EmptySet
    <3>2. k \in Nat /\ 0 < k
      BY <1>1
    <3> HIDE DEF Below
    <3>3. QED
      BY <3>1, <3>2
  <2>2. CASE Below(m) # {}
    <3>1. PICK L : L = {plan[i].month : i \in Below(m)}
      OBVIOUS
    <3>2. L \subseteq M /\ IsFiniteSet(L) /\ L # {} /\ L \subseteq Int
      <4>1. L \subseteq M
        BY <1>1, <3>1
      <4>2. L # {}
        BY <2>2, <3>1
      <4> HIDE DEF M
      <4>3. L \in SUBSET M
        BY <4>1
      <4>4. IsFiniteSet(L)
        BY <1>1, <4>3, FS_Subset
      <4>5. QED
        BY <1>1, <4>1, <4>2, <4>4
    <3>3. PICK x : x = Max(L)
      OBVIOUS
    <3>4. x \in L /\ \A y \in L : y <= x
      BY <3>2, <3>3, GreatestOf
    <3>5. x \in M /\ x \in Nat /\ m \in Nat /\ x < m
      BY <1>1, <1>4, <3>1, <3>2, <3>4
    <3>6. Upto(x) = Below(m)
      <4>1. ASSUME NEW i \in those PROVE plan[i].month <= x <=> plan[i].month < m
        <5>1. plan[i].month \in Nat
          BY <1>1
        <5>2. plan[i].month < m => plan[i].month \in L
          BY <3>1
        <5>3. QED
          BY <3>4, <3>5, <5>1, <5>2
      <4>2. QED
        BY <4>1
    <3>7. x \notin Enough
      <4>1. ~(m <= x)
        BY <3>5
      <4> HIDE DEF Enough
      <4>2. QED
        BY <1>4, <4>1
    <3>8. ~(Cardinality(Upto(x)) >= k)
      BY <3>5, <3>7
    <3>9. QED
      BY <1>1, <1>2, <3>6, <3>8
  <2>3. QED
    BY <2>1, <2>2
<1>6. PICK kth : kth = KthMonth(plan, those, k)
  OBVIOUS
<1>7. kth \in M /\ Cardinality(Below(kth)) < k /\ Cardinality(Upto(kth)) >= k
  <2>1. m \in M /\ Cardinality(Below(m)) < k /\ Cardinality(Upto(m)) >= k
    BY <1>4, <1>5
  <2>2. kth = CHOOSE y \in M : Cardinality(Below(y)) < k /\ Cardinality(Upto(y)) >= k
    BY <1>6 DEF KthMonth, MonthsOf
  <2> HIDE DEF M, Below, Upto
  <2>3. QED
    BY <2>1, <2>2
<1>8. ASSUME k = Cardinality(those) PROVE \A i \in those : plan[i].month <= kth
  <2>1. Upto(kth) \in SUBSET those
    OBVIOUS
  <2>2. Cardinality(Upto(kth)) <= Cardinality(those) /\ (Cardinality(those) = Cardinality(Upto(kth)) => those = Upto(kth))
    <3> HIDE DEF Upto
    <3>1. QED
      BY <1>1, <2>1, FS_Subset
  <2>3. Cardinality(those) = Cardinality(Upto(kth))
    <3>1. Cardinality(those) \in Nat /\ Cardinality(Upto(kth)) \in Nat
      BY <1>1, <1>2
    <3>2. Cardinality(Upto(kth)) >= Cardinality(those)
      BY <1>7, <1>8
    <3> HIDE DEF Upto
    <3>3. QED
      BY <2>2, <3>1, <3>2
  <2>4. those = Upto(kth)
    BY <2>2, <2>3
  <2>5. QED
    BY <2>4
<1>9. QED
  BY <1>6, <1>7, <1>8

\* Either strategy drafts installments that make up the balance; those of
\* `redistribuir` keep to the months there were, the last one included.
Drafted(drafts, n, balance) == Batch(drafts, n) /\ SumOf([k \in 1 .. n |-> drafts[k].amount], 1 .. n) = balance
SameMonths(drafts, n, plan, those) ==
  /\ \A k \in 1 .. n : drafts[k].month \in MonthsOf(plan, those)
  /\ \E k \in 1 .. n : \A i \in those : plan[i].month <= drafts[k].month

LEMMA RedistributeDrafts ==
  ASSUME NEW plan \in Plan, NEW those, those \subseteq PlanOf(plan), those # {}, NEW balance \in Int
  PROVE  \E n : /\ Drafted(Redistribute(balance, plan, those), n, balance)
                /\ SameMonths(Redistribute(balance, plan, those), n, plan, those)
<1>1. PICK n, amounts : n = Cardinality(those) /\ amounts = Evenly(balance, n)
  OBVIOUS
<1>2. PICK months : months = [k \in DOMAIN amounts |-> KthMonth(plan, those, k)]
  OBVIOUS
<1>3. PICK drafts : drafts = Redistribute(balance, plan, those)
  OBVIOUS
<1>4. drafts = Drafts(amounts, months)
  BY <1>1, <1>2, <1>3 DEF Redistribute
<1>5. n \in Nat \ {0} /\ MonthsOf(plan, those) \subseteq Nat \ {0}
  BY <1>1, PlannedTyped
<1>6. amounts \in [1 .. n -> Int] /\ SumOf(amounts, 1 .. n) = balance
  BY <1>1, <1>5, EvenlyParts
<1>7. \A k \in 1 .. n : months[k] = KthMonth(plan, those, k)
  BY <1>2, <1>6
<1>8. \A k \in 1 .. n : months[k] \in MonthsOf(plan, those) /\ months[k] \in Nat \ {0}
  BY <1>1, <1>5, <1>7, KthMonthOf
<1>9. Batch(drafts, n) /\ \A k \in 1 .. n : drafts[k].amount = amounts[k] /\ drafts[k].month = months[k]
  BY <1>4, <1>5, <1>6, <1>8, DraftsBatch
<1>10. [k \in 1 .. n |-> drafts[k].amount] = amounts
  BY <1>6, <1>9
<1>11. n \in 1 .. n /\ \A i \in those : plan[i].month <= months[n]
  <2>1. n \in 1 .. n
    BY <1>5
  <2>2. QED
    BY <1>1, <1>7, <2>1, KthMonthOf
<1>12. Drafted(drafts, n, balance) /\ SameMonths(drafts, n, plan, those)
  BY <1>6, <1>8, <1>9, <1>10, <1>11 DEF Drafted, SameMonths
<1>13. QED
  BY <1>3, <1>12

LEMMA ReduceTermDrafts ==
  ASSUME NEW plan \in Plan, NEW those, those \subseteq PlanOf(plan), those # {}, NEW balance \in Int,
         Max({plan[i].amount : i \in those}) # 0
  PROVE  \E n : Drafted(ReduceTerm(balance, plan, those), n, balance)
<1>1. PICK value : value = Max({plan[i].amount : i \in those})
  OBVIOUS
<1>2. value \in Int \ {0}
  <2>1. PICK S : S = {plan[i].amount : i \in those}
    OBVIOUS
  <2>2. IsFiniteSet(S) /\ S # {} /\ S \subseteq Int
    BY <2>1, PlannedTyped
  <2>3. Max(S) \in S
    BY <2>2, GreatestOf
  <2>4. QED
    BY <1>1, <2>1, <2>2, <2>3
<1>3. PICK amounts, first : amounts = ByAmount(balance, value) /\ first = First(plan, those)
  OBVIOUS
<1>4. PICK n \in Nat \ {0} : amounts \in [1 .. n -> Int] /\ SumOf(amounts, 1 .. n) = balance
  BY <1>2, <1>3, ByAmountParts DEF Parts
<1>5. first \in Nat \ {0}
  <2>1. PICK M : M = MonthsOf(plan, those)
    OBVIOUS
  <2>2. M \subseteq Nat \ {0} /\ M # {}
    BY <2>1, PlannedTyped
  <2>3. \E x \in M : \A y \in M : x <= y
    <3>1. M \subseteq Nat
      BY <2>2
    <3>2. QED
      BY <2>2, <3>1, LeastOf
  <2>4. first = CHOOSE x \in M : \A y \in M : x <= y
    BY <1>3, <2>1 DEF First, MonthsOf, Min
  <2>5. QED
    BY <2>2, <2>3, <2>4
<1>6. PICK months : months = [k \in DOMAIN amounts |-> first + k - 1]
  OBVIOUS
<1>7. \A k \in 1 .. n : months[k] \in Nat \ {0}
  BY <1>4, <1>5, <1>6
<1>8. PICK drafts : drafts = ReduceTerm(balance, plan, those)
  OBVIOUS
<1>9. drafts = Drafts(amounts, months)
  BY <1>1, <1>3, <1>6, <1>8 DEF ReduceTerm
<1>10. Batch(drafts, n) /\ \A k \in 1 .. n : drafts[k].amount = amounts[k]
  BY <1>4, <1>7, <1>9, DraftsBatch
<1>11. [k \in 1 .. n |-> drafts[k].amount] = amounts
  BY <1>4, <1>10
<1>12. Drafted(drafts, n, balance)
  BY <1>4, <1>10, <1>11 DEF Drafted
<1>13. QED
  BY <1>8, <1>12

-----------------------------------------------------------------------------
(* Plans: inserting a batch                                                *)

\* The ids of a batch are free in the plan, and one for each draft.
NewIds(ids, n, plan) ==
  /\ ids \in [1 .. n -> InstallmentIds \ (PlanOf(plan) \cup PlanOf(planned))]
  /\ \A j, k \in 1 .. n : ids[j] = ids[k] => j = k

LEMMA FreshIdsNew ==
  ASSUME NEW plan, NEW n \in Nat, NEW ids \in FreshIds(plan, n)
  PROVE  NewIds(ids, n, plan)
<1>1. PICK free : free = InstallmentIds \ (PlanOf(plan) \cup PlanOf(planned) \cup Held)
  OBVIOUS
<1> DEFINE Apart(s) == \A j, k \in 1 .. n : j # k => s[j] # s[k]
<1>2. free \subseteq InstallmentIds \ (PlanOf(plan) \cup PlanOf(planned))
  BY <1>1
<1>3. IsFiniteSet(free) /\ Cardinality(free) \in Nat
  <2>1. free \in SUBSET InstallmentIds
    BY <1>2
  <2>2. QED
    BY <2>1, PlansAssumption, FS_Subset, FS_CardinalityType
<1>4. Cardinality(free) >= n /\ ids = CHOOSE s \in [1 .. n -> free] : Apart(s)
  <2>1. ids \in IF Cardinality(free) < n THEN {} ELSE {CHOOSE s \in [1 .. n -> free] : Apart(s)}
    BY <1>1, Zenon DEF FreshIds
  <2> HIDE DEF Apart
  <2>2. QED
    BY <1>3, <2>1
<1>5. \E s \in [1 .. n -> free] : Apart(s)
  <2>1. PICK m : m = Cardinality(free)
    OBVIOUS
  <2>2. m \in Nat
    BY <1>3, <2>1
  <2>3. PICK f : f \in Bijection(1 .. m, free)
    BY <1>3, <2>1, FS_CardinalityType DEF ExistsBijection
  <2>4. f \in [1 .. m -> free] /\ \A j, k \in 1 .. m : j # k => f[j] # f[k]
    BY <2>3 DEF Bijection, Injection, IsInjective
  <2>5. 1 .. n \subseteq 1 .. m
    BY <1>4, <2>1, <2>2
  <2>6. PICK s : s = [k \in 1 .. n |-> f[k]]
    OBVIOUS
  <2>7. s \in [1 .. n -> free] /\ Apart(s)
    BY <2>4, <2>5, <2>6
  <2>8. QED
    BY <2>7
<1>6. ids \in [1 .. n -> free] /\ Apart(ids)
  <2> HIDE DEF Apart
  <2>1. QED
    BY <1>4, <1>5
<1>7. QED
  BY <1>2, <1>6 DEF NewIds

\* An installment of a month is one.
LEMMA InstallmentThere ==
  ASSUME NEW plan \in Plan, NEW i \in InstallmentIds
  PROVE  i \in PlanOf(plan) <=> plan[i] \in Installment
<1>1. plan[i] \in Installment \cup {NoInstallment}
  BY DEF Plan
<1>2. NoInstallment \notin Installment
  <2>1. NoInstallment.month = 0
    BY DEF NoInstallment
  <2>2. \A x \in Installment : x.month # 0
    BY PlansAssumption DEF Installment
  <2>3. QED
    BY <2>1, <2>2
<1>3. QED
  BY <1>1, <1>2 DEF PlanOf

\* A batch that fits is inserted whole, and nothing else changes.
LEMMA InsertedWhole ==
  ASSUME NEW plan \in Plan, NEW drafts, NEW n, Batch(drafts, n), Fits(drafts),
         NEW ids, NewIds(ids, n, plan)
  PROVE  /\ Inserted(plan, drafts, ids) \in Plan
         /\ \A k \in 1 .. n : Inserted(plan, drafts, ids)[ids[k]] = drafts[k]
         /\ \A i \in InstallmentIds : i \notin {ids[k] : k \in 1 .. n} => Inserted(plan, drafts, ids)[i] = plan[i]
         /\ PlanOf(Inserted(plan, drafts, ids)) = PlanOf(plan) \cup {ids[k] : k \in 1 .. n}
<1>1. PICK into : into = Inserted(plan, drafts, ids)
  OBVIOUS
<1>2. /\ DOMAIN drafts = 1 .. n /\ DOMAIN into = InstallmentIds
      /\ ids \in [1 .. n -> InstallmentIds \ PlanOf(plan)]
  BY <1>1 DEF Batch, Inserted, NewIds
<1>3. \A k \in 1 .. n : drafts[k] \in Installment
  <2> SUFFICES ASSUME NEW k \in 1 .. n PROVE drafts[k] \in Installment
    OBVIOUS
  <2>1. drafts[k] \in [amount : Int, month : Nat \ {0}]
    BY DEF Batch
  <2>2. drafts[k].month <= LastMonth
    BY <1>2 DEF Fits
  <2>3. drafts[k].month \in 1 .. LastMonth
    BY <2>1, <2>2, PlansAssumption
  <2>4. QED
    BY <2>1, <2>3 DEF Installment
<1>4. \A k \in 1 .. n : into[ids[k]] = drafts[k]
  <2> SUFFICES ASSUME NEW k \in 1 .. n PROVE into[ids[k]] = drafts[k]
    OBVIOUS
  <2>1. ids[k] \in InstallmentIds
    BY <1>2
  <2>2. (CHOOSE j \in DOMAIN drafts : ids[j] = ids[k]) = k
    BY <1>2 DEF NewIds
  <2>3. QED
    BY <1>1, <1>2, <2>1, <2>2 DEF Inserted
<1>5. \A i \in InstallmentIds : i \notin {ids[k] : k \in 1 .. n} => into[i] = plan[i]
  BY <1>1, <1>2 DEF Inserted
<1>6. into \in Plan
  <2>1. \A i \in InstallmentIds : into[i] \in Installment \cup {NoInstallment}
    <3> SUFFICES ASSUME NEW i \in InstallmentIds PROVE into[i] \in Installment \cup {NoInstallment}
      OBVIOUS
    <3>1. CASE i \in {ids[k] : k \in 1 .. n}
      BY <1>3, <1>4, <3>1
    <3>2. CASE i \notin {ids[k] : k \in 1 .. n}
      BY <1>5, <3>2 DEF Plan
    <3>3. QED
      BY <3>1, <3>2
  <2>2. into = [i \in InstallmentIds |-> into[i]]
    BY <1>1 DEF Inserted
  <2>3. QED
    BY <2>1, <2>2 DEF Plan
<1>7. PlanOf(into) = PlanOf(plan) \cup {ids[k] : k \in 1 .. n}
  <2>1. ASSUME NEW i \in InstallmentIds PROVE i \in PlanOf(into) <=> i \in PlanOf(plan) \cup {ids[k] : k \in 1 .. n}
    <3>1. CASE i \in {ids[k] : k \in 1 .. n}
      <4>1. into[i] \in Installment
        BY <1>3, <1>4, <3>1
      <4>2. QED
        BY <1>6, <3>1, <4>1, InstallmentThere
    <3>2. CASE i \notin {ids[k] : k \in 1 .. n}
      BY <1>5, <3>2 DEF PlanOf
    <3>3. QED
      BY <3>1, <3>2
  <2>2. PlanOf(into) \subseteq InstallmentIds /\ PlanOf(plan) \cup {ids[k] : k \in 1 .. n} \subseteq InstallmentIds
    BY <1>2 DEF PlanOf
  <2>3. QED
    BY <2>1, <2>2
<1>8. QED
  BY <1>1, <1>4, <1>5, <1>6, <1>7

-----------------------------------------------------------------------------
(* Plans: the invariant                                                    *)

\* The tables: an allocation is of a payment to an installment of the plan.
Stored ==
  /\ planned \in Plan
  /\ linked \subseteq Payments
  /\ allocated \subseteq Row /\ IsFiniteSet(allocated)
  /\ \A a \in allocated : a[1] \in PlanOf(planned)

\* A readjustment about to replace: what it deletes is what nothing it read
\* realizes, and what it inserts makes up what the rest leaves over.
Readjusts(q) ==
  /\ q.remaining \in Nat /\ q.plan \in Plan
  /\ q.rows \subseteq Row /\ IsFiniteSet(q.rows)
  /\ q.those = Affected(q.plan, q.rows) /\ q.those # {}
  /\ \E n : /\ Drafted(q.drafts, n, Balance(q.remaining, q.plan, q.rows))
            /\ q.strategy = "redistribuir" => SameMonths(q.drafts, n, q.plan, q.those)

\* What a request in flight has read, stage by stage.
Strategies == {"abater_do_final", "redistribuir"}
Prepared(q) ==
  /\ q.stage = "create" => \E n : Batch(q.drafts, n)
  /\ q.stage \in {"list", "allocations"} => q.remaining \in Nat /\ q.strategy \in Strategies
  /\ q.stage = "allocations" => q.plan \in Plan
  /\ q.stage \in {"add", "put"} => q.row \in Allocation
  /\ q.stage = "replace" => Readjusts(q)

Called == call = [r \in Callers |-> call[r]] /\ \A r \in Callers : Prepared(call[r])
PlanInv == Stored /\ Called

\* A request that goes on with what it has read.
LEMMA Going ==
  ASSUME Called, NEW r \in Callers, NEW next, Goes(r, next), Prepared(next)
  PROVE  Called'
<1>1. call' = [x \in Callers |-> IF x = r THEN next ELSE call[x]]
  BY DEF Called, Goes
<1>2. call' = [x \in Callers |-> call'[x]]
  BY <1>1
<1>3. ASSUME NEW x \in Callers PROVE Prepared(call'[x])
  <2>1. CASE x = r
    <3>1. call'[x] = next
      BY <1>1, <2>1
    <3>2. QED
      BY <3>1
  <2>2. CASE x # r
    <3>1. call'[x] = call[x]
      BY <1>1, <2>2
    <3>2. Prepared(call[x])
      BY DEF Called
    <3>3. QED
      BY <3>1, <3>2
  <2>3. QED
    BY <2>1, <2>2
<1>4. QED
  BY <1>2, <1>3 DEF Called

LEMMA Resting == Prepared(AtRest)
BY DEF Prepared, AtRest

\* Shares of any number or value are a batch, one month after another.
LEMMA Generated ==
  ASSUME NEW remaining \in Nat, NEW amounts,
         amounts \in {Evenly(remaining, n) : n \in Counts}
                       \cup {ByAmount(remaining, v) : v \in {x \in Amounts : x > 0}}
  PROVE  \E n : Batch(Drafts(amounts, [k \in DOMAIN amounts |-> k]), n)
<1>1. PICK n \in Nat \ {0} : amounts \in [1 .. n -> Int]
  <2>1. CASE \E n \in Counts : amounts = Evenly(remaining, n)
    <3>1. PICK n \in Counts : amounts = Evenly(remaining, n)
      BY <2>1
    <3>2. n \in Nat \ {0} /\ remaining \in Int
      BY PlansAssumption
    <3>3. QED
      BY <3>1, <3>2, EvenlyParts
  <2>2. CASE \E v \in {x \in Amounts : x > 0} : amounts = ByAmount(remaining, v)
    <3>1. PICK v \in Amounts : amounts = ByAmount(remaining, v)
      BY <2>2
    <3>2. v \in Int \ {0} /\ remaining \in Int
      BY PlansAssumption
    <3>3. QED
      BY <3>1, <3>2, ByAmountParts DEF Parts
  <2>3. QED
    BY <2>1, <2>2
<1>2. PICK months : months = [k \in DOMAIN amounts |-> k]
  OBVIOUS
<1>3. \A k \in 1 .. n : months[k] \in Nat \ {0}
  BY <1>1, <1>2
<1>4. Batch(Drafts(amounts, months), n)
  BY <1>1, <1>3, DraftsBatch
<1>5. QED
  BY <1>2, <1>4

\* What a plan and rows reserve, and what is left to distribute.
LEMMA ReservedTyped ==
  ASSUME NEW plan \in Plan, NEW rows, rows \subseteq Row, IsFiniteSet(rows)
  PROVE  Reserved(plan, rows) \in Int
<1>1. PICK f, U : /\ f = [i \in InstallmentIds |-> Shortfall(plan, rows, i)]
                  /\ U = PlanOf(plan) \ Affected(plan, rows)
  OBVIOUS
<1>2. U \subseteq InstallmentIds /\ IsFiniteSet(U)
  <2>1. U \in SUBSET InstallmentIds
    BY <1>1 DEF PlanOf
  <2>2. QED
    BY <2>1, PlansAssumption, FS_Subset
<1>3. \A i \in U : f[i] \in Int
  <2> SUFFICES ASSUME NEW i \in U PROVE f[i] \in Int
    OBVIOUS
  <2>1. i \in PlanOf(plan) /\ i \in InstallmentIds
    BY <1>1, <1>2
  <2>2. plan[i].amount \in Int
    BY <2>1, InstallmentThere DEF Installment
  <2>3. Realized(i, rows) \in Nat
    BY RealizedTyped
  <2>4. Shortfall(plan, rows, i) \in Int
    BY <2>2, <2>3 DEF Shortfall
  <2>5. QED
    BY <1>1, <2>1, <2>4
<1>4. SumOf(f, U) \in Int
  BY <1>2, <1>3, SumType
<1>5. QED
  BY <1>1, <1>4, ReservedSums

\* A readjustment that is not refused is ready to replace.
LEMMA Readjusted ==
  ASSUME NEW remaining \in Nat, NEW plan \in Plan, NEW rows, rows \subseteq Row, IsFiniteSet(rows),
         NEW strategy \in Strategies, NEW those, those = Affected(plan, rows), those # {},
         ~(strategy = "abater_do_final" /\ Max({plan[i].amount : i \in those}) = 0),
         NEW balance, balance = Balance(remaining, plan, rows),
         NEW drafts, drafts = IF strategy = "redistribuir"
                              THEN Redistribute(balance, plan, those) ELSE ReduceTerm(balance, plan, those)
  PROVE  \E n : /\ Drafted(drafts, n, balance)
                /\ strategy = "redistribuir" => SameMonths(drafts, n, plan, those)
<1>1. balance \in Int
  BY ReservedTyped DEF Balance
<1>2. those \subseteq PlanOf(plan)
  BY DEF Affected
<1>3. CASE strategy = "redistribuir"
  BY <1>1, <1>2, <1>3, RedistributeDrafts
<1>4. CASE strategy # "redistribuir"
  <2>1. Max({plan[i].amount : i \in those}) # 0
    BY <1>4 DEF Strategies
  <2>2. drafts = ReduceTerm(balance, plan, those)
    BY <1>4
  <2>3. \E n : Drafted(drafts, n, balance)
    BY <1>1, <1>2, <2>1, <2>2, ReduceTermDrafts
  <2>4. QED
    BY <1>4, <2>3
<1>5. QED
  BY <1>3, <1>4

\* A step that only reads keeps the tables.
LEMMA Reading ==
  ASSUME PlanInv, NEW r \in Callers, NEW next, Reads(r, next), Prepared(next)
  PROVE  PlanInv'
<1>1. Called'
  BY Going DEF PlanInv, Reads
<1>2. Stored'
  BY DEF PlanInv, Reads, Stored, PlanOf
<1>3. QED
  BY <1>1, <1>2 DEF PlanInv

\* A step of a request that writes ends it.
LEMMA Ending ==
  ASSUME PlanInv, NEW r \in Callers, Goes(r, AtRest)
  PROVE  Called'
BY Going, Resting DEF PlanInv

LEMMA GenerateStep ==
  ASSUME PlanInv, NEW r \in Callers, CheckEmpty(r) \/ GenerateDrafts(r)
  PROVE  PlanInv'
<1>1. CASE CheckEmpty(r)
  <2>1. PICK next : next = [stage |-> "generate"]
    OBVIOUS
  <2>2. Reads(r, next) /\ Prepared(next)
    BY <1>1, <2>1 DEF CheckEmpty, Prepared
  <2>3. QED
    BY <2>2, Reading
<1>2. CASE GenerateDrafts(r)
  <2>1. PICK remaining : remaining = Remaining(linked)
    OBVIOUS
  <2>2. remaining \in Nat
    BY <2>1, RemainingTyped DEF PlanInv, Stored
  <2>3. CASE Reads(r, AtRest)
    BY <2>3, Reading, Resting
  <2>4. CASE ~Reads(r, AtRest)
    <3>1. PICK amounts \in {Evenly(remaining, n) : n \in Counts}
                             \cup {ByAmount(remaining, v) : v \in {x \in Amounts : x > 0}} :
            Reads(r, [stage |-> "create", drafts |-> Drafts(amounts, [k \in DOMAIN amounts |-> k])])
      BY <1>2, <2>1, <2>4 DEF GenerateDrafts
    <3>2. PICK drafts : drafts = Drafts(amounts, [k \in DOMAIN amounts |-> k])
      OBVIOUS
    <3>3. \E n : Batch(drafts, n)
      BY <2>2, <3>1, <3>2, Generated
    <3>4. PICK next : next = [stage |-> "create", drafts |-> drafts]
      OBVIOUS
    <3>5. next.stage = "create" /\ next.drafts = drafts
      BY <3>4
    <3>6. Prepared(next)
      BY <3>3, <3>5 DEF Prepared
    <3>7. QED
      BY <3>1, <3>2, <3>4, <3>6, Reading
  <2>5. QED
    BY <2>3, <2>4
<1>3. QED
  BY <1>1, <1>2

LEMMA ReadStep ==
  ASSUME PlanInv, NEW r \in Callers, ReadRemaining(r) \/ ReadPlan(r)
  PROVE  PlanInv'
<1>1. CASE ReadRemaining(r)
  <2>1. PICK strategy \in Strategies :
          Reads(r, [stage |-> "list", strategy |-> strategy, remaining |-> Remaining(linked)])
    BY <1>1 DEF ReadRemaining, Strategies
  <2>2. PICK next : next = [stage |-> "list", strategy |-> strategy, remaining |-> Remaining(linked)]
    OBVIOUS
  <2>3. next.stage = "list" /\ next.remaining \in Nat /\ next.strategy \in Strategies
    BY <2>2, RemainingTyped DEF PlanInv, Stored
  <2>4. Prepared(next)
    BY <2>3 DEF Prepared
  <2>5. QED
    BY <2>1, <2>2, <2>4, Reading
<1>2. CASE ReadPlan(r)
  <2>1. PICK next : next = [stage |-> "allocations", strategy |-> call[r].strategy,
                            remaining |-> call[r].remaining, plan |-> planned, ids |-> PlanOf(planned)]
    OBVIOUS
  <2>2. At(r, "list") /\ Reads(r, next)
    BY <1>2, <2>1 DEF ReadPlan
  <2>3. call[r].remaining \in Nat /\ call[r].strategy \in Strategies
    BY <2>2 DEF PlanInv, Called, Prepared, At
  <2>4. /\ next.stage = "allocations" /\ next.remaining \in Nat /\ next.plan \in Plan
        /\ next.strategy \in Strategies
    BY <2>1, <2>3 DEF PlanInv, Stored
  <2>5. Prepared(next)
    BY <2>4 DEF Prepared
  <2>6. QED
    BY <2>2, <2>5, Reading
<1>3. QED
  BY <1>1, <1>2

LEMMA ReadAllocationsStep ==
  ASSUME PlanInv, NEW r \in Callers, ReadAllocations(r)
  PROVE  PlanInv'
<1>1. PICK plan, those, remaining, balance, strategy :
        /\ plan = call[r].plan /\ remaining = call[r].remaining /\ strategy = call[r].strategy
        /\ those = Affected(plan, allocated)
        /\ balance = Balance(remaining, plan, allocated)
  OBVIOUS
<1>2. remaining \in Nat /\ plan \in Plan /\ strategy \in Strategies
  BY <1>1 DEF PlanInv, Called, Prepared, ReadAllocations, At
<1>3. allocated \subseteq Row /\ IsFiniteSet(allocated)
  BY DEF PlanInv, Stored
<1>4. CASE Reads(r, AtRest)
  BY <1>4, Reading, Resting
<1>5. CASE ~Reads(r, AtRest)
  <2>1. PICK drafts : drafts = IF strategy = "redistribuir"
                               THEN Redistribute(balance, plan, those) ELSE ReduceTerm(balance, plan, those)
    OBVIOUS
  <2>2. PICK next : next = [stage |-> "replace", strategy |-> strategy, remaining |-> remaining,
                            plan |-> plan, rows |-> allocated, those |-> those, ids |-> PlanOf(plan),
                            drafts |-> drafts]
    OBVIOUS
  <2>3. /\ those # {} /\ ~(strategy = "abater_do_final" /\ Max({plan[i].amount : i \in those}) = 0)
        /\ Reads(r, next)
    BY <1>1, <1>5, <2>1, <2>2, Zenon DEF ReadAllocations
  <2>4. \E n : /\ Drafted(drafts, n, balance)
               /\ strategy = "redistribuir" => SameMonths(drafts, n, plan, those)
    BY <1>1, <1>2, <1>3, <2>1, <2>3, Readjusted
  <2>5. /\ next.stage = "replace" /\ next.strategy = strategy /\ next.remaining = remaining
        /\ next.plan = plan /\ next.rows = allocated /\ next.those = those /\ next.drafts = drafts
    BY <2>2
  <2>6. Readjusts(next)
    BY <1>1, <1>2, <1>3, <2>3, <2>4, <2>5, Zenon DEF Readjusts
  <2>7. Prepared(next)
    BY <2>5, <2>6 DEF Prepared
  <2>8. QED
    BY <2>3, <2>7, Reading
<1>6. QED
  BY <1>4, <1>5

\* Inserting a batch keeps what the rows refer to.
LEMMA CreateStep ==
  ASSUME PlanInv, NEW r \in Callers, CreateGeneratedInstallments(r)
  PROVE  PlanInv'
<1>1. Called'
  BY Ending DEF CreateGeneratedInstallments, Commits
<1>2. PICK drafts : drafts = call[r].drafts
  OBVIOUS
<1>3. PICK n : Batch(drafts, n)
  BY <1>2 DEF PlanInv, Called, Prepared, CreateGeneratedInstallments, At
<1>4. Len(drafts) = n /\ n \in Nat /\ Fits(drafts)
  BY <1>2, <1>3, BatchLength DEF Batch, CreateGeneratedInstallments
<1>5. PICK ids \in FreshIds(planned, n) : planned' = Inserted(planned, drafts, ids)
  BY <1>2, <1>4 DEF CreateGeneratedInstallments
<1>6. NewIds(ids, n, planned)
  BY <1>4, <1>5, FreshIdsNew
<1>7. planned' \in Plan /\ PlanOf(planned) \subseteq PlanOf(planned')
  BY <1>3, <1>4, <1>5, <1>6, InsertedWhole DEF PlanInv, Stored
<1>8. Stored'
  BY <1>7 DEF PlanInv, Stored, CreateGeneratedInstallments
<1>9. QED
  BY <1>1, <1>8 DEF PlanInv

\* What a readjustment leaves: the installments it was not about, and its
\* drafts under ids the plan did not have.
Replaced(q, n, ids) ==
  /\ Drafted(q.drafts, n, Balance(q.remaining, q.plan, q.rows))
  /\ q.strategy = "redistribuir" => SameMonths(q.drafts, n, q.plan, q.those)
  /\ NewIds(ids, n, planned)
  /\ planned' \in Plan
  /\ \A k \in 1 .. n : planned'[ids[k]] = q.drafts[k]
  /\ \A i \in InstallmentIds : i \notin q.those /\ i \notin {ids[k] : k \in 1 .. n} => planned'[i] = planned[i]
  /\ PlanOf(planned') = (PlanOf(planned) \ q.those) \cup {ids[k] : k \in 1 .. n}
  /\ allocated' = {a \in allocated : a[1] \notin q.those}

LEMMA ReplacedWhole ==
  ASSUME PlanInv, NEW r \in Callers, Replace(r), call[r].those \subseteq PlanOf(planned)
  PROVE  \E n, ids : Replaced(call[r], n, ids)
<1>1. PICK q : q = call[r]
  OBVIOUS
<1>2. Readjusts(q)
  BY <1>1 DEF PlanInv, Called, Prepared, Replace, At
<1>3. PICK n : /\ Drafted(q.drafts, n, Balance(q.remaining, q.plan, q.rows))
               /\ q.strategy = "redistribuir" => SameMonths(q.drafts, n, q.plan, q.those)
  BY <1>2 DEF Readjusts
<1>4. PICK drafts, those : drafts = q.drafts /\ those = q.those
  OBVIOUS
<1>5. PICK kept : kept = [i \in InstallmentIds |-> IF i \in those THEN NoInstallment ELSE planned[i]]
  OBVIOUS
<1>6. Batch(drafts, n) /\ Len(drafts) = n /\ n \in Nat /\ Fits(drafts)
  <2>1. Batch(drafts, n)
    BY <1>3, <1>4 DEF Drafted
  <2>2. Fits(drafts)
    BY <1>1, <1>4 DEF Replace
  <2>3. QED
    BY <2>1, <2>2, BatchLength DEF Batch
<1>7. PICK ids \in FreshIds(kept, n) : planned' = Inserted(kept, drafts, ids)
  BY <1>1, <1>4, <1>5, <1>6, Zenon DEF Replace
<1>8. allocated' = {a \in allocated : a[1] \notin those}
  BY <1>1, <1>4, Zenon DEF Replace
<1>9. kept \in Plan /\ PlanOf(kept) = PlanOf(planned) \ those
  <2>1. \A i \in InstallmentIds : kept[i] \in Installment \cup {NoInstallment}
    BY <1>5 DEF PlanInv, Stored, Plan
  <2>2. kept \in Plan
    BY <1>5, <2>1 DEF Plan
  <2>3. QED
    BY <1>5, <2>2 DEF PlanOf
<1>10. NewIds(ids, n, kept)
  BY <1>6, <1>7, FreshIdsNew
<1>11. /\ planned' \in Plan
       /\ \A k \in 1 .. n : planned'[ids[k]] = drafts[k]
       /\ \A i \in InstallmentIds : i \notin {ids[k] : k \in 1 .. n} => planned'[i] = kept[i]
       /\ PlanOf(planned') = PlanOf(kept) \cup {ids[k] : k \in 1 .. n}
  BY <1>6, <1>7, <1>9, <1>10, InsertedWhole
<1>12. NewIds(ids, n, planned)
  BY <1>10 DEF NewIds
<1>13. \A i \in InstallmentIds : i \notin those => kept[i] = planned[i]
  BY <1>5
<1>14. Replaced(q, n, ids)
  BY <1>3, <1>4, <1>8, <1>9, <1>11, <1>12, <1>13 DEF Replaced
<1>15. QED
  BY <1>1, <1>14

LEMMA ReplaceStep ==
  ASSUME PlanInv, NEW r \in Callers, Replace(r)
  PROVE  PlanInv'
<1>1. Called'
  BY Ending DEF Replace, Commits
<1>2. linked' = linked
  BY DEF Replace
<1>3. CASE call[r].those \subseteq PlanOf(planned)
  <2>1. PICK q : q = call[r]
    OBVIOUS
  <2>2. PICK n, ids : Replaced(q, n, ids)
    BY <1>3, <2>1, ReplacedWhole
  <2>3. /\ planned' \in Plan /\ PlanOf(planned) \ q.those \subseteq PlanOf(planned')
        /\ allocated' = {a \in allocated : a[1] \notin q.those}
    BY <2>2 DEF Replaced
  <2>4. allocated' \in SUBSET allocated /\ \A a \in allocated' : a[1] \in PlanOf(planned')
    BY <2>3 DEF PlanInv, Stored
  <2>5. IsFiniteSet(allocated') /\ allocated' \subseteq Row
    BY <2>4, FS_Subset DEF PlanInv, Stored
  <2>6. QED
    BY <1>1, <1>2, <2>3, <2>4, <2>5 DEF PlanInv, Stored
<1>4. CASE ~(call[r].those \subseteq PlanOf(planned))
  <2>1. planned' = planned /\ allocated' = allocated
    BY <1>4, Zenon DEF Replace
  <2>2. QED
    BY <1>1, <1>2, <2>1 DEF PlanInv, Stored
<1>5. QED
  BY <1>3, <1>4

\* A plan changed by hand, and rows taken away.
LEMMA StoredAgain ==
  ASSUME Stored, planned' \in Plan, linked' \subseteq Payments, allocated' \subseteq allocated,
         \A a \in allocated' : a[1] \in PlanOf(planned')
  PROVE  Stored'
<1>1. allocated' \in SUBSET allocated
  OBVIOUS
<1>2. IsFiniteSet(allocated') /\ allocated' \subseteq Row
  BY <1>1, FS_Subset DEF Stored
<1>3. QED
  BY <1>2 DEF Stored

\* One installment put in, or in the place of another.
LEMMA OneInstallment ==
  ASSUME NEW plan \in Plan, NEW i \in InstallmentIds, NEW new \in Installment, NEW after,
         after = [plan EXCEPT ![i] = new]
  PROVE  after \in Plan /\ PlanOf(plan) \subseteq PlanOf(after)
<1>1. after \in Plan
  BY DEF Plan
<1>2. ASSUME NEW j \in PlanOf(plan) PROVE j \in PlanOf(after)
  <2>1. j \in InstallmentIds
    BY DEF PlanOf
  <2>2. CASE j = i
    <3>1. after[j] \in Installment
      BY <2>1, <2>2 DEF Plan
    <3>2. QED
      BY <1>1, <2>1, <3>1, InstallmentThere
  <2>3. CASE j # i
    <3>1. after[j] = plan[j]
      BY <2>1, <2>3 DEF Plan
    <3>2. QED
      BY <2>1, <3>1 DEF PlanOf
  <2>4. QED
    BY <2>2, <2>3
<1>3. QED
  BY <1>1, <1>2

LEMMA EditStep ==
  ASSUME PlanInv, CreateScenarioTransaction
                    \/ \E i \in InstallmentIds : UpdateScenarioTransaction(i) \/ DeleteScenarioTransaction(i)
  PROVE  PlanInv'
<1>1. Called'
  BY DEF PlanInv, Called, CreateScenarioTransaction, UpdateScenarioTransaction, DeleteScenarioTransaction
<1>2. planned \in Plan /\ linked' \subseteq Payments
  BY DEF PlanInv, Stored, CreateScenarioTransaction, UpdateScenarioTransaction, DeleteScenarioTransaction
<1>3. CASE CreateScenarioTransaction
  <2>1. PICK ids \in FreshIds(planned, 1), x \in Amounts, m \in 1 .. LastMonth :
          planned' = [planned EXCEPT ![ids[1]] = [amount |-> x, month |-> m]]
    BY <1>3 DEF CreateScenarioTransaction
  <2>2. NewIds(ids, 1, planned)
    BY <2>1, FreshIdsNew
  <2>3. PICK i, new : i = ids[1] /\ new = [amount |-> x, month |-> m]
    OBVIOUS
  <2>4. i \in InstallmentIds /\ new \in Installment /\ planned' = [planned EXCEPT ![i] = new]
    BY <2>1, <2>2, <2>3, PlansAssumption DEF Installment, NewIds
  <2>5. planned' \in Plan /\ PlanOf(planned) \subseteq PlanOf(planned')
    BY <1>2, <2>4, OneInstallment
  <2>6. allocated' = allocated
    BY <1>3 DEF CreateScenarioTransaction
  <2>7. Stored'
    <3>1. \A a \in allocated' : a[1] \in PlanOf(planned')
      BY <2>5, <2>6 DEF PlanInv, Stored
    <3>2. QED
      BY <1>2, <2>5, <2>6, <3>1, StoredAgain DEF PlanInv
  <2>8. QED
    BY <1>1, <2>7 DEF PlanInv
<1>4. CASE \E i \in InstallmentIds : UpdateScenarioTransaction(i)
  <2>1. PICK i \in InstallmentIds, x \in Amounts, m \in 1 .. LastMonth :
          planned' = [planned EXCEPT ![i] = [amount |-> x, month |-> m]]
    BY <1>4 DEF UpdateScenarioTransaction
  <2>2. PICK new : new = [amount |-> x, month |-> m]
    OBVIOUS
  <2>3. new \in Installment /\ planned' = [planned EXCEPT ![i] = new]
    BY <2>1, <2>2, PlansAssumption DEF Installment
  <2>4. planned' \in Plan /\ PlanOf(planned) \subseteq PlanOf(planned')
    BY <1>2, <2>3, OneInstallment
  <2>5. allocated' = allocated
    BY <1>4 DEF UpdateScenarioTransaction
  <2>6. Stored'
    <3>1. \A a \in allocated' : a[1] \in PlanOf(planned')
      BY <2>4, <2>5 DEF PlanInv, Stored
    <3>2. QED
      BY <1>2, <2>4, <2>5, <3>1, StoredAgain DEF PlanInv
  <2>7. QED
    BY <1>1, <2>6 DEF PlanInv
<1>5. CASE \E i \in InstallmentIds : DeleteScenarioTransaction(i)
  <2>1. PICK i \in InstallmentIds : DeleteScenarioTransaction(i)
    BY <1>5
  <2>2. planned' = [planned EXCEPT ![i] = NoInstallment] /\ allocated' = {a \in allocated : a[1] # i}
    BY <2>1 DEF DeleteScenarioTransaction
  <2>3. planned' \in Plan
    BY <1>2, <2>2 DEF Plan
  <2>4. \A a \in allocated' : a[1] \in PlanOf(planned')
    <3> SUFFICES ASSUME NEW a \in allocated' PROVE a[1] \in PlanOf(planned')
      OBVIOUS
    <3>1. a[1] \in PlanOf(planned) /\ a[1] # i
      BY <2>2 DEF PlanInv, Stored
    <3>2. QED
      BY <1>2, <2>2, <3>1 DEF PlanOf, Plan
  <2>5. Stored'
    BY <1>2, <2>2, <2>3, <2>4, StoredAgain DEF PlanInv
  <2>6. QED
    BY <1>1, <2>5 DEF PlanInv
<1>6. QED
  BY <1>3, <1>4, <1>5

\* An allocation about to be made is of a payment to an installment.
LEMMA Checked ==
  ASSUME PlanInv, NEW r \in Callers, NEW i \in PlanOf(planned), NEW t \in linked, NEW x \in Nat \ {0},
         NEW how, how \in {"add", "put"},
         NEW next, next = [stage |-> how, row |-> <<i, t, x>>, ids |-> {i}], Reads(r, next)
  PROVE  PlanInv'
<1>1. i \in InstallmentIds /\ t \in Payments
  BY DEF PlanInv, Stored, PlanOf
<1>2. next.stage = how /\ next.row \in Allocation
  BY <1>1 DEF Allocation
<1>3. Prepared(next)
  BY <1>2 DEF Prepared
<1>4. QED
  BY <1>3, Reading

LEMMA CheckAllocationStep ==
  ASSUME PlanInv, NEW r \in Callers, CheckAllocation(r)
  PROVE  PlanInv'
<1>1. PICK i \in PlanOf(planned), t \in linked :
        \/ \E x \in {y \in Amounts : y > 0} : \E how \in {"add", "put"} :
             Reads(r, [stage |-> how, row |-> <<i, t, x>>, ids |-> {i}])
        \/ LET own == Max({planned[i].amount, -planned[i].amount}) IN
           own # 0 /\ Reads(r, [stage |-> "put", row |-> <<i, t, own>>, ids |-> {i}])
  BY DEF CheckAllocation
<1>2. CASE \E x \in {y \in Amounts : y > 0} : \E how \in {"add", "put"} :
             Reads(r, [stage |-> how, row |-> <<i, t, x>>, ids |-> {i}])
  <2>1. PICK x \in {y \in Amounts : y > 0}, how \in {"add", "put"} :
          Reads(r, [stage |-> how, row |-> <<i, t, x>>, ids |-> {i}])
    BY <1>2
  <2>2. x \in Nat \ {0}
    BY PlansAssumption
  <2>3. PICK next : next = [stage |-> how, row |-> <<i, t, x>>, ids |-> {i}]
    OBVIOUS
  <2>4. Reads(r, next)
    BY <2>1, <2>3
  <2>5. QED
    BY <2>2, <2>3, <2>4, Checked
<1>3. CASE LET own == Max({planned[i].amount, -planned[i].amount}) IN
           own # 0 /\ Reads(r, [stage |-> "put", row |-> <<i, t, own>>, ids |-> {i}])
  <2>1. PICK y, S : y = planned[i].amount /\ S = {y, -y}
    OBVIOUS
  <2>2. y \in Int
    <3>1. planned \in Plan /\ i \in InstallmentIds
      BY DEF PlanInv, Stored, PlanOf
    <3>2. planned[i] \in Installment
      BY <3>1, InstallmentThere
    <3>3. QED
      BY <2>1, <3>2 DEF Installment
  <2>3. PICK own : own = Max(S)
    OBVIOUS
  <2>4. own \in {y, -y} /\ own >= y /\ own >= -y
    <3>1. \E z \in S : \A v \in S : z >= v
      BY <2>1, <2>2
    <3>2. own \in S /\ \A v \in S : own >= v
      BY <2>3, <3>1 DEF Max
    <3>3. QED
      BY <2>1, <3>2
  <2>5. PICK next, how : how = "put" /\ next = [stage |-> how, row |-> <<i, t, own>>, ids |-> {i}]
    OBVIOUS
  <2>6. own # 0 /\ Reads(r, next)
    BY <1>3, <2>1, <2>3, <2>5
  <2>7. own \in Nat \ {0}
    BY <2>2, <2>4, <2>6
  <2>8. how \in {"add", "put"}
    BY <2>5
  <2>9. QED
    BY <2>5, <2>6, <2>7, <2>8, Checked
<1>4. QED
  BY <1>1, <1>2, <1>3

LEMMA AllocateStep ==
  ASSUME PlanInv, NEW r \in Callers, CreateRealization(r) \/ RealizeEvent(r)
  PROVE  PlanInv'
<1>1. Called'
  BY Ending DEF CreateRealization, RealizeEvent, Commits
<1>2. PICK row : row = call[r].row
  OBVIOUS
<1>3. row \in Allocation
  BY <1>2 DEF PlanInv, Called, Prepared, CreateRealization, RealizeEvent, At
<1>4. planned' = planned /\ linked' = linked
  BY DEF CreateRealization, RealizeEvent
<1>5. \/ allocated' = allocated
      \/ /\ row[1] \in PlanOf(planned)
         /\ \E rest \in SUBSET allocated, n \in Nat \ {0} : allocated' = rest \cup {RowOf(row, n)}
  <2>1. \A rows, new : new \in WithRow(row, rows) => \E n \in Nat \ {0} : new = rows \cup {RowOf(row, n)}
    BY DEF WithRow
  <2>2. CASE CreateRealization(r)
    <3>1. \/ allocated' = allocated
          \/ row[1] \in PlanOf(planned) /\ allocated' \in WithRow(row, allocated)
      BY <1>2, <2>2 DEF CreateRealization
    <3>2. CASE row[1] \in PlanOf(planned) /\ allocated' \in WithRow(row, allocated)
      <4>1. PICK n \in Nat \ {0} : allocated' = allocated \cup {RowOf(row, n)}
        BY <2>1, <3>2
      <4>2. allocated \in SUBSET allocated
        OBVIOUS
      <4>3. QED
        BY <3>2, <4>1, <4>2
    <3>3. QED
      BY <3>1, <3>2
  <2>3. CASE RealizeEvent(r)
    <3>1. allocated \ AllocationsOf(row[1], allocated) \in SUBSET allocated
      OBVIOUS
    <3>2. PICK rest : rest = allocated \ AllocationsOf(row[1], allocated)
      OBVIOUS
    <3>3. \/ allocated' = allocated
          \/ row[1] \in PlanOf(planned) /\ allocated' \in WithRow(row, rest)
      BY <1>2, <2>3, <3>2 DEF RealizeEvent
    <3>4. CASE row[1] \in PlanOf(planned) /\ allocated' \in WithRow(row, rest)
      <4>1. PICK n \in Nat \ {0} : allocated' = rest \cup {RowOf(row, n)}
        BY <2>1, <3>4
      <4>2. QED
        BY <3>1, <3>2, <3>4, <4>1
    <3>5. QED
      BY <3>3, <3>4
  <2>4. QED
    BY <2>2, <2>3
<1>6. Stored'
  <2>1. CASE allocated' = allocated
    BY <1>4, <2>1 DEF PlanInv, Stored
  <2>2. CASE /\ row[1] \in PlanOf(planned)
             /\ \E rest \in SUBSET allocated, n \in Nat \ {0} : allocated' = rest \cup {RowOf(row, n)}
    <3>1. PICK rest \in SUBSET allocated, n \in Nat \ {0} : allocated' = rest \cup {RowOf(row, n)}
      BY <2>2
    <3>2. PICK new : new = RowOf(row, n)
      OBVIOUS
    <3>3. new \in Row /\ new[1] = row[1]
      BY <1>3, <3>2 DEF RowOf, Allocation, Row
    <3>4. IsFiniteSet(allocated')
      <4>1. IsFiniteSet(rest)
        BY FS_Subset DEF PlanInv, Stored
      <4>2. QED
        BY <3>1, <4>1, FS_AddElement
    <3>5. allocated' \subseteq Row
      BY <3>1, <3>2, <3>3 DEF PlanInv, Stored
    <3>6. \A a \in allocated' : a[1] \in PlanOf(planned)
      BY <2>2, <3>1, <3>2, <3>3 DEF PlanInv, Stored
    <3>7. QED
      BY <1>4, <3>4, <3>5, <3>6 DEF PlanInv, Stored
  <2>3. QED
    BY <1>5, <2>1, <2>2
<1>7. QED
  BY <1>1, <1>6 DEF PlanInv

LEMMA UnlinkStep ==
  ASSUME PlanInv, (\E a \in allocated : DeleteRealization(a)) \/ (\E t \in Payments : CreateLink(t) \/ DeleteLink(t))
  PROVE  PlanInv'
<1>1. Called'
  BY DEF PlanInv, Called, DeleteRealization, CreateLink, DeleteLink
<1>2. planned' = planned /\ linked' \subseteq Payments /\ allocated' \subseteq allocated
  BY DEF PlanInv, Stored, DeleteRealization, CreateLink, DeleteLink
<1>3. \A a \in allocated' : a[1] \in PlanOf(planned')
  BY <1>2 DEF PlanInv, Stored
<1>4. planned' \in Plan
  BY <1>2 DEF PlanInv, Stored
<1>5. Stored'
  BY <1>2, <1>3, <1>4, StoredAgain DEF PlanInv
<1>6. QED
  BY <1>1, <1>5 DEF PlanInv

LEMMA PlanStep == PlanInv /\ [PlanNext]_planVars => PlanInv'
<1> SUFFICES ASSUME PlanInv, [PlanNext]_planVars PROVE PlanInv'
  OBVIOUS
<1>1. ASSUME NEW r \in Callers,
             \/ CheckEmpty(r) \/ GenerateDrafts(r) \/ CreateGeneratedInstallments(r)
             \/ ReadRemaining(r) \/ ReadPlan(r) \/ ReadAllocations(r) \/ Replace(r)
             \/ CheckAllocation(r) \/ CreateRealization(r) \/ RealizeEvent(r)
             \/ Fail(r)
      PROVE PlanInv'
  <2>1. CASE CheckEmpty(r) \/ GenerateDrafts(r)
    BY <2>1, GenerateStep
  <2>2. CASE CreateGeneratedInstallments(r)
    BY <2>2, CreateStep
  <2>3. CASE ReadRemaining(r) \/ ReadPlan(r)
    BY <2>3, ReadStep
  <2>4. CASE ReadAllocations(r)
    BY <2>4, ReadAllocationsStep
  <2>5. CASE Replace(r)
    BY <2>5, ReplaceStep
  <2>6. CASE CheckAllocation(r)
    BY <2>6, CheckAllocationStep
  <2>7. CASE CreateRealization(r) \/ RealizeEvent(r)
    BY <2>7, AllocateStep
  <2>8. CASE Fail(r)
    BY <2>8, Reading, Resting DEF Fail
  <2>9. QED
    BY <1>1, <2>1, <2>2, <2>3, <2>4, <2>5, <2>6, <2>7, <2>8
<1>2. CASE CreateScenarioTransaction
             \/ \E i \in InstallmentIds : UpdateScenarioTransaction(i) \/ DeleteScenarioTransaction(i)
  BY <1>2, EditStep
<1>3. CASE (\E a \in allocated : DeleteRealization(a)) \/ (\E t \in Payments : CreateLink(t) \/ DeleteLink(t))
  BY <1>3, UnlinkStep
<1>4. CASE UNCHANGED planVars
  BY <1>4 DEF planVars, PlanInv, Stored, Called, PlanOf
<1>5. QED
  BY <1>1, <1>2, <1>3, <1>4 DEF PlanNext

LEMMA PlanStart == PlanInit => PlanInv
<1> SUFFICES ASSUME PlanInit PROVE PlanInv
  OBVIOUS
<1>1. Stored
  <2>1. planned \in Plan
    BY PlansAssumption DEF PlanInit, Plan
  <2>2. allocated = {} /\ linked \subseteq Payments
    BY DEF PlanInit
  <2>3. QED
    BY <2>1, <2>2, FS_EmptySet DEF Stored
<1>2. Called
  <2>1. call = [r \in Callers |-> AtRest]
    BY DEF PlanInit
  <2>2. \A r \in Callers : call[r] = AtRest
    BY <2>1
  <2>3. \A r \in Callers : Prepared(call[r])
    BY <2>2, Resting
  <2>4. call = [r \in Callers |-> call[r]]
    BY <2>1
  <2>5. QED
    BY <2>3, <2>4 DEF Called
<1>3. QED
  BY <1>1, <1>2 DEF PlanInv

\* The tables and what the requests in flight have read of them.
THEOREM PlansInductive == PlanSpec => []PlanInv
BY PlanStart, PlanStep, PTL DEF PlanSpec

\* Type correctness of the plan, its links and its allocations: an allocation
\* is always of a payment to an installment the plan has, whatever is replaced
\* or deleted while it is being made.
THEOREM PlansTyped == PlanSpec => []PlanTypes
<1>1. PlanInv => PlanTypes
  BY DEF PlanInv, Stored, PlanTypes, Plan, Row
<1>2. QED
  BY <1>1, PlansInductive, PTL

\* Only the request's own replacement ends a readjustment with another plan.
LEMMA OnlyReplace ==
  ASSUME PlanInv, [PlanNext]_planVars, NEW r \in Callers, Replaces(r)
  PROVE  Replace(r)
<1>1. At(r, "replace") /\ call'[r] = AtRest /\ planned' # planned
  BY DEF Replaces
<1>2. call'[r] # call[r]
  BY <1>1 DEF At, AtRest
<1>3. ASSUME NEW x \in Callers, CreateGeneratedInstallments(x) \/ Replace(x) PROVE Replace(r)
  <2>1. Goes(x, AtRest)
    BY <1>3 DEF CreateGeneratedInstallments, Replace, Commits
  <2>2. x = r
    <3>1. call = [y \in Callers |-> call[y]]
      BY DEF PlanInv, Called
    <3>2. QED
      BY <1>2, <2>1, <3>1 DEF Goes
  <2>3. ~CreateGeneratedInstallments(r)
    BY <1>1 DEF CreateGeneratedInstallments, At
  <2>4. QED
    BY <1>3, <2>2, <2>3
<1>4. ~ UNCHANGED planned /\ ~ UNCHANGED call
  BY <1>1, <1>2
<1>5. QED
  BY <1>3, <1>4 DEF PlanNext, planVars, CheckEmpty, GenerateDrafts, ReadRemaining, ReadPlan, ReadAllocations,
     CheckAllocation, CreateRealization, RealizeEvent, Fail, Reads, CreateScenarioTransaction,
     UpdateScenarioTransaction, DeleteScenarioTransaction, DeleteRealization, CreateLink, DeleteLink

\* Whatever was typed, linked or allocated by others meanwhile, replacing the
\* installments that nothing realized keeps every installment an allocation
\* was read of, and its allocations.
THEOREM AllocationsStand == PlanSpec => AllocatedStands
<1>1. ASSUME PlanInv, NEW r \in Callers, Replace(r), NEW a \in call[r].rows, a[1] \in PlanOf(planned), planned' # planned
      PROVE  planned'[a[1]] = planned[a[1]] /\ (a \in allocated => a \in allocated')
  <2>1. PICK q : q = call[r]
    OBVIOUS
  <2>2. Readjusts(q)
    BY <1>1, <2>1 DEF PlanInv, Called, Prepared, Replace, At
  <2>3. a[1] \notin q.those
    <3>1. Realized(a[1], q.rows) # 0
      BY <1>1, <2>1, <2>2, RealizedTyped DEF Readjusts
    <3>2. QED
      BY <2>2, <3>1 DEF Readjusts, Affected
  <2>4. call[r].those \subseteq PlanOf(planned)
    BY <1>1, Zenon DEF Replace
  <2>5. PICK n, ids : Replaced(q, n, ids)
    BY <1>1, <2>1, <2>4, ReplacedWhole
  <2>6. a[1] \in InstallmentIds /\ a[1] \notin {ids[k] : k \in 1 .. n}
    BY <1>1, <2>5 DEF Replaced, NewIds, PlanOf
  <2>7. planned'[a[1]] = planned[a[1]]
    BY <2>3, <2>5, <2>6 DEF Replaced
  <2>8. allocated' = {x \in allocated : x[1] \notin q.those}
    BY <2>5 DEF Replaced
  <2>9. QED
    BY <2>3, <2>7, <2>8
<1>2. PlanInv /\ [PlanNext]_planVars =>
        [\A r \in Callers : Replaces(r) =>
           \A a \in call[r].rows : a[1] \in PlanOf(planned) =>
             /\ planned'[a[1]] = planned[a[1]]
             /\ a \in allocated => a \in allocated']_planVars
  BY <1>1, OnlyReplace DEF Replaces
<1>3. QED
  BY <1>2, PlansInductive, PTL DEF PlanSpec, AllocatedStands

-----------------------------------------------------------------------------
(* Plans: what a readjustment leaves                                       *)

\* A readjustment that nobody interfered with: what it deletes has no rows,
\* what it inserts has none yet, and the rest reserves what it did.
LEMMA ReplacedAffected ==
  ASSUME PlanInv, NEW r \in Callers, Replace(r), StillTrue(r), NEW n, NEW ids, Replaced(call[r], n, ids)
  PROVE  /\ allocated' = allocated
         /\ Affected(planned', allocated) = {ids[k] : k \in 1 .. n}
         /\ PlanOf(planned') \ {ids[k] : k \in 1 .. n} = PlanOf(planned) \ Affected(planned, allocated)
         /\ Reserved(planned', allocated) = Reserved(planned, allocated)
<1>1. PICK those, new, kept : /\ those = call[r].those /\ new = {ids[k] : k \in 1 .. n}
                              /\ kept = PlanOf(planned) \ those
  OBVIOUS
<1>2. those = Affected(planned, allocated)
  <2>1. Readjusts(call[r])
    BY DEF PlanInv, Called, Prepared, Replace, At
  <2>2. QED
    BY <1>1, <2>1 DEF Readjusts, StillTrue
<1>3. /\ planned' \in Plan /\ planned \in Plan
      /\ PlanOf(planned') = kept \cup new
      /\ new \subseteq InstallmentIds /\ new \cap PlanOf(planned) = {}
      /\ \A i \in kept : planned'[i] = planned[i]
  <2>1. /\ planned' \in Plan /\ planned \in Plan
        /\ PlanOf(planned') = kept \cup new
        /\ NewIds(ids, n, planned)
        /\ \A i \in InstallmentIds : i \notin those /\ i \notin new => planned'[i] = planned[i]
    BY <1>1 DEF Replaced, PlanInv, Stored
  <2>2. new \subseteq InstallmentIds /\ new \cap PlanOf(planned) = {}
    BY <1>1, <2>1 DEF NewIds
  <2>3. \A i \in kept : i \in InstallmentIds /\ i \notin those /\ i \notin new
    BY <1>1, <2>2 DEF PlanOf
  <2>4. QED
    BY <2>1, <2>2, <2>3
<1>4. allocated \subseteq Row /\ IsFiniteSet(allocated) /\ \A a \in allocated : a[1] \in PlanOf(planned)
  BY DEF PlanInv, Stored
<1>5. \A i : Realized(i, allocated) = 0 <=> \A a \in allocated : a[1] # i
  BY <1>4, RealizedTyped
<1>6. \A i \in new : Realized(i, allocated) = 0
  BY <1>3, <1>4, <1>5
<1>7. \A i \in kept : Realized(i, allocated) # 0
  BY <1>1, <1>2 DEF Affected
<1>8. allocated' = allocated
  <2>1. allocated' = {a \in allocated : a[1] \notin those}
    BY <1>1 DEF Replaced
  <2>2. \A a \in allocated : a[1] \notin those
    BY <1>2, <1>5 DEF Affected
  <2>3. QED
    BY <2>1, <2>2
<1>9. Affected(planned', allocated) = new
  <2>1. Affected(planned', allocated) = {i \in kept \cup new : Realized(i, allocated) = 0}
    BY <1>3 DEF Affected
  <2>2. QED
    BY <1>6, <1>7, <2>1
<1>10. PlanOf(planned') \ new = kept
  BY <1>1, <1>3
<1>11. Reserved(planned', allocated) = Reserved(planned, allocated)
  <2>1. PICK f, g : /\ f = [i \in InstallmentIds |-> Shortfall(planned', allocated, i)]
                    /\ g = [i \in InstallmentIds |-> Shortfall(planned, allocated, i)]
    OBVIOUS
  <2>2. PICK after : after = planned'
    OBVIOUS
  <2>3. Reserved(after, allocated) = SumOf(f, kept) /\ Reserved(planned, allocated) = SumOf(g, kept)
    <3>1. Reserved(after, allocated) = SumOf(f, PlanOf(after) \ Affected(after, allocated))
      BY <2>1, <2>2, ReservedSums
    <3>2. Reserved(planned, allocated) = SumOf(g, PlanOf(planned) \ Affected(planned, allocated))
      BY <2>1, ReservedSums
    <3>3. QED
      BY <1>1, <1>2, <1>9, <1>10, <2>2, <3>1, <3>2
  <2>4. \A i \in kept : f[i] = g[i]
    <3>1. \A i \in kept : i \in InstallmentIds
      BY <1>1 DEF PlanOf
    <3>2. \A i \in kept : Shortfall(planned', allocated, i) = Shortfall(planned, allocated, i)
      BY <1>3 DEF Shortfall
    <3>3. QED
      BY <2>1, <3>1, <3>2
  <2>5. IsFiniteSet(kept)
    <3>1. kept \in SUBSET InstallmentIds
      BY <1>1 DEF PlanOf
    <3>2. QED
      BY <3>1, PlansAssumption, FS_Subset
  <2>6. SumOf(f, kept) = SumOf(g, kept)
    BY <2>4, <2>5, SumSame
  <2>7. QED
    BY <2>2, <2>3, <2>6
<1>12. QED
  BY <1>1, <1>2, <1>8, <1>9, <1>10, <1>11

\* What it inserts adds up to what the rest leaves of the remaining amount.
LEMMA InsertedBalance ==
  ASSUME PlanInv, NEW r \in Callers, Replace(r), StillTrue(r), NEW n, NEW ids, Replaced(call[r], n, ids)
  PROVE  PlannedFor(planned', {ids[k] : k \in 1 .. n}) = Remaining(linked) - Reserved(planned, allocated)
<1>1. PICK q, new, drafts, after, S : /\ q = call[r] /\ new = {ids[k] : k \in 1 .. n}
                                   /\ drafts = q.drafts /\ after = planned' /\ S = 1 .. n
  OBVIOUS
<1>2. Drafted(drafts, n, Remaining(linked) - Reserved(planned, allocated))
  BY <1>1 DEF Replaced, StillTrue, Balance
<1>3. /\ n \in Nat /\ drafts \in [S -> [amount : Int, month : Nat \ {0}]]
      /\ SumOf([k \in S |-> drafts[k].amount], S) = Remaining(linked) - Reserved(planned, allocated)
  BY <1>1, <1>2 DEF Drafted, Batch
<1>4. /\ ids \in [S -> InstallmentIds] /\ \A j, k \in S : ids[j] = ids[k] => j = k
      /\ \A k \in S : after[ids[k]] = drafts[k]
  BY <1>1 DEF Replaced, NewIds
<1>5. PICK h, f : h = [k \in S |-> drafts[k].amount] /\ f = [i \in InstallmentIds |-> after[i].amount]
  OBVIOUS
<1>6. new = {ids[k] : k \in S} /\ new \subseteq InstallmentIds
  BY <1>1, <1>4
<1>7. IsFiniteSet(S) /\ IsFiniteSet({ids[k] : k \in S})
  <2>1. IsFiniteSet(S)
    BY <1>1, <1>3, FS_Interval
  <2>2. new \in SUBSET InstallmentIds
    BY <1>6
  <2>3. IsFiniteSet(new)
    BY <2>2, PlansAssumption, FS_Subset
  <2>4. QED
    BY <1>6, <2>1, <2>3
<1>8. \A k \in S : h[k] = f[ids[k]] /\ h[k] \in Int
  BY <1>3, <1>4, <1>5
<1>9. SumOf(h, S) = SumOf(f, {ids[k] : k \in S})
  BY <1>4, <1>7, <1>8, SumImage
<1>10. PlannedFor(after, new) = SumOf(f, new)
  BY <1>5, <1>6, PlannedSums
<1>11. QED
  BY <1>1, <1>3, <1>5, <1>6, <1>9, <1>10

LEMMA ExpectsWhatRemains ==
  ASSUME PlanInv, NEW r \in Callers, Replace(r), StillTrue(r), NEW n, NEW ids, Replaced(call[r], n, ids)
  PROVE  ToBePaid(planned', allocated') = Remaining(linked')
<1>1. PICK new, after, reserved, remaining :
        /\ new = {ids[k] : k \in 1 .. n} /\ after = planned'
        /\ reserved = Reserved(planned, allocated) /\ remaining = Remaining(linked)
  OBVIOUS
<1>2. /\ allocated' = allocated /\ linked' = linked
      /\ Affected(after, allocated) = new /\ Reserved(after, allocated) = reserved
  <2>1. linked' = linked
    BY DEF Replace
  <2>2. QED
    BY <1>1, <2>1, ReplacedAffected
<1>3. PlannedFor(after, new) = remaining - reserved
  BY <1>1, InsertedBalance
<1>4. ToBePaid(after, allocated) = reserved + (remaining - reserved)
  BY <1>2, <1>3 DEF ToBePaid
<1>5. reserved \in Int /\ remaining \in Int
  <2>1. remaining \in Nat
    BY <1>1, RemainingTyped DEF PlanInv, Stored
  <2>2. reserved \in Int
    BY <1>1, ReservedTyped DEF PlanInv, Stored
  <2>3. QED
    BY <2>1, <2>2
<1>6. ToBePaid(after, allocated) = remaining
  BY <1>4, <1>5
<1>7. QED
  BY <1>1, <1>2, <1>6

\* Shares over the same months leave the last month of the plan where it was.
LEMMA LastMonthStays ==
  ASSUME PlanInv, NEW r \in Callers, Replace(r), StillTrue(r), NEW n, NEW ids, Replaced(call[r], n, ids),
         call[r].strategy = "redistribuir"
  PROVE  Max({planned'[i].month : i \in PlanOf(planned')}) = Max({planned[i].month : i \in PlanOf(planned)})
<1>1. PICK q, new, drafts, after, those :
        /\ q = call[r] /\ new = {ids[k] : k \in 1 .. n}
        /\ drafts = q.drafts /\ after = planned' /\ those = q.those
  OBVIOUS
<1>2. PICK M, N : M = MonthsOf(planned, PlanOf(planned)) /\ N = MonthsOf(after, PlanOf(after))
  OBVIOUS
<1>3. /\ SameMonths(drafts, n, planned, those)
      /\ after \in Plan /\ planned \in Plan
      /\ PlanOf(after) = (PlanOf(planned) \ those) \cup new
      /\ \A k \in 1 .. n : after[ids[k]] = drafts[k]
      /\ NewIds(ids, n, planned)
      /\ \A i \in InstallmentIds : i \notin those /\ i \notin new => after[i] = planned[i]
  BY <1>1 DEF Replaced, StillTrue, PlanInv, Stored
<1>4. those # {} /\ those \subseteq PlanOf(planned)
  <2>1. Readjusts(q)
    BY <1>1 DEF PlanInv, Called, Prepared, Replace, At
  <2>2. QED
    BY <1>1, <2>1 DEF Readjusts, StillTrue, Affected
<1>5. \A i \in PlanOf(planned) \ those : i \in PlanOf(after) /\ after[i] = planned[i]
  BY <1>1, <1>3 DEF NewIds, PlanOf
<1>6. \A k \in 1 .. n : ids[k] \in PlanOf(after) /\ after[ids[k]].month = drafts[k].month
  BY <1>1, <1>3
<1>7. IsFiniteSet(M) /\ M # {} /\ M \subseteq Int /\ IsFiniteSet(N) /\ N # {} /\ N \subseteq Int
  <2>1. PlanOf(planned) # {}
    BY <1>4
  <2>2. PlanOf(after) # {}
    BY <1>3, <1>6 DEF SameMonths
  <2>3. IsFiniteSet(M) /\ M # {} /\ M \subseteq Nat \ {0}
    BY <1>2, <1>3, <2>1, PlannedTyped
  <2>4. IsFiniteSet(N) /\ N # {} /\ N \subseteq Nat \ {0}
    BY <1>2, <1>3, <2>2, PlannedTyped
  <2>5. QED
    BY <2>3, <2>4
<1>8. N \subseteq M
  <2> SUFFICES ASSUME NEW i \in PlanOf(after) PROVE after[i].month \in M
    BY <1>2 DEF MonthsOf
  <2>1. CASE i \in PlanOf(planned) \ those
    BY <1>2, <1>5, <2>1 DEF MonthsOf
  <2>2. CASE i \in new
    <3>1. PICK k \in 1 .. n : i = ids[k]
      BY <1>1, <2>2
    <3>2. after[i].month = drafts[k].month /\ drafts[k].month \in MonthsOf(planned, those)
      BY <1>3, <1>6, <3>1 DEF SameMonths
    <3>3. QED
      BY <1>2, <1>4, <3>2 DEF MonthsOf
  <2>3. QED
    BY <1>3, <2>1, <2>2
<1>9. \A m \in M : \E x \in N : m <= x
  <2> SUFFICES ASSUME NEW i \in PlanOf(planned) PROVE \E x \in N : planned[i].month <= x
    BY <1>2 DEF MonthsOf
  <2>1. planned[i].month \in Int
    BY <1>2, <1>7 DEF MonthsOf
  <2>2. CASE i \notin those
    <3>1. planned[i].month \in N
      BY <1>2, <1>5, <2>2 DEF MonthsOf
    <3>2. QED
      BY <2>1, <3>1
  <2>3. CASE i \in those
    <3>1. PICK k \in 1 .. n : planned[i].month <= drafts[k].month
      BY <1>3, <2>3 DEF SameMonths
    <3>2. drafts[k].month \in N
      BY <1>2, <1>6 DEF MonthsOf
    <3>3. QED
      BY <3>1, <3>2
  <2>4. QED
    BY <2>2, <2>3
<1>10. PICK m, x : m = Max(M) /\ x = Max(N)
  OBVIOUS
<1>11. m \in M /\ (\A y \in M : y <= m) /\ x \in N /\ \A y \in N : y <= x
  BY <1>7, <1>10, GreatestOf
<1>12. x <= m /\ m <= x /\ x \in Int /\ m \in Int
  <2>1. x <= m /\ x \in Int /\ m \in Int
    BY <1>7, <1>8, <1>11
  <2>2. PICK y \in N : m <= y
    BY <1>9, <1>11
  <2>3. y <= x /\ y \in Int
    BY <1>7, <1>11
  <2>4. QED
    BY <2>1, <2>2, <2>3
<1>13. m = x
  BY <1>12
<1>14. QED
  BY <1>1, <1>2, <1>10, <1>13 DEF MonthsOf

\* Whichever strategy, and whatever was paid in part, overpaid or typed by hand
\* before: a readjustment nobody interfered with leaves a plan that expects
\* exactly what remains to be paid; `redistribuir` keeps the last month.
THEOREM ReadjustmentAddsUp == PlanSpec => PlanExpectsWhatRemains
<1>1. ASSUME PlanInv, [PlanNext]_planVars, NEW r \in Callers, Replaces(r), StillTrue(r)
      PROVE  /\ ToBePaid(planned', allocated') = Remaining(linked')
             /\ call[r].strategy = "redistribuir" =>
                  Max({planned'[i].month : i \in PlanOf(planned')})
                    = Max({planned[i].month : i \in PlanOf(planned)})
  <2>1. Replace(r) /\ planned' # planned
    BY <1>1, OnlyReplace DEF Replaces
  <2>2. call[r].those \subseteq PlanOf(planned)
    BY <2>1, Zenon DEF Replace
  <2>3. PICK n, ids : Replaced(call[r], n, ids)
    BY <1>1, <2>1, <2>2, ReplacedWhole
  <2>4. ToBePaid(planned', allocated') = Remaining(linked')
    BY <1>1, <2>1, <2>3, ExpectsWhatRemains
  <2>5. ASSUME call[r].strategy = "redistribuir"
        PROVE Max({planned'[i].month : i \in PlanOf(planned')}) = Max({planned[i].month : i \in PlanOf(planned)})
    BY <1>1, <2>1, <2>3, <2>5, LastMonthStays
  <2>6. QED
    BY <2>4, <2>5
<1>2. PlanInv /\ [PlanNext]_planVars =>
        [\A r \in Callers : Replaces(r) /\ StillTrue(r) =>
           /\ ToBePaid(planned', allocated') = Remaining(linked')
           /\ call[r].strategy = "redistribuir" =>
                Max({planned'[i].month : i \in PlanOf(planned')})
                  = Max({planned[i].month : i \in PlanOf(planned)})]_planVars
  BY <1>1
<1>3. QED
  BY <1>2, PlansInductive, PTL DEF PlanSpec, PlanExpectsWhatRemains
=============================================================================
