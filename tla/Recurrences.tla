----------------------------- MODULE Recurrences -----------------------------
(***************************************************************************)
(* Recurring commitments: a schedule emits occurrences, and what realizes  *)
(* an occurrence is worked out on every read, from the user's decisions    *)
(* (overrides: a transaction picked by hand, or "detached") and, where     *)
(* there is none, from the automation rule that targets the commitment.    *)
(* Two readers do it: the occurrence screen, through recurrences, and the  *)
(* Timeline, through projections.  Nothing of it is stored but overrides.  *)
(*                                                                         *)
(* A decision is checked on the plain connection and written afterwards in *)
(* a transaction of its own: commitments, rules and transactions change in *)
(* between.  Days are numbered through the months of a short calendar.     *)
(***************************************************************************)
EXTENDS Integers, FiniteSets, Sequences, FiniteSetsExt

CONSTANTS
  None,
  Requests,      \* decisions in flight at once
  Commitments,   \* ids of recurring scenarios
  Transactions,  \* ids of real transactions: numbers, in the order a query lists them
  Facts,         \* [Transactions -> account, amount (a magnitude), inflow]
  OccurredOn,    \* [Transactions -> the days the provider may date it, the first one first]
  Lengths,       \* bound: the calendar, as the length of each month
  YearMonths,    \* the months of a year
  Reach,         \* ManualLinkReachDays
  Schedules,     \* the schedules a user types
  Rules,         \* the conditions of the rules a user types
  Categories, Accounts,
  Windows,       \* the periods asked for: <<first day, last day>>
  MaxWrites      \* bound: how many writes a behaviour commits

(* A schedule is due on a day of the month, of one month of the year or (0)*)
(* of all of them.                                                         *)
Schedule == [active : BOOLEAN, income : BOOLEAN, category : Categories, account : Accounts \cup {None},
             day : Nat \ {0}, month : 0 .. YearMonths, start : Nat, end : Nat]

ASSUME RecurrencesAssumption ==
  /\ Transactions \subseteq Nat /\ None \notin Transactions
  /\ Reach \in Nat /\ YearMonths \in Nat \ {0}
  /\ Lengths \in Seq(Nat \ {0}) /\ Lengths # <<>>
  /\ Schedules \subseteq Schedule

VARIABLES
  commitment,  \* [Commitments -> NoCommitment or a schedule and whether it is active]
  rule,        \* [Commitments -> NoRule or the rule whose reconcile action targets it]
  tx,          \* [Transactions -> day, category, ignored]
  override,    \* the stored decisions: [of, date, tx], tx = None when detached
  req,         \* [Requests -> Idle or the decision it has checked]
  writes

vars == <<commitment, rule, tx, override, req, writes>>

NoCommitment == [active |-> FALSE]
NoRule == [active |-> FALSE]
Idle == [of |-> None]

Exists(c) == commitment[c] # NoCommitment
Targeted(c) == rule[c].active

-----------------------------------------------------------------------------
(* The calendar.                                                           *)
Months == 1 .. Len(Lengths)
StartOf[m \in Months] == IF m = 1 THEN 1 ELSE StartOf[m - 1] + Lengths[m - 1]
LastDay == StartOf[Len(Lengths)] + Lengths[Len(Lengths)] - 1
MonthOf(day) == CHOOSE m \in Months : StartOf[m] <= day /\ day < StartOf[m] + Lengths[m]
DayOfMonth(day) == day - StartOf[MonthOf(day)] + 1

(* A day of the month that the month does not have is its last one.        *)
OccurrenceDate(m, day) == StartOf[m] + Min({day, Lengths[m]}) - 1

(* The provider dates a transaction within the calendar, a period begins   *)
(* and ends on any day of it, and no month is longer than the reach.       *)
ASSUME CalendarAssumption ==
  /\ \A t \in Transactions :
       /\ OccurredOn[t] # <<>>
       /\ OccurredOn[t] \in Seq(1 .. LastDay)
  /\ Windows \subseteq (1 .. LastDay) \X (1 .. LastDay)
  /\ \A m \in Months : Lengths[m] <= Reach

Due(schedule, m) == schedule.month = 0 \/ schedule.month = ((m - 1) % YearMonths) + 1
OccurrencesInRange(schedule, from, to) ==
  {OccurrenceDate(m, schedule.day) : m \in {x \in Months : Due(schedule, x)}}
    \cap (schedule.start .. schedule.end) \cap (from .. to)

(* Only an active commitment has occurrences; its schedule always does.    *)
Occurrences(c, from, to) ==
  IF commitment[c].active THEN OccurrencesInRange(commitment[c], from, to) ELSE {}

-----------------------------------------------------------------------------
(* Matching: a candidate is known by its amount and its day of the month   *)
(* alone, so a condition on a text never holds.                            *)
DayRange(day, low, high) ==
  IF low <= high THEN low <= day /\ day <= high ELSE day >= low \/ day <= high

ConditionMatches(condition, t) ==
  \/ condition.field = "amount" /\ Facts[t].amount \in condition.low .. condition.high
  \/ condition.field = "day_of_month" /\ DayRange(DayOfMonth(tx[t].day), condition.low, condition.high)

Matches(r, t) ==
  IF r.logic = "and" THEN \A x \in r.conditions : ConditionMatches(x, t)
  ELSE \E x \in r.conditions : ConditionMatches(x, t)

(* Transactions that moved cash in a period, and those a commitment may be *)
(* matched to in a month.                                                  *)
RealItems(from, to) == {t \in Transactions : ~tx[t].ignored /\ tx[t].day \in from .. to}
CandidatesByMonth(c, items, m) ==
  {t \in items : /\ tx[t].category = commitment[c].category
                 /\ commitment[c].account \in {None, Facts[t].account}
                 /\ MonthOf(tx[t].day) = m}

(* The first one by date that matches wins.                                *)
ResolveOccurrence(r, candidates) ==
  LET matching == {t \in candidates : Matches(r, t)}
      Before(t, u) == tx[t].day < tx[u].day \/ (tx[t].day = tx[u].day /\ t <= u)
  IN IF matching = {} THEN None ELSE CHOOSE t \in matching : \A u \in matching : Before(t, u)

ListOverrides(c, from, to) == {o \in override : o.of = c /\ o.date \in from .. to}

Resolved(t, origin, detached) == [tx |-> t, origin |-> origin, detached |-> detached]
Unreconciled == Resolved(None, None, FALSE)
Decided(o) == IF o.tx = None THEN Resolved(None, None, TRUE) ELSE Resolved(o.tx, "manual", FALSE)

(* What the rule may pick: not what this commitment holds by hand.         *)
(* (Defect AvailableAll: whatever the month has.)                          *)
AvailableAll(candidates, decisions) == candidates
Available(candidates, decisions) == candidates \ {o.tx : o \in decisions}

(* Reconciler.Resolve: a decision first, then the rule.                    *)
Resolve(c, decisions, items, date) ==
  LET here == {o \in decisions : o.date = date}
      found == ResolveOccurrence(rule[c], Available(CandidatesByMonth(c, items, MonthOf(date)), decisions))
  IN IF here # {} THEN Decided(CHOOSE o \in here : TRUE)
     ELSE IF ~Targeted(c) \/ found = None THEN Unreconciled
     ELSE Resolved(found, "rule", FALSE)

(* The occurrence screen.                                                  *)
OccurrenceScreen(c, from, to) ==
  LET decisions == ListOverrides(c, from - Reach, to + Reach)
      items == RealItems(from - Reach, to + Reach)
  IN [d \in Occurrences(c, from, to) |-> Resolve(c, decisions, items, d)]

(* The Timeline's projection of a selected commitment, active or not: the  *)
(* decisions themselves, over what the rules resolve for the targeted ones.*)
(* Whoever wrote a decision is told here of a detached occurrence too.     *)
(* (Defect ManualOfPeriod: only the decisions on the period are read.)     *)
ManualOfPeriod(c, from, to) == ListOverrides(c, from, to)
ManualLinks(c, from, to) == ListOverrides(c, from - Reach, to + Reach)

RecurringProjections(c, from, to) ==
  LET manual == ManualLinks(c, from, to)
      items == RealItems(from - Reach, to + Reach)
      automatic(d) == IF Targeted(c) THEN Resolve(c, manual, items, d) ELSE Unreconciled
  IN [d \in OccurrencesInRange(commitment[c], from, to) |->
        IF \E o \in manual : o.date = d
        THEN LET o == CHOOSE x \in manual : x.date = d IN Resolved(o.tx, "manual", o.tx = None)
        ELSE automatic(d)]

-----------------------------------------------------------------------------
Init ==
  /\ \E schedule \in Schedules, c \in Commitments :
       commitment = [x \in Commitments |-> IF x = c THEN schedule ELSE NoCommitment]
  /\ \E r \in Rules : rule = [c \in Commitments |-> IF Exists(c) THEN r ELSE NoRule]
  /\ \E category \in [Transactions -> Categories] :
       tx = [t \in Transactions |->
               [day |-> OccurredOn[t][1], category |-> category[t], ignored |-> FALSE]]
  /\ override = {}
  /\ req = [r \in Requests |-> Idle]
  /\ writes = 0

Writes == writes < MaxWrites /\ writes' = writes + 1

(* A commitment: its scenario and its schedule are written together.  An   *)
(* edit replaces every field and leaves the decisions where they are;      *)
(* deleting takes them along, and is refused while a rule targets it.      *)
Create(c) ==
  /\ Writes /\ ~Exists(c) /\ \A r \in Requests : req[r].of # c
  /\ \E s \in Schedules : commitment' = [commitment EXCEPT ![c] = s]
  /\ UNCHANGED <<rule, tx, override, req>>

Update(c) ==
  /\ Writes /\ Exists(c)
  /\ \E s \in Schedules : commitment' = [commitment EXCEPT ![c] = s]
  /\ UNCHANGED <<rule, tx, override, req>>

SetActive(c) ==
  /\ Writes /\ Exists(c)
  /\ commitment' = [commitment EXCEPT ![c].active = ~@]
  /\ UNCHANGED <<rule, tx, override, req>>

Delete(c) ==
  /\ Writes /\ Exists(c) /\ rule[c] = NoRule
  /\ commitment' = [commitment EXCEPT ![c] = NoCommitment]
  /\ override' = {o \in override : o.of # c}
  /\ UNCHANGED <<rule, tx, req>>

(* The rule that targets it, one at most: created, edited, switched, gone. *)
SetRule(c) ==
  /\ Writes /\ Exists(c)
  /\ \E r \in Rules \cup {[x EXCEPT !.active = FALSE] : x \in Rules} \cup {NoRule} :
       rule' = [rule EXCEPT ![c] = r]
  /\ UNCHANGED <<commitment, tx, override, req>>

(* What happens to a transaction: another category; ignored, which drops the*)
(* decision that picked it; considered again; dated again by the provider. *)
SetCategory(t) ==
  /\ Writes
  /\ \E k \in Categories : tx' = [tx EXCEPT ![t].category = k]
  /\ UNCHANGED <<commitment, rule, override, req>>

Ignore(t) ==
  /\ Writes /\ ~tx[t].ignored
  /\ tx' = [tx EXCEPT ![t].ignored = TRUE]
  /\ override' = {o \in override : o.tx # t}
  /\ UNCHANGED <<commitment, rule, req>>

Consider(t) ==
  /\ Writes /\ tx[t].ignored
  /\ tx' = [tx EXCEPT ![t].ignored = FALSE]
  /\ UNCHANGED <<commitment, rule, override, req>>

Redate(t) ==
  /\ Writes
  /\ \E k \in DOMAIN OccurredOn[t] : tx' = [tx EXCEPT ![t].day = OccurredOn[t][k]]
  /\ UNCHANGED <<commitment, rule, override, req>>

-----------------------------------------------------------------------------
(* A decision on an occurrence.  The occurrence screen accepts only those of*)
(* an active commitment, and a transaction that carries no other one; the  *)
(* generic event endpoint asks neither, and leaves the second to the index.*)
(* Both want a transaction that is considered and flows the right way; none*)
(* asks how far from the occurrence it is.                                 *)
Eligible(c, t) == ~tx[t].ignored /\ Facts[t].inflow = commitment[c].income

CheckOverride(r) ==
  /\ req[r] = Idle /\ writes < MaxWrites
  /\ \E c \in {x \in Commitments : Exists(x)} : \E d \in OccurrencesInRange(commitment[c], 1, LastDay) :
       \E t \in {None} \cup {x \in Transactions : Eligible(c, x)} :
         req' = [req EXCEPT ![r] = [of |-> c, date |-> d, tx |-> t]]
  /\ UNCHANGED <<commitment, rule, tx, override, writes>>

(* It takes the place of the decision that was there.  The commitment gone,*)
(* or the transaction carrying another occurrence, it fails and nothing of *)
(* it stays.                                                               *)
CarriedElsewhere(o) ==
  \E x \in override : x.tx = o.tx /\ o.tx # None /\ (x.of # o.of \/ x.date # o.date)
Others(o) == {x \in override : x.of # o.of \/ x.date # o.date}

PutOverride(r) ==
  /\ req[r] # Idle
  /\ override' = IF Exists(req[r].of) /\ ~CarriedElsewhere(req[r])
                 THEN Others(req[r]) \cup {req[r]} ELSE override
  /\ req' = [req EXCEPT ![r] = Idle]
  /\ Writes
  /\ UNCHANGED <<commitment, rule, tx>>

(* Handing an occurrence back to the rule: one statement, on a date the    *)
(* schedule emits.                                                         *)
DeleteOverride(o) ==
  /\ Writes
  /\ o \in override
  /\ o.date \in OccurrencesInRange(commitment[o.of], 1, LastDay)
  /\ override' = override \ {o}
  /\ UNCHANGED <<commitment, rule, tx, req>>

Next ==
  \/ \E c \in Commitments : Create(c) \/ Update(c) \/ SetActive(c) \/ Delete(c) \/ SetRule(c)
  \/ \E t \in Transactions : SetCategory(t) \/ Ignore(t) \/ Consider(t) \/ Redate(t)
  \/ \E r \in Requests : CheckOverride(r) \/ PutOverride(r)
  \/ \E o \in override : DeleteOverride(o)

Spec == Init /\ [][Next]_vars

-----------------------------------------------------------------------------
(* Types.                                                                  *)
TypeOK ==
  /\ \A c \in Commitments : Targeted(c) => Exists(c)
  /\ \A o \in override : Exists(o.of) /\ o.tx \in Transactions \cup {None}

(* The Timeline and the occurrence screen tell the same of an occurrence,  *)
(* in whatever period it is looked at: realized or not, by which           *)
(* transaction and by whom, detached or not.                               *)
ScreensAgree ==
  \A w \in Windows, c \in Commitments : commitment[c].active =>
    LET line == RecurringProjections(c, w[1], w[2])
        screen == OccurrenceScreen(c, w[1], w[2])
    IN /\ DOMAIN line = DOMAIN screen
       /\ \A d \in DOMAIN line :
            /\ line[d].tx = screen[d].tx
            /\ line[d].detached = screen[d].detached
            /\ line[d].tx # None => line[d].origin = screen[d].origin

(* The reach is a promise the writes do not keep: a transaction is picked, *)
(* or dated again, further than that.  It is kept by a decision within     *)
(* reach of every day of the month of its transaction.                     *)
PickedNear(o) ==
  LET m == MonthOf(tx[o.tx].day) IN o.date \in (StartOf[m] + Lengths[m] - 1 - Reach) .. (StartOf[m] + Reach)

(* One payment realizes one occurrence of a commitment, even when they are *)
(* looked at in different periods, whatever days these begin and end on,   *)
(* unless it was picked by hand out of reach: a rule never claims what     *)
(* another occurrence holds by hand.                                       *)
OneOccurrencePerPayment ==
  \A c \in Commitments : commitment[c].active => \A v, w \in Windows :
    LET here == OccurrenceScreen(c, v[1], v[2])
        there == OccurrenceScreen(c, w[1], w[2])
    IN \A d \in DOMAIN here, e \in DOMAIN there :
         /\ here[d].tx = there[e].tx
         /\ here[d].tx # None
         /\ \A o \in override : o.tx = here[d].tx => PickedNear(o)
         => d = e
=============================================================================
