--------------------------- MODULE Market_proofs ---------------------------
(***************************************************************************)
(* Proofs about Quotes, for any assets, instruments, chains of providers,  *)
(* trading days and numbers of days, saves, synchronizations and crashes;  *)
(* and about MarketData, for any callers and symbols, any number of        *)
(* providers and attempts, any spacing, pauses and time to live.           *)
(***************************************************************************)
EXTENDS Quotes, MarketData, WellFoundedInduction, TLAPS

-----------------------------------------------------------------------------
(* The series of prices                                                    *)

USE DEF vars, assetVars, loopOnly

-----------------------------------------------------------------------------
(* Bounds of sets of numbers *)

LEMMA MinOfNats ==
  ASSUME NEW S, S \subseteq Nat, S # {}
  PROVE  Min(S) \in S /\ \A y \in S : Min(S) <= y
<1>1. PICK x \in S : \A y \in S : ~ (<<y, x>> \in OpToRel(<, Nat))
  BY NatLessThanWellFounded, WFMin
<1>2. \A y \in S : x <= y
  <2> SUFFICES ASSUME NEW y \in S PROVE x <= y
    OBVIOUS
  <2>1. ~(y < x)
    BY <1>1 DEF OpToRel
  <2>2. QED
    BY <2>1
<1>3. QED
  BY <1>2 DEF Min

LEMMA MaxOfNats ==
  ASSUME NEW S, S \subseteq Nat, S # {}, NEW n \in Nat, \A y \in S : y <= n
  PROVE  Max(S) \in S /\ \A y \in S : Max(S) >= y
<1> DEFINE T == {n - y : y \in S}
<1>1. T \subseteq Nat /\ T # {}
  <2>1. \A y \in S : n - y \in Nat
    OBVIOUS
  <2>2. QED
    BY <2>1
<1>2. Min(T) \in T /\ \A z \in T : Min(T) <= z
  <2> HIDE DEF T
  <2>1. QED
    BY <1>1, MinOfNats
<1>3. PICK x \in S : Min(T) = n - x
  BY <1>2
<1>4. \A y \in S : x >= y
  <2> SUFFICES ASSUME NEW y \in S PROVE x >= y
    OBVIOUS
  <2>1. n - y \in T
    OBVIOUS
  <2>2. n - x <= n - y
    BY <1>2, <1>3, <2>1
  <2>3. QED
    BY <2>2
<1>5. QED
  BY <1>4 DEF Max

LEMMA TwoBounds ==
  ASSUME NEW x \in Int, NEW y \in Int
  PROVE  /\ Max({x, y}) = IF x >= y THEN x ELSE y
         /\ Min({x, y}) = IF x <= y THEN x ELSE y
<1>1. PICK m \in {x, y} : (\A z \in {x, y} : m >= z) /\ m = Max({x, y})
  <2>1. \E w \in {x, y} : \A z \in {x, y} : w >= z
    OBVIOUS
  <2>2. QED
    BY <2>1 DEF Max
<1>2. PICK l \in {x, y} : (\A z \in {x, y} : l =< z) /\ l = Min({x, y})
  <2>1. \E w \in {x, y} : \A z \in {x, y} : w =< z
    OBVIOUS
  <2>2. QED
    BY <2>1 DEF Min
<1>3. QED
  BY <1>1, <1>2

-----------------------------------------------------------------------------
(* Types *)

Stage == {"stopped", "wait", "debounce", "spot", "history", "asked", "stored"}
Listing == [asset : Assets, of : Instruments]
Ask == [asset : Assets, of : Instruments, from : Days, to : Days,
        covered : Coverage \cup {None}, next : Coverage \cup {None}]
Loops == [at : Stage, due : BOOLEAN, full : BOOLEAN, asOf : Days,
          todo : SUBSET Listing, ask : Ask \cup {None}]
\* What is asked touches what was covered when it was asked.
Fits(ask) ==
  /\ ask.from <= ask.to
  /\ ask.covered # None => /\ ask.covered.of = ask.of
                           /\ ask.covered.from <= ask.covered.to
                           /\ ask.from <= ask.covered.to + 1
                           /\ ask.covered.from <= ask.to + 1
LoopTyped ==
  /\ loop \in Loops
  /\ loop.at \in {"asked", "stored"} => loop.ask \in Ask /\ Fits(loop.ask)
  /\ loop.at = "stored" => /\ loop.ask.next \in Coverage /\ loop.ask.next.of = loop.ask.of
                           /\ loop.ask.next.from <= loop.ask.next.to
  /\ \A a \in Assets : coverage[a] # None => coverage[a].from <= coverage[a].to

TypeInv == TypeOK /\ LoopTyped

LEMMA DaysAreNats == Days \subseteq Nat /\ 1 \in Days /\ FirstDay \in Days /\ LastDay \in Days
  BY QuotesAssumption DEF Days

LEMMA IdleTyped == Idle \in Loops /\ Idle.at = "stopped" /\ Idle.due = FALSE
  BY DaysAreNats DEF Idle, Loops, Stage

LEMMA ListedTyped ==
  ASSUME TypeInv
  PROVE  Listed \subseteq Listing
  BY DEF TypeInv, TypeOK, Listed, Listing

\* The rung of a provider that is asked by depth, when it serves one.
LEMMA RungTyped ==
  ASSUME TypeInv, NEW from \in Days, NEW plan \in Nat, Served(from, plan) # {}
  PROVE  Rung(from, plan) \in Nat
<1>1. Served(from, plan) \subseteq Ladder /\ Ladder \subseteq Nat
  BY QuotesAssumption DEF Served
<1>2. CASE 0 \in Served(from, plan)
  BY <1>2 DEF Rung
<1>3. CASE 0 \notin Served(from, plan)
  <2> DEFINE S == Served(from, plan)
             enough == {d \in Ladder \ {0} : d >= today - from + 2}
             first == IF enough = {} THEN 0 ELSE Min(enough)
  <2>1. Rung(from, plan) = Max(S)
    BY <1>3 DEF Rung
  <2>2. first \in Nat
    <3>1. enough \subseteq Nat
      BY <1>1
    <3> HIDE DEF enough
    <3>2. QED
      BY <3>1, MinOfNats
  <2>3. plan # 0 \/ first # 0
    <3>1. 0 \in Ladder
      BY QuotesAssumption
    <3> HIDE DEF first
    <3>2. SUFFICES ASSUME plan = 0, first = 0 PROVE 0 \in Served(from, plan)
      BY <1>3
    <3>3. QED
      BY <3>1, <3>2 DEF Served, first
  <2>4. \A d \in S : (plan # 0 => d <= plan) /\ (first # 0 => d <= first)
    BY DEF Served
  <2> HIDE DEF S, first
  <2>5. \E bound \in Nat : \A d \in S : d <= bound
    BY <2>2, <2>3, <2>4
  <2>6. S \subseteq Nat /\ S # {}
    BY <1>1 DEF S
  <2>7. QED
    BY <2>1, <2>5, <2>6, MaxOfNats
<1>4. QED
  BY <1>2, <1>3

\* A provider of the whole history speaks for what was asked; any provider
\* speaks from some day.
LEMMA CoveredFromTyped ==
  ASSUME TypeInv, NEW p \in Provider, NEW from \in Days, Answers(p, from)
  PROVE  /\ CoveredFrom(p, from) \in Int
         /\ p.reach = "all" => CoveredFrom(p, from) = from
<1>1. p.reach \in {"all", "window", "ladder"} /\ p.days \in Nat /\ from \in Int /\ today \in Int
  BY DaysAreNats DEF Provider, TypeInv, TypeOK
<1>2. p.reach = "ladder" => Rung(from, p.days) \in Nat
  BY <1>1, RungTyped DEF Answers
<1>3. Max({from, today - (p.days - 1)}) \in Int
  <2>1. today - (p.days - 1) \in Int
    BY <1>1
  <2>2. QED
    BY <1>1, <2>1, TwoBounds
<1>4. p.reach = "ladder" => Max({from, today - Rung(from, p.days)}) \in Int
  <2> HAVE p.reach = "ladder"
  <2>1. today - Rung(from, p.days) \in Int
    BY <1>1, <1>2
  <2>2. QED
    BY <1>1, <2>1, TwoBounds
<1>5. QED
  BY <1>1, <1>3, <1>4 DEF CoveredFrom

LEMMA InitTyped == Init => TypeInv
<1>1. ASSUME Init PROVE TypeOK
  <2>1. 0 \in 0 .. LastDay
    BY QuotesAssumption
  <2>2. series \in [Assets -> [Days -> Origin \cup {None}]]
    BY <1>1 DEF Init
  <2>3. payloads \subseteq Assets \X Days
    BY <1>1, DaysAreNats DEF Init
  <2>4. QED
    BY <1>1, <2>1, <2>2, <2>3, DaysAreNats, IdleTyped DEF Init, TypeOK
<1>2. Init => LoopTyped
  BY IdleTyped DEF Init, LoopTyped
<1>3. QED
  BY <1>1, <1>2 DEF TypeInv

\* The handlers, the synchronization and the clock.
LEMMA OutsideTyped ==
  ASSUME TypeInv,
         \/ \E a \in Assets : \/ \E i \in Instruments : UpdateAsset(a, i)
                              \/ \E d \in Days : SaveHolding(a, d)
                              \/ RequestBackfill(a)
                              \/ Sync(a)
         \/ NewDay \/ Start \/ Crash
  PROVE  TypeInv'
<1>1. ASSUME NEW a \in Assets, NEW i \in Instruments, UpdateAsset(a, i) PROVE TypeInv'
  BY <1>1 DEF UpdateAsset, Committed, TypeInv, TypeOK, LoopTyped
<1>2. ASSUME NEW a \in Assets, NEW d \in Days, SaveHolding(a, d) PROVE TypeInv'
  <2>1. d \in 0 .. LastDay
    BY QuotesAssumption DEF Days
  <2>2. QED
    BY <1>2, <2>1 DEF SaveHolding, Committed, TypeInv, TypeOK, LoopTyped
<1>3. ASSUME NEW a \in Assets, RequestBackfill(a) PROVE TypeInv'
  BY <1>3 DEF RequestBackfill, TypeInv, TypeOK, LoopTyped
<1>4. ASSUME NEW a \in Assets, Sync(a) PROVE TypeInv'
  <2>1. RecordSyncedQuotes(series[a], today) \in [Days -> Origin \cup {None}]
    BY DEF RecordSyncedQuotes, TypeInv, TypeOK, Origin
  <2>2. QED
    BY <1>4, <2>1 DEF Sync, TypeInv, TypeOK, LoopTyped
<1>5. CASE NewDay
  <2>1. today' \in Days
    <3>1. today \in Nat /\ LastDay \in Nat /\ today >= 1 /\ today <= LastDay
      BY QuotesAssumption DEF TypeInv, TypeOK, Days
    <3>2. today + 1 \in Int /\ LastDay \in Int
      BY <3>1
    <3>3. today' = IF today + 1 <= LastDay THEN today + 1 ELSE LastDay
      BY <1>5, <3>2, TwoBounds DEF NewDay
    <3>4. today' \in 1 .. LastDay
      BY <3>1, <3>3
    <3>5. QED
      BY <3>4 DEF Days
  <2>2. LoopTyped' /\ loop'.at = loop.at
    BY <1>5 DEF NewDay, TypeInv, LoopTyped, Loops
  <2>3. QED
    BY <1>5, <2>1, <2>2 DEF NewDay, TypeInv, TypeOK
<1>6. CASE Start
  <2>1. SeriesRebuilt \in [Assets -> [Days -> Origin \cup {None}]]
    BY DEF SeriesRebuilt, TypeInv, TypeOK, Origin
  <2>2. loop' \in Loops /\ loop'.at = "wait"
    BY <1>6, IdleTyped DEF Start, Loops, Stage
  <2>3. QED
    BY <1>6, <2>1, <2>2 DEF Start, TypeInv, TypeOK, LoopTyped
<1>7. CASE Crash
  BY <1>7, IdleTyped DEF Crash, TypeInv, TypeOK, LoopTyped
<1>8. QED
  BY <1>1, <1>2, <1>3, <1>4, <1>5, <1>6, <1>7

LEMMA PricesTyped ==
  ASSUME TypeInv, NEW a \in Assets, NEW D
  PROVE  UpsertConnectorQuotes(a, D) \in [Assets -> [Days -> Origin \cup {None}]]
<1> DEFINE row == [d \in Days |-> IF d \in D /\ series[a][d] \in {None, "market"} THEN "market"
                                  ELSE series[a][d]]
<1>1. row \in [Days -> Origin \cup {None}]
  BY DEF TypeInv, TypeOK, Origin
<1>2. UpsertConnectorQuotes(a, D) = [series EXCEPT ![a] = row]
  BY DEF UpsertConnectorQuotes
<1>3. QED
  BY <1>1, <1>2 DEF TypeInv, TypeOK

\* A wake-up, a spot, and the ends of a pass.
LEMMA PassTyped ==
  ASSUME TypeInv,
         \/ WakeDaily \/ WakeRequested \/ Drain \/ BeginHistory \/ EndPass \/ NoHistory
         \/ \E x \in loop.todo : Spot(x)
  PROVE  TypeInv'
<1>0. Listed \in SUBSET Listing /\ loop \in Loops
  BY ListedTyped DEF TypeInv, LoopTyped
<1>1. Pass \in Loops /\ Pass.at = "spot"
  <2>1. {x \in Listed : held[x.asset] # 0} \in SUBSET Listing /\ today \in Days
    BY <1>0 DEF TypeInv, TypeOK
  <2>2. QED
    BY <1>0, <2>1 DEF Pass, Loops, Stage
<1>2. Waiting \in Loops /\ Waiting.at = "wait"
  BY <1>0, IdleTyped DEF Waiting, Loops, Stage
<1>3. CASE WakeDaily
  BY <1>1, <1>3 DEF WakeDaily, TypeInv, TypeOK, LoopTyped
<1>4. CASE WakeRequested
  <2>1. loop' \in Loops /\ loop'.at = "debounce"
    BY <1>0, <1>4 DEF WakeRequested, Loops, Stage
  <2>2. QED
    BY <1>4, <2>1 DEF WakeRequested, TypeInv, TypeOK, LoopTyped
<1>5. CASE Drain
  BY <1>1, <1>5 DEF Drain, TypeInv, TypeOK, LoopTyped
<1>6. CASE BeginHistory
  <2>1. loop' \in Loops /\ loop'.at \in {"history", "wait"}
    BY <1>0, <1>2, <1>6 DEF BeginHistory, Loops, Stage
  <2>2. QED
    BY <1>6, <2>1 DEF BeginHistory, TypeInv, TypeOK, LoopTyped
<1>7. CASE EndPass
  BY <1>2, <1>7 DEF EndPass, TypeInv, TypeOK, LoopTyped
<1>8. CASE NoHistory
  <2>1. loop' \in Loops /\ loop'.at = "history"
    BY <1>0, <1>8 DEF NoHistory, Loops, Stage
  <2>2. QED
    BY <1>8, <2>1 DEF NoHistory, TypeInv, TypeOK, LoopTyped
<1>9. ASSUME NEW x \in loop.todo, Spot(x) PROVE TypeInv'
  <2>1. loop' \in Loops /\ loop'.at = "spot"
    BY <1>0, <1>9 DEF Spot, Loops, Stage
  <2>2. series' \in [Assets -> [Days -> Origin \cup {None}]]
    <3>1. x.asset \in Assets
      BY <1>0 DEF Loops, Listing
    <3>2. QED
      BY <1>9, <3>1, PricesTyped DEF Spot, TypeInv, TypeOK
  <2>3. QED
    BY <1>9, <2>1, <2>2 DEF Spot, TypeInv, TypeOK, LoopTyped
<1>10. QED
  BY <1>3, <1>4, <1>5, <1>6, <1>7, <1>8, <1>9

\* What is missing lies in the days of the model, before the day of the pass,
\* and touches the interval already covered.
LEMMA MissingRangeFits ==
  ASSUME NEW first \in Days, NEW yesterday \in Days, first <= yesterday,
         NEW covered \in Coverage \cup {None}, covered # None => covered.from <= covered.to,
         MissingRange(first, yesterday, covered) # None
  PROVE  LET range == MissingRange(first, yesterday, covered)
         IN /\ range.from \in Days /\ range.to \in Days /\ range.from <= range.to
            /\ covered # None => range.from <= covered.to + 1 /\ covered.from <= range.to + 1
<1> DEFINE range == MissingRange(first, yesterday, covered)
           back == covered # None /\ first < covered.from
           forth == covered # None /\ covered.to < yesterday
<1>1. first \in Nat /\ yesterday \in Nat /\ LastDay \in Nat
      /\ 1 <= first /\ yesterday <= LastDay
  BY QuotesAssumption DEF Days
<1>2. covered # None => /\ covered.from \in Nat /\ covered.to \in Nat
                        /\ 1 <= covered.from /\ covered.to <= LastDay
                        /\ covered.from <= covered.to
  BY <1>1 DEF Coverage, Days
<1>3. /\ covered = None \/ (back /\ forth) => range = [from |-> first, to |-> yesterday]
      /\ back /\ ~forth => range = [from |-> first, to |-> covered.from - 1]
      /\ forth /\ ~back => range = [from |-> covered.to + 1, to |-> yesterday]
      /\ covered = None \/ back \/ forth
  BY DEF MissingRange
<1>4. CASE covered = None \/ (back /\ forth)
  BY <1>1, <1>2, <1>3, <1>4 DEF Days
<1>5. CASE back /\ ~forth
  BY <1>1, <1>2, <1>3, <1>5 DEF Days
<1>6. CASE forth /\ ~back
  BY <1>1, <1>2, <1>3, <1>6 DEF Days
<1>7. QED
  BY <1>3, <1>4, <1>5, <1>6

\* What is recorded after an answer is the interval the answer and the old one
\* make together: no day of it lies outside both.
LEMMA NewCoverageUnion ==
  ASSUME NEW ask \in Ask, Fits(ask), NEW fallback \in BOOLEAN, NEW reached \in Int,
         fallback => reached <= ask.to,
         NEW after, after = NewCoverage(ask, fallback, reached)
  PROVE  /\ after \in Coverage /\ after.of = ask.of /\ after.from <= after.to
         /\ \A d \in Days :
              after.from <= d /\ d <= after.to =>
                \/ ask.from <= d /\ d <= ask.to /\ (fallback => reached <= d)
                \/ ask.covered # None /\ ask.covered.from <= d /\ d <= ask.covered.to
<1> DEFINE old == ask.covered
           from == IF fallback THEN Max({ask.from, reached}) ELSE ask.from
<1>1. /\ ask.of \in Instruments /\ ask.from \in Nat /\ ask.to \in Nat /\ LastDay \in Nat
      /\ 1 <= ask.from /\ ask.from <= ask.to /\ ask.to <= LastDay /\ old \in Coverage \cup {None}
  BY QuotesAssumption DEF Ask, Days, Fits
<1>2. old # None => /\ old.from \in Nat /\ old.to \in Nat /\ 1 <= old.from /\ old.to <= LastDay
                    /\ old.from <= old.to /\ old.of = ask.of /\ old \in Coverage
                    /\ old.from <= ask.to + 1
  BY <1>1 DEF Coverage, Days, Fits
<1>3. from \in Nat /\ ask.from <= from /\ from <= ask.to /\ (fallback => reached <= from)
  <2>1. CASE fallback
    <3>1. Max({ask.from, reached}) = IF ask.from >= reached THEN ask.from ELSE reached
      BY <1>1, TwoBounds
    <3>2. QED
      BY <1>1, <2>1, <3>1
  <2>2. CASE ~fallback
    BY <1>1, <2>2
  <2>3. QED
    BY <2>1, <2>2
<1>4. after = IF old # None /\ from > old.to + 1 THEN old ELSE MergeCoverage(ask.of, from, ask.to, old)
  BY DEF NewCoverage
<1> HIDE DEF from
<1>5. CASE old # None /\ from > old.to + 1
  BY <1>2, <1>4, <1>5
<1>6. CASE old = None
  <2>1. after = [of |-> ask.of, from |-> from, to |-> ask.to]
    BY <1>4, <1>6 DEF MergeCoverage
  <2>2. from \in Days /\ ask.to \in Days
    BY <1>1, <1>3 DEF Days
  <2>3. after \in Coverage
    BY <1>1, <2>1, <2>2 DEF Coverage
  <2>4. QED
    BY <1>1, <1>3, <2>1, <2>3, DaysAreNats
<1>7. CASE old # None /\ ~(from > old.to + 1)
  <2> DEFINE first == IF from <= old.from THEN from ELSE old.from
             last == IF ask.to >= old.to THEN ask.to ELSE old.to
  <2>1. after = [of |-> ask.of, from |-> first, to |-> last]
    <3>1. from \in Int /\ old.from \in Int /\ ask.to \in Int /\ old.to \in Int
      BY <1>1, <1>2, <1>3, <1>7
    <3>2. Min({from, old.from}) = first
      BY <3>1, TwoBounds
    <3>3. Max({ask.to, old.to}) = last
      BY <3>1, TwoBounds
    <3>4. QED
      BY <1>4, <1>7, <3>2, <3>3 DEF MergeCoverage
  <2>2. first \in Days /\ last \in Days /\ first <= last
    BY <1>1, <1>2, <1>3, <1>7 DEF Days
  <2>3. after \in Coverage
    BY <1>1, <2>1, <2>2 DEF Coverage
  <2>4. ASSUME NEW d \in Days, first <= d, d <= last
        PROVE \/ from <= d /\ d <= ask.to
              \/ old.from <= d /\ d <= old.to
    BY <1>1, <1>2, <1>3, <1>7, <2>4, DaysAreNats
  <2>5. ASSUME NEW d \in Days, from <= d PROVE ask.from <= d /\ (fallback => reached <= d)
    BY <1>1, <1>3, <2>5, DaysAreNats
  <2>6. QED
    BY <1>1, <1>7, <2>1, <2>2, <2>3, <2>4, <2>5
<1>8. QED
  BY <1>5, <1>6, <1>7

\* The request for what is missing, the answer, and its record.
LEMMA AskTyped ==
  ASSUME TypeInv, NEW x \in loop.todo, AskHistory(x)
  PROVE  /\ TypeInv'
         /\ loop'.at = "asked" =>
              /\ loop'.ask.asset \in Assets
              /\ loop'.ask.covered # None => loop'.ask.covered = coverage[loop'.ask.asset]
         /\ loop'.at \in {"asked", "history"} /\ loop'.due = loop.due
<1> DEFINE a == x.asset
           covered == IF coverage[a] # None /\ coverage[a].of = x.of THEN coverage[a] ELSE None
           yesterday == loop.asOf - 1
           range == HistoryRange(a, yesterday, covered)
<1>1. loop \in Loops /\ loop.at = "history" /\ x \in Listing
  BY DEF AskHistory, TypeInv, LoopTyped, Loops
<1>2. a \in Assets /\ x.of \in Instruments /\ loop.asOf \in Days /\ loop.todo \ {x} \in SUBSET Listing
  BY <1>1 DEF Loops, Listing
<1>3. UNCHANGED <<loopOnly, series, coverage, slot, unseen>>
  BY DEF AskHistory
<1>4. CASE loop' = [loop EXCEPT !.todo = @ \ {x}]
  <2>1. loop' \in Loops /\ loop'.at = "history" /\ loop'.due = loop.due
    BY <1>1, <1>2, <1>4 DEF Loops
  <2>2. QED
    BY <1>3, <2>1 DEF TypeInv, TypeOK, LoopTyped
<1>5. CASE /\ range # None
           /\ loop' = [loop EXCEPT !.at = "asked", !.todo = @ \ {x},
                                   !.ask = [asset |-> a, of |-> x.of, from |-> range.from,
                                            to |-> range.to, covered |-> covered, next |-> None]]
  <2>1. /\ covered \in Coverage \cup {None}
        /\ covered # None => covered = coverage[a] /\ covered.of = x.of /\ covered.from <= covered.to
    BY <1>2 DEF TypeInv, TypeOK, LoopTyped
  <2>2. /\ held[a] # 0 /\ ~(held[a] > yesterday)
        /\ range = MissingRange(held[a], yesterday, covered)
    BY <1>5 DEF HistoryRange
  <2>3. held[a] \in Days /\ yesterday \in Days /\ held[a] <= yesterday
    <3>1. held[a] \in 0 .. LastDay /\ LastDay \in Nat
      BY <1>2, QuotesAssumption DEF TypeInv, TypeOK
    <3>2. QED
      BY <1>2, <2>2, <3>1 DEF Days
  <2> HIDE DEF covered, range, yesterday
  <2>4. /\ range.from \in Days /\ range.to \in Days /\ range.from <= range.to
        /\ covered # None => range.from <= covered.to + 1 /\ covered.from <= range.to + 1
    BY <1>5, <2>1, <2>2, <2>3, MissingRangeFits
  <2>5. PICK ask : ask = [asset |-> a, of |-> x.of, from |-> range.from,
                          to |-> range.to, covered |-> covered, next |-> None]
    OBVIOUS
  <2>6. ask \in Ask /\ Fits(ask) /\ ask.asset = a /\ ask.covered = covered
    BY <1>2, <2>1, <2>4, <2>5 DEF Ask, Fits
  <2>7. loop' \in Loops /\ loop'.at = "asked" /\ loop'.ask = ask /\ loop'.due = loop.due
    BY <1>1, <1>2, <1>5, <2>5, <2>6 DEF Loops, Stage
  <2>8. QED
    BY <1>2, <1>3, <2>1, <2>6, <2>7 DEF TypeInv, TypeOK, LoopTyped
<1>6. QED
  BY <1>4, <1>5 DEF AskHistory

LEMMA AnswerTyped ==
  ASSUME TypeInv, NEW n \in 1 .. 3, History(n)
  PROVE  /\ TypeInv'
         /\ loop'.due = loop.due /\ loop'.at \in {"history", "stored"}
         /\ loop'.at = "stored" =>
              \E reached \in Int :
                /\ Chain[loop.ask.of][n].reach = "all" => reached = loop.ask.from
                /\ reached <= loop.ask.to
                /\ loop'.ask.next = NewCoverage(loop.ask, n > 1, reached)
                /\ loop'.ask.asset = loop.ask.asset /\ loop'.ask.covered = loop.ask.covered
                /\ n \in DOMAIN Chain[loop.ask.of]
                /\ \E skipped \in SUBSET Chain[loop.ask.of][n].gaps :
                     series' = UpsertConnectorQuotes(loop.ask.asset,
                                 Prices(loop.ask.of, reached, loop.ask.to, skipped))
<1> DEFINE ask == loop.ask
           i == ask.of
           reached == CoveredFrom(Chain[i][n], ask.from)
           after == NewCoverage(ask, n > 1, reached)
<1>1. /\ loop \in Loops /\ loop.at = "asked" /\ ask \in Ask /\ Fits(ask)
      /\ n \in DOMAIN Chain[i] /\ Answers(Chain[i][n], ask.from)
      /\ UNCHANGED <<loopOnly, coverage, slot, unseen>>
  BY DEF History, TypeInv, LoopTyped
<1>2. /\ i \in Instruments /\ ask.asset \in Assets /\ ask.from \in Days /\ ask.to \in Days
      /\ Chain[i][n] \in Provider
  <2>1. i \in Instruments /\ ask.asset \in Assets /\ ask.from \in Days /\ ask.to \in Days
    BY <1>1 DEF Ask
  <2>2. Chain[i] \in Seq(Provider)
    BY <2>1, QuotesAssumption
  <2>3. QED
    BY <1>1, <2>1, <2>2
<1>3. reached \in Int /\ (Chain[i][n].reach = "all" => reached = ask.from)
  BY <1>1, <1>2, CoveredFromTyped
<1>4. CASE reached > ask.to
  <2>1. loop' = [loop EXCEPT !.at = "history", !.ask = None] /\ UNCHANGED series
    BY <1>4 DEF History
  <2>2. loop' \in Loops /\ loop'.at = "history" /\ loop'.due = loop.due
    BY <1>1, <2>1 DEF Loops, Stage
  <2>3. QED
    BY <1>1, <2>1, <2>2 DEF TypeInv, TypeOK, LoopTyped
<1>5. CASE ~(reached > ask.to)
  <2>1. /\ \E skipped \in SUBSET Chain[i][n].gaps :
             series' = UpsertConnectorQuotes(ask.asset, Prices(i, reached, ask.to, skipped))
        /\ loop' = [loop EXCEPT !.at = "stored", !.ask.next = after]
    BY <1>5 DEF History
  <2>2. reached <= ask.to
    <3>1. ask.to \in Int
      <4>1. Days \subseteq Int
        BY DaysAreNats
      <4>2. ask.to \in Days
        BY <1>2
      <4>3. QED
        BY <4>1, <4>2
    <3>2. reached \in Int
      BY <1>3
    <3> HIDE DEF reached
    <3>3. QED
      BY <1>5, <3>1, <3>2
  <2>3. PICK w : w = after
    OBVIOUS
  <2>4. PICK far : far = reached
    OBVIOUS
  <2>5. w \in Coverage /\ w.of = ask.of /\ w.from <= w.to
    <3>1. (n > 1) \in BOOLEAN /\ ((n > 1) => far <= ask.to) /\ far \in Int
      BY <1>3, <2>2, <2>4
    <3>2. w = NewCoverage(ask, n > 1, far)
      BY <2>3, <2>4
    <3>3. QED
      BY <1>1, <3>1, <3>2, NewCoverageUnion
  <2>6. PICK asked : asked = [ask EXCEPT !.next = w]
    OBVIOUS
  <2>7. /\ asked \in Ask /\ Fits(asked) /\ asked.next = w
        /\ asked.of = ask.of /\ asked.asset = ask.asset /\ asked.covered = ask.covered
    BY <1>1, <2>5, <2>6 DEF Ask, Fits
  <2>8. loop' = [loop EXCEPT !.at = "stored", !.ask = asked]
    BY <2>1, <2>3, <2>6
  <2>9. loop' \in Loops /\ loop'.at = "stored" /\ loop'.ask = asked /\ loop'.due = loop.due
    BY <1>1, <2>7, <2>8 DEF Loops, Stage
  <2>10. series' \in [Assets -> [Days -> Origin \cup {None}]]
    BY <1>2, <2>1, PricesTyped
  <2>11. TypeInv'
    BY <1>1, <2>5, <2>7, <2>9, <2>10 DEF TypeInv, TypeOK, LoopTyped
  <2>12. QED
    BY <1>1, <1>3, <2>1, <2>2, <2>3, <2>7, <2>9, <2>11
<1>6. QED
  BY <1>4, <1>5

LEMMA RecordTyped ==
  ASSUME TypeInv, SaveCoverage
  PROVE  TypeInv' /\ loop'.at = "history" /\ loop'.due = loop.due
<1>1. /\ loop \in Loops /\ loop.at = "stored" /\ loop.ask \in Ask
      /\ loop.ask.next \in Coverage /\ loop.ask.next.from <= loop.ask.next.to
  BY DEF SaveCoverage, TypeInv, LoopTyped
<1>2. loop' \in Loops /\ loop'.at = "history" /\ loop'.due = loop.due
  BY <1>1 DEF SaveCoverage, Loops, Stage
<1>3. loop.ask.asset \in Assets
  BY <1>1 DEF Ask
<1>4. /\ coverage' \in [Assets -> Coverage \cup {None}]
      /\ \A a \in Assets : coverage'[a] # None => coverage'[a].from <= coverage'[a].to
  BY <1>1, <1>3 DEF SaveCoverage, TypeInv, TypeOK, LoopTyped
<1>5. QED
  BY <1>2, <1>4 DEF SaveCoverage, TypeInv, TypeOK, LoopTyped

LEMMA NextTyped ==
  ASSUME TypeInv, [Next]_vars
  PROVE  TypeInv'
<1>1. CASE UNCHANGED vars
  BY <1>1 DEF TypeInv, TypeOK, LoopTyped
<1>2. CASE Loop
  BY <1>2, PassTyped, AskTyped, AnswerTyped, RecordTyped DEF Loop
<1>3. CASE Next /\ ~Loop
  BY <1>3, OutsideTyped DEF Next
<1>4. QED
  BY <1>1, <1>2, <1>3

\* Every variable keeps its type: whatever the chains of providers answer, a
\* day asked for or recorded is a day of the calendar, and no recorded interval
\* is empty.
THEOREM TypeCorrect == Spec => []TypeOK
<1>1. TypeInv /\ [Next]_vars => TypeInv'
  BY NextTyped
<1>2. TypeInv => TypeOK
  BY DEF TypeInv
<1>3. QED
  BY InitTyped, <1>1, <1>2, PTL DEF Spec

-----------------------------------------------------------------------------
(* A save is never slept over *)

\* An asset saved since the last listing is in a handler that will ask for a
\* pass, or a pass is on its way.
WillBeListed ==
  unseen \subseteq saving \/ slot \/ loop.due \/ loop.at \in {"stopped", "debounce"}

LEMMA ListedKeeps ==
  ASSUME TypeInv, WillBeListed, [Next]_vars
  PROVE  WillBeListed'
<1> USE DEF WillBeListed
<1>0. loop \in Loops
  BY DEF TypeInv, LoopTyped
<1>1. CASE UNCHANGED vars
  BY <1>1
<1>2. CASE Loop
  <2>1. CASE WakeDaily \/ Drain
    BY <2>1 DEF WakeDaily, Drain
  <2>2. CASE WakeRequested
    <3>1. loop'.at = "debounce"
      BY <1>0, <2>2 DEF WakeRequested, Loops
    <3>2. QED
      BY <3>1
  <2>3. CASE BeginHistory \/ EndPass \/ NoHistory \/ \E x \in loop.todo : Spot(x)
    <3>1. /\ UNCHANGED <<unseen, saving, slot>>
          /\ loop.at \in {"spot", "history", "asked"}
      BY <2>3 DEF BeginHistory, EndPass, NoHistory, Spot
    <3>2. loop'.due = loop.due
      BY <1>0, <2>3 DEF BeginHistory, EndPass, NoHistory, Spot, Waiting, Idle, Loops
    <3>3. QED
      BY <3>1, <3>2
  <2>4. CASE (\E x \in loop.todo : AskHistory(x)) \/ (\E n \in 1 .. 3 : History(n)) \/ SaveCoverage
    <3>1. /\ UNCHANGED <<unseen, saving, slot>>
          /\ loop.at \in {"history", "asked", "stored"}
      BY <2>4 DEF AskHistory, History, SaveCoverage
    <3>2. loop'.due = loop.due
      BY <2>4, AskTyped, AnswerTyped, RecordTyped
    <3>3. QED
      BY <3>1, <3>2
  <2>5. QED
    BY <1>2, <2>1, <2>2, <2>3, <2>4 DEF Loop
<1>3. CASE \/ \E a \in Assets, i \in Instruments : UpdateAsset(a, i)
           \/ \E a \in Assets, d \in Days : SaveHolding(a, d)
  BY <1>3 DEF UpdateAsset, SaveHolding, Committed
<1>4. CASE \E a \in Assets : RequestBackfill(a) \/ Sync(a)
  BY <1>4 DEF RequestBackfill, Sync
<1>5. CASE NewDay
  <2>1. loop'.at = loop.at /\ (loop.due => loop'.due)
    BY <1>0, <1>5 DEF NewDay, Loops
  <2>2. QED
    BY <1>5, <2>1 DEF NewDay
<1>6. CASE Start
  <2>1. loop'.due
    BY <1>6, IdleTyped DEF Start, Loops
  <2>2. QED
    BY <2>1
<1>7. CASE Crash
  BY <1>7, IdleTyped DEF Crash
<1>8. QED
  BY <1>1, <1>2, <1>3, <1>4, <1>5, <1>6, <1>7 DEF Next

\* A save is never slept over: the one slot of backfillRequests, the debounce
\* and the daily slot between them let no committed save wait for nothing.
THEOREM NoSaveForgotten == Spec => []NoSaveSleeps
<1>1. Init => WillBeListed
  BY DEF Init, WillBeListed
<1>2. TypeInv /\ WillBeListed /\ [Next]_vars => TypeInv' /\ WillBeListed'
  BY NextTyped, ListedKeeps
<1>3. WillBeListed => NoSaveSleeps
  BY DEF WillBeListed, NoSaveSleeps
<1>4. QED
  BY InitTyped, <1>1, <1>2, <1>3, PTL DEF Spec

-----------------------------------------------------------------------------
(* The coverage is honest *)

\* A provider of the chain may have no usable close for the day.
Gap(i, d) == \E n \in DOMAIN Chain[i] : d \in Chain[i][n].gaps

\* The interval c of asset a holds no trading day without a quote but gaps of
\* its providers, if the first of them serves the whole history.
Honest(a, c) ==
  Chain[c.of][1].reach = "all" =>
    \A d \in Trades[c.of] : c.from <= d /\ d <= c.to => series[a][d] # None \/ Gap(c.of, d)

\* What is recorded is honest, and so is what a request remembers and what an
\* answer is about to record.
HonestInv ==
  /\ CoverageHonest
  /\ loop.at \in {"asked", "stored"} /\ loop.ask.covered # None =>
       Honest(loop.ask.asset, loop.ask.covered)
  /\ loop.at = "stored" => Honest(loop.ask.asset, loop.ask.next)

\* No step takes a quote away.
LEMMA SeriesGrows ==
  ASSUME TypeInv, [Next]_vars, NEW a \in Assets, NEW d \in Days, series[a][d] # None
  PROVE  series'[a][d] # None
<1>1. None \notin Origin /\ {"sync", "issue", "market"} = Origin
  BY QuotesAssumption DEF Origin
<1>2. ASSUME NEW b \in Assets, NEW D PROVE UpsertConnectorQuotes(b, D)[a][d] # None
  BY <1>1 DEF UpsertConnectorQuotes, TypeInv, TypeOK
<1>3. CASE UNCHANGED series
  BY <1>3
<1>4. ASSUME NEW b \in Assets, Sync(b) PROVE series'[a][d] # None
  <2>1. RecordSyncedQuotes(series[a], today)[d] # None
    BY <1>1 DEF RecordSyncedQuotes
  <2>2. QED
    BY <1>4, <2>1 DEF Sync, TypeInv, TypeOK
<1>5. CASE Start
  <2>1. SeriesRebuilt[a][d] # None
    BY <1>1 DEF SeriesRebuilt
  <2>2. QED
    BY <1>5, <2>1 DEF Start
<1>6. ASSUME NEW x \in loop.todo, Spot(x) PROVE series'[a][d] # None
  <2>1. x.asset \in Assets
    BY DEF TypeInv, LoopTyped, Loops, Listing
  <2>2. QED
    BY <1>2, <1>6, <2>1 DEF Spot
<1>7. ASSUME NEW n \in 1 .. 3, History(n) PROVE series'[a][d] # None
  <2>1. loop.ask.asset \in Assets
    BY <1>7 DEF History, TypeInv, LoopTyped, Ask
  <2>2. \/ UNCHANGED series
        \/ \E D : series' = UpsertConnectorQuotes(loop.ask.asset, D)
    BY <1>7 DEF History
  <2>3. QED
    BY <1>2, <2>1, <2>2
<1>8. QED
  BY <1>3, <1>4, <1>5, <1>6, <1>7
     DEF Next, Loop, UpdateAsset, SaveHolding, RequestBackfill, NewDay, Crash, WakeDaily,
         WakeRequested, Drain, BeginHistory, AskHistory, NoHistory, SaveCoverage, EndPass

LEMMA HonestStays ==
  ASSUME TypeInv, [Next]_vars, NEW a \in Assets, NEW c, c.of \in Instruments, Honest(a, c)
  PROVE  Honest(a, c)'
<1>1. Trades[c.of] \subseteq Days
  BY QuotesAssumption
<1>2. QED
  BY <1>1, SeriesGrows DEF Honest

\* What an answer of the chain is about to record is honest: the answer's days
\* are stored with it, the others were covered before.
LEMMA AnswerHonest ==
  ASSUME TypeInv, HonestInv, NEW n \in 1 .. 3, History(n), loop'.at = "stored",
         NEW a, a = loop.ask.asset, NEW after, after = loop'.ask.next
  PROVE  Honest(a, after)'
<1>0. PICK ask, i : ask = loop.ask /\ i = ask.of
  OBVIOUS
<1>1. /\ loop.at = "asked" /\ ask \in Ask /\ Fits(ask) /\ i \in Instruments /\ a \in Assets
      /\ ask.from \in Days /\ ask.to \in Days
  BY <1>0 DEF History, TypeInv, LoopTyped, Ask
<1>2. PICK reached \in Int :
        /\ Chain[i][n].reach = "all" => reached = ask.from
        /\ reached <= ask.to
        /\ after = NewCoverage(ask, n > 1, reached)
        /\ n \in DOMAIN Chain[i]
        /\ \E skipped \in SUBSET Chain[i][n].gaps :
             series' = UpsertConnectorQuotes(a, Prices(i, reached, ask.to, skipped))
  BY <1>0, AnswerTyped
<1>3. PICK fallback \in BOOLEAN : fallback = (n > 1)
  <2>1. (n > 1) = TRUE \/ (n > 1) = FALSE
    OBVIOUS
  <2>2. QED
    BY <2>1, Zenon
<1>4. /\ after.of = i
      /\ \A d \in Days :
           after.from <= d /\ d <= after.to =>
             \/ ask.from <= d /\ d <= ask.to /\ (fallback => reached <= d)
             \/ ask.covered # None /\ ask.covered.from <= d /\ d <= ask.covered.to
  <2>1. after = NewCoverage(ask, fallback, reached)
    BY <1>2, <1>3
  <2>2. QED
    BY <1>0, <1>1, <1>2, <2>1, NewCoverageUnion
<1>5. Trades[i] \subseteq Days /\ "market" # None
  BY <1>1, QuotesAssumption DEF Origin
<1>6. ASSUME NEW d \in Trades[i], Chain[i][1].reach = "all", after.from <= d, d <= after.to
      PROVE series'[a][d] # None \/ Gap(i, d)
  <2>1. CASE ask.from <= d /\ d <= ask.to /\ (fallback => reached <= d)
    <3>1. reached <= d
      <4>1. CASE n > 1
        <5>1. fallback = TRUE
          BY <1>3, <4>1
        <5>2. QED
          BY <2>1, <5>1
      <4>2. CASE ~(n > 1)
        <5>1. n = 1
          BY <4>2
        <5>2. reached = ask.from
          BY <1>2, <1>6, <5>1
        <5>3. QED
          BY <2>1, <5>2
      <4>3. QED
        BY <4>1, <4>2
    <3>2. PICK skipped \in SUBSET Chain[i][n].gaps :
            series' = UpsertConnectorQuotes(a, Prices(i, reached, ask.to, skipped))
      BY <1>2
    <3>3. CASE d \in skipped
      BY <1>2, <3>2, <3>3 DEF Gap
    <3>4. CASE d \notin skipped
      <4>1. d \in Prices(i, reached, ask.to, skipped)
        BY <1>6, <2>1, <3>1, <3>4 DEF Prices
      <4>2. QED
        BY <1>1, <1>5, <3>2, <4>1 DEF UpsertConnectorQuotes, TypeInv, TypeOK
    <3>5. QED
      BY <3>3, <3>4
  <2>2. CASE ask.covered # None /\ ask.covered.from <= d /\ d <= ask.covered.to
    <3>1. ask.covered.of = i /\ Honest(a, ask.covered)
      BY <1>0, <1>1, <2>2 DEF HonestInv, Fits
    <3>2. series[a][d] # None \/ Gap(i, d)
      BY <1>6, <2>2, <3>1 DEF Honest
    <3>3. [Next]_vars
      BY DEF Next, Loop
    <3>4. QED
      BY <1>1, <1>5, <3>2, <3>3, SeriesGrows
  <2>3. QED
    BY <1>4, <1>5, <1>6, <2>1, <2>2
<1>7. QED
  BY <1>4, <1>6 DEF Honest

\* A request is in hand after a step because it was, was just made or was just
\* answered.
LEMMA InHandBecause ==
  ASSUME TypeInv, [Next]_vars, loop'.at \in {"asked", "stored"}
  PROVE  \/ loop'.at = loop.at /\ loop'.ask = loop.ask
         \/ \E x \in loop.todo : AskHistory(x)
         \/ \E n \in 1 .. 3 : History(n)
<1>1. loop \in Loops /\ Idle \in Loops
  BY IdleTyped DEF TypeInv, LoopTyped
<1>2. CASE UNCHANGED loop
  BY <1>2
<1>3. CASE NewDay
  BY <1>1, <1>3 DEF NewDay, Loops
<1>4. CASE Start \/ Crash
  <2>1. loop'.at \in {"wait", "stopped"}
    BY <1>1, <1>4, IdleTyped DEF Start, Crash, Loops
  <2>2. QED
    BY <2>1
<1>5. CASE WakeDaily \/ WakeRequested \/ Drain \/ BeginHistory \/ NoHistory \/ SaveCoverage \/ EndPass
  <2>1. loop'.at \in {"wait", "debounce", "spot", "history"}
    BY <1>1, <1>5
       DEF WakeDaily, WakeRequested, Drain, Pass, BeginHistory, NoHistory, SaveCoverage, EndPass,
           Waiting, Loops
  <2>2. QED
    BY <2>1
<1>6. CASE \E x \in loop.todo : Spot(x)
  <2>1. loop'.at = "spot"
    BY <1>1, <1>6 DEF Spot, Loops
  <2>2. QED
    BY <2>1
<1>7. QED
  BY <1>2, <1>3, <1>4, <1>5, <1>6
     DEF Next, Loop, UpdateAsset, SaveHolding, RequestBackfill, Sync

LEMMA HonestKeeps ==
  ASSUME TypeInv, HonestInv, [Next]_vars
  PROVE  HonestInv'
<1>1. \A a \in Assets : \A c : c.of \in Instruments /\ Honest(a, c) => Honest(a, c)'
  BY HonestStays
<1>2. /\ TypeInv' /\ loop \in Loops
      /\ \A a \in Assets : coverage[a] # None => coverage[a].of \in Instruments /\ Honest(a, coverage[a])
  BY NextTyped DEF TypeInv, TypeOK, LoopTyped, Coverage, HonestInv, CoverageHonest, Honest, Gap
\* The record stays as it was, or takes what an answer prepared.
<1>3. CoverageHonest'
  <2> SUFFICES ASSUME NEW a \in Assets, NEW c, c = coverage'[a], c # None PROVE Honest(a, c)'
    BY DEF CoverageHonest, Honest, Gap
  <2>1. CASE c = coverage[a]
    BY <1>1, <1>2, <2>1
  <2>2. CASE c # coverage[a]
    <3>1. SaveCoverage /\ coverage' = [coverage EXCEPT ![loop.ask.asset] = loop.ask.next]
      BY <2>2
         DEF Next, Loop, UpdateAsset, SaveHolding, RequestBackfill, Sync, NewDay, Start, Crash,
             WakeDaily, WakeRequested, Drain, Spot, BeginHistory, AskHistory, NoHistory, History,
             SaveCoverage, EndPass
    <3>2. a = loop.ask.asset /\ c = loop.ask.next
      BY <2>2, <3>1 DEF TypeInv, TypeOK
    <3>3. c.of \in Instruments /\ Honest(a, c)
      BY <3>1, <3>2 DEF SaveCoverage, HonestInv, TypeInv, LoopTyped, Coverage
    <3>4. QED
      BY <1>1, <3>3
  <2>3. QED
    BY <2>1, <2>2
\* The request in hand remembers what was recorded when it was made.
<1>4. ASSUME loop'.at \in {"asked", "stored"}, loop'.ask.covered # None,
             NEW a, a = loop'.ask.asset, NEW c, c = loop'.ask.covered
      PROVE  Honest(a, c)'
  <2>1. CASE loop'.at = loop.at /\ loop'.ask = loop.ask
    <3>1. a \in Assets /\ c.of \in Instruments
      BY <1>4, <2>1 DEF TypeInv, LoopTyped, Ask, Fits
    <3>2. Honest(a, c)
      BY <1>4, <2>1 DEF HonestInv
    <3>3. QED
      BY <1>1, <3>1, <3>2
  <2>2. ASSUME NEW x \in loop.todo, AskHistory(x) PROVE Honest(a, c)'
    <3>1. loop'.at = "asked" /\ a \in Assets /\ c = coverage[a] /\ c # None
      BY <1>4, <2>2, AskTyped
    <3>2. QED
      BY <1>1, <1>2, <3>1
  <2>3. ASSUME NEW n \in 1 .. 3, History(n) PROVE Honest(a, c)'
    <3>1. loop'.at = "stored" /\ loop.at = "asked" /\ a = loop.ask.asset /\ c = loop.ask.covered
      BY <1>4, <2>3, AnswerTyped DEF History
    <3>2. a \in Assets /\ c.of \in Instruments /\ Honest(a, c)
      BY <1>4, <3>1 DEF HonestInv, TypeInv, LoopTyped, Ask, Fits
    <3>3. QED
      BY <1>1, <3>2
  <2>4. QED
    BY <1>4, <2>1, <2>2, <2>3, InHandBecause
\* An answer that is about to be recorded stored its days with it.
<1>5. ASSUME loop'.at = "stored", NEW a, a = loop'.ask.asset, NEW c, c = loop'.ask.next
      PROVE  Honest(a, c)'
  <2>1. CASE loop'.at = loop.at /\ loop'.ask = loop.ask
    <3>1. a \in Assets /\ c.of \in Instruments /\ Honest(a, c)
      BY <1>5, <2>1 DEF HonestInv, TypeInv, LoopTyped, Ask, Coverage
    <3>2. QED
      BY <1>1, <3>1
  <2>2. ASSUME NEW x \in loop.todo, AskHistory(x) PROVE FALSE
    BY <1>5, <2>2, AskTyped
  <2>3. ASSUME NEW n \in 1 .. 3, History(n) PROVE Honest(a, c)'
    <3>1. a = loop.ask.asset
      BY <1>5, <2>3, AnswerTyped
    <3>2. QED
      BY <1>5, <2>3, <3>1, AnswerHonest
  <2>4. QED
    BY <1>5, <2>1, <2>2, <2>3, InHandBecause
<1>6. QED
  BY <1>3, <1>4, <1>5 DEF HonestInv

\* A trading day inside the covered interval with no quote is a day some provider
\* of the chain has no usable close for, where the first serves the whole
\* history: answers that reach less far back, switched symbols and lost records
\* never widen the interval over days nobody asked for.
THEOREM CoverageStaysHonest == Spec => []CoverageHonest
<1>1. Init => HonestInv
  BY IdleTyped DEF Init, HonestInv, CoverageHonest
<1>2. TypeInv /\ HonestInv /\ [Next]_vars => TypeInv' /\ HonestInv'
  BY NextTyped, HonestKeeps
<1>3. HonestInv => CoverageHonest
  BY DEF HonestInv
<1>4. QED
  BY InitTyped, <1>1, <1>2, <1>3, PTL DEF Spec

\* No quote is ever lost: refreshes, synchronizations and rebuilds only add
\* days to a series or replace the price of one.
QuotesKept == \A a \in Assets, d \in Days : series[a][d] # None => series'[a][d] # None

\* A stored quote stays stored, whatever refresh, synchronization or rebuild
\* runs next.
THEOREM SeriesOnlyGrow == Spec => [][QuotesKept]_vars
<1>1. TypeInv /\ [Next]_vars => [QuotesKept]_vars
  BY SeriesGrows DEF QuotesKept
<1>2. TypeInv /\ [Next]_vars => TypeInv'
  BY NextTyped
<1>3. QED
  BY InitTyped, <1>1, <1>2, PTL DEF Spec

-----------------------------------------------------------------------------
(* The shared lookup                                                       *)

USE DEF marketVars, lookupVars, limiterVars, bounds

Where == Leading \cup {"idle", "enter", "wait", "returned"}

Calls == [at : Where, of : Symbols \cup {Nil}, p : Providers, attempt : 1 .. MaxAttempts,
          nap : Nat, resp : Response \cup {Nil}, got : Outcome \cup {Nil, "abandoned"},
          unknown : BOOLEAN, limited : BOOLEAN, cancelled : BOOLEAN]

CallsTyped ==
  /\ call \in [Callers -> Calls]
  /\ inflight \in [Symbols -> Callers \cup {Nil}]
  /\ fresh \in [Symbols -> 0 .. TTL]
  /\ next \in [Providers -> Nat]
  /\ paused \in [Providers -> Nat]
  /\ asking \in [Providers -> Callers \cup {Nil}]
  /\ said \in [Callers -> SUBSET Providers]
  /\ \A c \in Callers : call[c].at # "idle" => call[c].of \in Symbols
  /\ \A c \in Callers : call[c].at \in {"observe", "handle"} => call[c].resp \in Response

\* Who leads and who waits, as SharedLookup has it, with the instrument.
LookupInv ==
  /\ \A c \in Callers : call[c].at \in Leading => inflight[call[c].of] = c
  /\ \A i \in Symbols : inflight[i] # Nil => /\ call[inflight[i]].at \in Leading
                                                  /\ call[inflight[i]].of = i
  /\ \A c \in Callers : /\ call[c].at = "wait" /\ call[c].got = Nil
                        => inflight[call[c].of] # Nil

\* What a leader that was told only "not found" has heard so far: the providers
\* before the one it asks, and that one too when it has failed there.
Heard(c) ==
  call[c].unknown =>
    /\ 1 .. (call[c].p - 1) \subseteq said[c]
    /\ call[c].at = "failed" /\ ~call[c].cancelled => call[c].p \in said[c]

OutcomeInv ==
  \A c \in Callers :
    /\ call[c].at \in Leading => Heard(c)
    /\ call[c].at \in {"enter", "wait"} => call[c].p = 1
    /\ call[c].at = "enter" => call[c].got = Nil
    /\ call[c].at = "wait" /\ call[c].got # Nil =>
         /\ call[c].got # "cancelled"
         /\ call[c].got = "not found" => said[c] = Providers
    /\ call[c].at = "returned" =>
         /\ call[c].got = "cancelled" => call[c].cancelled
         /\ call[c].got = "not found" => said[c] = Providers

\* A provider answers one request at a time, whoever asks it.
OneRequestEach ==
  \A c \in Callers : call[c].at = "request" => asking[call[c].p] = c

Inv == CallsTyped /\ LookupInv /\ OutcomeInv /\ OneRequestEach

-----------------------------------------------------------------------------
(* Arithmetic of the limiter *)

LEMMA MaxOfTwo ==
  ASSUME NEW x \in Int, NEW y \in Int
  PROVE  Max({x, y}) = IF x >= y THEN x ELSE y
<1>1. PICK m \in {x, y} : (\A z \in {x, y} : m >= z) /\ m = Max({x, y})
  <2>1. \E w \in {x, y} : \A z \in {x, y} : w >= z
    OBVIOUS
  <2>2. QED
    BY <2>1 DEF Max
<1>2. QED
  BY <1>1

LEMMA LessIsNat ==
  ASSUME NEW n \in Nat
  PROVE  Less(n) \in Nat /\ Less(n) <= n
BY MaxOfTwo DEF Less

LEMMA BackoffIsNat ==
  ASSUME NEW n \in 1 .. MaxAttempts
  PROVE  Backoff * n \in Nat
BY MarketDataAssumption

LEMMA PausedIsNat ==
  ASSUME CallsTyped, NEW p \in Providers, NEW d \in Nat
  PROVE  Paused(p, d) \in [Providers -> Nat]
<1>1. Max({paused[p], d}) \in Nat
  BY MaxOfTwo DEF CallsTyped
<1>2. QED
  BY <1>1 DEF CallsTyped, Paused

LEMMA ReadyIsNat ==
  ASSUME CallsTyped, NEW p \in Providers
  PROVE  Ready(p) \in Nat
BY MaxOfTwo DEF CallsTyped, Ready

LEMMA AfterIsNat ==
  ASSUME NEW r \in Response
  PROVE  r.after \in Nat
BY MarketDataAssumption DEF Response

-----------------------------------------------------------------------------
(* Types *)

\* A step that changes the record of one caller keeps the types when the new
\* record has them.
LEMMA OneCallTyped ==
  ASSUME CallsTyped, NEW c \in Callers, NEW r \in Calls,
         call' = [call EXCEPT ![c] = r],
         r.at # "idle" => r.of \in Symbols,
         r.at \in {"observe", "handle"} => r.resp \in Response
  PROVE  /\ call' \in [Callers -> Calls]
         /\ \A d \in Callers : call'[d].at # "idle" => call'[d].of \in Symbols
         /\ \A d \in Callers : call'[d].at \in {"observe", "handle"} => call'[d].resp \in Response
BY DEF CallsTyped

LEMMA NoCallTyped == NoCall \in Calls /\ NoCall.at = "idle" /\ NoCall.got = Nil /\ NoCall.p = 1
<1>1. 1 \in Providers /\ 1 \in 1 .. MaxAttempts
  BY MarketDataAssumption DEF Providers
<1>2. QED
  BY <1>1 DEF Calls, NoCall, Where

LEMMA PublishTyped ==
  ASSUME CallsTyped, NEW c \in Callers, call[c].at \in Leading,
         NEW outcome \in Outcome, Publish(c, outcome)
  PROVE  /\ call' \in [Callers -> Calls]
         /\ inflight' \in [Symbols -> Callers \cup {Nil}]
         /\ fresh' \in [Symbols -> 0 .. TTL]
         /\ said' \in [Callers -> SUBSET Providers]
         /\ \A d \in Callers : call'[d].at # "idle" => call'[d].of \in Symbols
         /\ \A d \in Callers : call'[d].at \in {"observe", "handle"} => call'[d].resp \in Response
<1> DEFINE i == call[c].of
           told == IF Abandoned(c, outcome) THEN "abandoned" ELSE outcome
           ended == [NoCall EXCEPT !.at = "returned", !.of = i, !.got = outcome,
                                 !.cancelled = call[c].cancelled]
<1>1. i \in Symbols /\ call[c] \in Calls
  BY DEF CallsTyped, Leading
<1>2. told \in Outcome \cup {"abandoned"}
  OBVIOUS
<1>3. ended \in Calls
  BY <1>1, NoCallTyped DEF Calls, Where
<1>4. /\ inflight' = [inflight EXCEPT ![i] = Nil]
      /\ fresh' = IF outcome = "quote" THEN [fresh EXCEPT ![i] = TTL] ELSE fresh
      /\ call' = [w \in Callers |-> IF w = c THEN ended
                    ELSE IF w \in Waiters(i) THEN [call[w] EXCEPT !.got = told] ELSE call[w]]
      /\ said' = [w \in Callers |-> IF w \in Waiters(i) THEN said[c] ELSE said[w]]
  BY DEF Publish, Released
<1>5. ASSUME NEW d \in Callers
      PROVE  /\ call'[d] \in Calls
             /\ call'[d].at # "idle" => call'[d].of \in Symbols
             /\ call'[d].at \in {"observe", "handle"} => call'[d].resp \in Response
  <2> HIDE DEF told, ended
  <2>1. CASE d = c
    <3>1. ended.at = "returned" /\ ended.of = i
      BY DEF ended, NoCall
    <3>2. QED
      BY <2>1, <3>1, <1>1, <1>3, <1>4
  <2>2. CASE d # c /\ d \in Waiters(i)
    <3>1. call'[d] = [call[d] EXCEPT !.got = told]
      BY <1>4, <2>2
    <3>2. call[d] \in Calls
      BY DEF CallsTyped
    <3>3. call'[d] \in Calls
      BY <3>1, <3>2, <1>2 DEF Calls
    <3>4. call'[d].at = call[d].at /\ call'[d].of = call[d].of /\ call'[d].resp = call[d].resp
      BY <3>1, <3>2 DEF Calls
    <3>5. QED
      BY <3>3, <3>4 DEF CallsTyped
  <2>3. CASE d # c /\ d \notin Waiters(i)
    BY <1>4, <2>3 DEF CallsTyped
  <2>4. QED
    BY <2>1, <2>2, <2>3
<1>6. TTL \in 0 .. TTL
  BY MarketDataAssumption
<1>7. fresh' \in [Symbols -> 0 .. TTL]
  <2>1. CASE outcome = "quote"
    BY <1>1, <1>4, <1>6, <2>1 DEF CallsTyped
  <2>2. CASE outcome # "quote"
    BY <1>4, <2>2 DEF CallsTyped
  <2>3. QED
    BY <2>1, <2>2
<1>8. said' \in [Callers -> SUBSET Providers]
  BY <1>4 DEF CallsTyped
<1>9. inflight' \in [Symbols -> Callers \cup {Nil}]
  BY <1>1, <1>4 DEF CallsTyped
<1>10. call' \in [Callers -> Calls]
  <2> HIDE DEF told, ended
  <2>1. QED
    BY <1>4, <1>5
<1>11. QED
  BY <1>5, <1>7, <1>8, <1>9, <1>10

LEMMA InitCallsTyped == MarketInit => CallsTyped
<1> SUFFICES ASSUME MarketInit PROVE CallsTyped
  OBVIOUS
<1>1. 0 \in 0 .. TTL
  BY MarketDataAssumption
<1>2. QED
  BY <1>1, NoCallTyped DEF MarketInit, CallsTyped

LEMMA AskingTyped ==
  ASSUME CallsTyped, NEW c \in Callers,
         \/ \E i \in Symbols : Quote(c, i)
         \/ Cancel(c) \/ Enter(c) \/ Wake(c) \/ Leave(c)
  PROVE  CallsTyped'
<1>1. call[c] \in Calls /\ (call[c].at # "idle" => call[c].of \in Symbols)
  BY DEF CallsTyped
<1>2. ASSUME NEW i \in Symbols, Quote(c, i) PROVE CallsTyped'
  <2>1. PICK r : r = [NoCall EXCEPT !.at = "enter", !.of = i]
    OBVIOUS
  <2>2. r \in Calls /\ r.at = "enter" /\ r.of = i
    BY <2>1, NoCallTyped DEF Calls, Where
  <2>3. call' = [call EXCEPT ![c] = r]
    BY <1>2, <2>1 DEF Quote
  <2>4. QED
    BY <1>2, <2>2, <2>3, OneCallTyped DEF Quote, CallsTyped
<1>3. CASE Cancel(c)
  <2>1. PICK r : r = [call[c] EXCEPT !.cancelled = TRUE]
    OBVIOUS
  <2>2. r \in Calls /\ r.at = call[c].at /\ r.of = call[c].of /\ r.resp = call[c].resp
    BY <1>1, <2>1 DEF Calls
  <2>3. call' = [call EXCEPT ![c] = r]
    BY <1>3, <2>1 DEF Cancel
  <2>4. QED
    BY <1>3, <2>2, <2>3, OneCallTyped DEF Cancel, CallsTyped
<1>4. ASSUME NEW got \in Outcome, Return(c, got), call[c].at # "idle",
             UNCHANGED <<lookupVars, limiterVars, said>>
      PROVE  CallsTyped'
  <2>1. PICK r : r = [call[c] EXCEPT !.at = "returned", !.got = got]
    OBVIOUS
  <2>2. r \in Calls /\ r.at = "returned" /\ r.of = call[c].of
    BY <1>1, <2>1 DEF Calls, Where
  <2>3. call' = [call EXCEPT ![c] = r]
    BY <1>4, <2>1 DEF Return
  <2>4. QED
    BY <1>1, <1>4, <2>2, <2>3, OneCallTyped DEF CallsTyped
<1>5. CASE Enter(c)
  <2>1. CASE Return(c, "quote") /\ UNCHANGED inflight
    BY <1>4, <1>5, <2>1 DEF Enter, Outcome
  <2>2. ASSUME NEW at \in {"wait", "acquire"}, Go(c, at) PROVE CallsTyped'
    <3>1. PICK r : r = [call[c] EXCEPT !.at = at]
      OBVIOUS
    <3>2. r \in Calls /\ r.at = at /\ r.of = call[c].of
      BY <1>1, <3>1 DEF Calls, Where, Leading
    <3>3. call' = [call EXCEPT ![c] = r]
      BY <2>2, <3>1 DEF Go
    <3>4. call[c].of \in Symbols
      BY <1>1, <1>5 DEF Enter
    <3>5. inflight' \in [Symbols -> Callers \cup {Nil}]
      BY <1>5, <3>4 DEF Enter, CallsTyped
    <3>6. QED
      BY <1>5, <3>2, <3>3, <3>4, <3>5, OneCallTyped DEF Enter, CallsTyped
  <2>3. QED
    BY <1>5, <2>1, <2>2 DEF Enter
<1>6. CASE Wake(c)
  <2>1. CASE Return(c, "cancelled")
    BY <1>4, <1>6, <2>1 DEF Wake, Outcome
  <2>2. CASE call[c].got \notin {Nil, "abandoned"} /\ Return(c, call[c].got)
    <3>1. call[c].got \in Outcome
      BY <1>1, <2>2 DEF Calls
    <3>2. QED
      BY <1>4, <1>6, <2>2, <3>1 DEF Wake
  <2>3. CASE call' = [call EXCEPT ![c].at = "enter", ![c].got = Nil]
    <3>1. PICK r : r = [call[c] EXCEPT !.at = "enter", !.got = Nil]
      OBVIOUS
    <3>2. r \in Calls /\ r.at = "enter" /\ r.of = call[c].of
      BY <1>1, <3>1 DEF Calls, Where
    <3>3. call' = [call EXCEPT ![c] = r]
      BY <2>3, <3>1
    <3>4. QED
      BY <1>1, <1>6, <3>2, <3>3, OneCallTyped DEF Wake, CallsTyped
  <2>4. QED
    BY <1>6, <2>1, <2>2, <2>3 DEF Wake
<1>7. CASE Leave(c)
  <2>1. call' = [call EXCEPT ![c] = NoCall]
    BY <1>7 DEF Leave
  <2>2. QED
    BY <1>7, <2>1, NoCallTyped, OneCallTyped DEF Leave, CallsTyped
<1>8. QED
  BY <1>2, <1>3, <1>5, <1>6, <1>7

\* Every step of a leader but the last: the record stays typed, and the caller
\* goes on leading the same lookup.
Working(c) ==
  \/ Acquire(c) \/ Sleep(c) \/ StartRequest(c) \/ Replies(c) \/ Observe(c) \/ Handle(c)
  \/ EndBackoff(c)
  \/ /\ Fallback(c) /\ ~call[c].cancelled /\ call[c].p < ChainLength
     /\ call' = [call EXCEPT ![c].at = "acquire", ![c].p = @ + 1, ![c].attempt = 1]
     /\ UNCHANGED <<lookupVars, said>>

LEMMA WorkTyped ==
  ASSUME CallsTyped, NEW c \in Callers, Working(c)
  PROVE  /\ CallsTyped'
         /\ call[c].at \in Leading /\ call'[c].at \in Leading
         /\ call'[c].of = call[c].of /\ call'[c].cancelled = call[c].cancelled
         /\ \A d \in Callers \ {c} : call'[d] = call[d]
         /\ UNCHANGED lookupVars
<1> DEFINE old == call[c]
<1>1. old \in Calls /\ (old.at # "idle" => old.of \in Symbols)
      /\ (old.at \in {"observe", "handle"} => old.resp \in Response)
  BY DEF CallsTyped
<1>2. ASSUME NEW r \in Calls, call' = [call EXCEPT ![c] = r], old.at \in Leading,
             r.at \in Leading, r.of = old.of, r.cancelled = old.cancelled,
             r.at \in {"observe", "handle"} => r.resp \in Response
      PROVE  /\ call' \in [Callers -> Calls]
             /\ \A d \in Callers : call'[d].at # "idle" => call'[d].of \in Symbols
             /\ \A d \in Callers : call'[d].at \in {"observe", "handle"} => call'[d].resp \in Response
             /\ call[c].at \in Leading /\ call'[c].at \in Leading
             /\ call'[c].of = call[c].of /\ call'[c].cancelled = call[c].cancelled
             /\ \A d \in Callers \ {c} : call'[d] = call[d]
  <2>1. old.of \in Symbols
    BY <1>1, <1>2 DEF Leading
  <2>2. call'[c] = r /\ \A d \in Callers \ {c} : call'[d] = call[d]
    BY <1>2 DEF CallsTyped
  <2>3. QED
    BY <1>2, <2>1, <2>2, OneCallTyped
<1>3. ASSUME NEW at \in Leading \ {"observe", "handle"}, old.at \in Leading, Go(c, at)
      PROVE  \E r \in Calls : /\ call' = [call EXCEPT ![c] = r]
                              /\ r.at = at /\ r.of = old.of /\ r.cancelled = old.cancelled
  <2>1. PICK r : r = [old EXCEPT !.at = at]
    OBVIOUS
  <2>2. r \in Calls /\ r.at = at /\ r.of = old.of /\ r.cancelled = old.cancelled
    BY <1>1, <2>1 DEF Calls, Where
  <2>3. QED
    BY <1>3, <2>1, <2>2 DEF Go
<1>4. ASSUME NEW at \in Leading \ {"observe", "handle"}, NEW nap \in Nat, old.at \in Leading,
             Again(c), Retry(c, at, nap)
      PROVE  \E r \in Calls : /\ call' = [call EXCEPT ![c] = r]
                              /\ r.at = at /\ r.of = old.of /\ r.cancelled = old.cancelled
  <2>1. PICK r : r = [old EXCEPT !.at = at, !.nap = nap, !.resp = Nil, !.attempt = @ + 1]
    OBVIOUS
  <2>2. old.attempt + 1 \in 1 .. MaxAttempts
    BY <1>1, <1>4, MarketDataAssumption DEF Again, Calls
  <2>3. r \in Calls /\ r.at = at /\ r.of = old.of /\ r.cancelled = old.cancelled
    BY <1>1, <2>1, <2>2 DEF Calls, Where
  <2>4. QED
    BY <1>4, <2>1, <2>3 DEF Retry
<1>5. ASSUME NEW unknown \in BOOLEAN, NEW limited \in BOOLEAN, old.at \in Leading,
             Fails(c, unknown, limited)
      PROVE  \E r \in Calls : /\ call' = [call EXCEPT ![c] = r]
                              /\ r.at = "failed" /\ r.of = old.of /\ r.cancelled = old.cancelled
  <2>1. PICK r : r = [old EXCEPT !.at = "failed", !.resp = Nil, !.unknown = @ /\ unknown,
                                 !.limited = @ \/ limited]
    OBVIOUS
  <2>2. (old.unknown /\ unknown) \in BOOLEAN /\ (old.limited \/ limited) \in BOOLEAN
    OBVIOUS
  <2>3. r \in Calls /\ r.at = "failed" /\ r.of = old.of /\ r.cancelled = old.cancelled
    BY <1>1, <2>1, <2>2 DEF Calls, Where, Leading
  <2>4. QED
    BY <1>5, <2>1, <2>3 DEF Fails
<1>6. old.at # "idle" => old.p \in Providers /\ Backoff * old.attempt \in Nat
  BY <1>1, BackoffIsNat DEF Calls
<1>7. CASE Acquire(c)
  <2>1. old.at \in Leading /\ old.p \in Providers
    BY <1>1, <1>7 DEF Acquire, Leading, Calls
  <2>2. next' \in [Providers -> Nat]
    BY <1>7, MarketDataAssumption DEF Acquire, CallsTyped
  <2>3. \E r \in Calls : /\ call' = [call EXCEPT ![c] = r]
                         /\ r.at \in {"slot", "sleep", "failed"}
                         /\ r.of = old.of /\ r.cancelled = old.cancelled
    <3>1. CASE Go(c, "slot")
      BY <1>3, <2>1, <3>1 DEF Leading
    <3>2. CASE call' = [call EXCEPT ![c].at = "sleep", ![c].nap = Ready(old.p)]
      <4>1. PICK r : r = [old EXCEPT !.at = "sleep", !.nap = Ready(old.p)]
        OBVIOUS
      <4>2. r \in Calls /\ r.at = "sleep" /\ r.of = old.of /\ r.cancelled = old.cancelled
        BY <1>1, <2>1, <4>1, ReadyIsNat DEF Calls, Where, Leading
      <4>3. QED
        BY <3>2, <4>1, <4>2
    <3>3. CASE call' = [call EXCEPT ![c].at = "failed", ![c].unknown = FALSE, ![c].limited = TRUE]
      <4>1. PICK r : r = [old EXCEPT !.at = "failed", !.unknown = FALSE, !.limited = TRUE]
        OBVIOUS
      <4>2. r \in Calls /\ r.at = "failed" /\ r.of = old.of /\ r.cancelled = old.cancelled
        BY <1>1, <4>1 DEF Calls, Where, Leading
      <4>3. QED
        BY <3>3, <4>1, <4>2
    <3>4. QED
      BY <1>7, <3>1, <3>2, <3>3 DEF Acquire
  <2>4. QED
    BY <1>2, <1>7, <2>1, <2>2, <2>3 DEF Acquire, CallsTyped, Leading
<1>8. CASE Sleep(c)
  <2>1. old.at \in Leading
    BY <1>8 DEF Sleep, Leading
  <2>2. \E r \in Calls : /\ call' = [call EXCEPT ![c] = r]
                         /\ r.at \in {"acquire", "failed"}
                         /\ r.of = old.of /\ r.cancelled = old.cancelled
    <3>1. CASE Go(c, "acquire")
      BY <1>3, <2>1, <3>1 DEF Leading
    <3>2. CASE call' = [call EXCEPT ![c].at = "failed", ![c].nap = 0]
      <4>1. PICK r : r = [old EXCEPT !.at = "failed", !.nap = 0]
        OBVIOUS
      <4>2. r \in Calls /\ r.at = "failed" /\ r.of = old.of /\ r.cancelled = old.cancelled
        BY <1>1, <4>1 DEF Calls, Where, Leading
      <4>3. QED
        BY <3>2, <4>1, <4>2
    <3>3. QED
      BY <1>8, <3>1, <3>2 DEF Sleep
  <2>3. QED
    BY <1>2, <1>8, <2>1, <2>2 DEF Sleep, CallsTyped, Leading
<1>9. CASE StartRequest(c)
  <2>1. old.at \in Leading /\ old.p \in Providers
    BY <1>1, <1>9 DEF StartRequest, Leading, Calls
  <2>2. asking' \in [Providers -> Callers \cup {Nil}]
    BY <1>9, <2>1 DEF StartRequest, CallsTyped
  <2>3. \E r \in Calls : /\ call' = [call EXCEPT ![c] = r]
                         /\ r.at \in {"request", "failed"}
                         /\ r.of = old.of /\ r.cancelled = old.cancelled
    BY <1>3, <1>9, <2>1 DEF StartRequest, Leading
  <2>4. QED
    BY <1>2, <1>9, <2>1, <2>2, <2>3 DEF StartRequest, CallsTyped, Leading
<1>10. CASE NoAnswer(c)
  <2>1. old.at \in Leading /\ old.p \in Providers
    BY <1>1, <1>10 DEF NoAnswer, Leading, Calls
  <2>2. asking' \in [Providers -> Callers \cup {Nil}]
    BY <1>10, <2>1 DEF NoAnswer, CallsTyped
  <2>3. \E r \in Calls : /\ call' = [call EXCEPT ![c] = r]
                         /\ r.at \in {"backoff", "failed"}
                         /\ r.of = old.of /\ r.cancelled = old.cancelled
    <3>1. CASE Go(c, "failed")
      BY <1>3, <2>1, <3>1 DEF Leading
    <3>2. CASE Again(c) /\ Retry(c, "backoff", Backoff * call[c].attempt)
      BY <1>4, <1>6, <1>10, <2>1, <3>2 DEF Leading, NoAnswer
    <3>3. CASE Fails(c, FALSE, FALSE)
      BY <1>5, <2>1, <3>3
    <3>4. QED
      BY <1>10, <3>1, <3>2, <3>3 DEF NoAnswer
  <2>4. QED
    BY <1>2, <1>10, <2>1, <2>2, <2>3 DEF NoAnswer, CallsTyped, Leading
<1>11. ASSUME NEW q \in Response, Answer(c, q)
       PROVE  /\ CallsTyped'
              /\ call[c].at \in Leading /\ call'[c].at \in Leading
              /\ call'[c].of = call[c].of /\ call'[c].cancelled = call[c].cancelled
              /\ \A d \in Callers \ {c} : call'[d] = call[d]
              /\ UNCHANGED lookupVars
  <2>1. old.at \in Leading /\ old.p \in Providers
    BY <1>1, <1>11 DEF Answer, Leading, Calls
  <2>2. asking' \in [Providers -> Callers \cup {Nil}]
    BY <1>11, <2>1 DEF Answer, CallsTyped
  <2>3. PICK r : r = [old EXCEPT !.at = "observe", !.resp = q]
    OBVIOUS
  <2>4. r \in Calls /\ r.at = "observe" /\ r.of = old.of /\ r.cancelled = old.cancelled /\ r.resp = q
    BY <1>1, <2>3 DEF Calls, Where, Leading
  <2>5. call' = [call EXCEPT ![c] = r]
    BY <1>11, <2>3 DEF Answer
  <2>6. QED
    BY <1>2, <1>11, <2>1, <2>2, <2>4, <2>5 DEF Answer, CallsTyped, Leading
<1>12. CASE Observe(c)
  <2>1. old.at \in Leading /\ old.p \in Providers /\ old.resp \in Response
    BY <1>1, <1>12 DEF Observe, Leading, Calls
  <2>2. paused' \in [Providers -> Nat]
    <3>1. Paused(old.p, old.resp.after) \in [Providers -> Nat]
      BY <2>1, AfterIsNat, PausedIsNat
    <3>2. Paused(old.p, Penalty) \in [Providers -> Nat]
      BY <2>1, PausedIsNat, MarketDataAssumption
    <3>3. QED
      BY <1>12, <3>1, <3>2 DEF Observe, CallsTyped
  <2>3. PICK r : r = [old EXCEPT !.at = "handle"]
    OBVIOUS
  <2>4. r \in Calls /\ r.at = "handle" /\ r.of = old.of /\ r.cancelled = old.cancelled
        /\ r.resp = old.resp
    BY <1>1, <2>3 DEF Calls, Where, Leading
  <2>5. call' = [call EXCEPT ![c] = r]
    BY <1>12, <2>3 DEF Observe, Go
  <2>6. QED
    BY <1>2, <1>12, <2>1, <2>2, <2>4, <2>5 DEF Observe, CallsTyped, Leading
<1>13. CASE Handle(c)
  <2>1. old.at \in Leading /\ old.p \in Providers /\ old.resp \in Response
    BY <1>1, <1>13 DEF Handle, Leading, Calls
  <2>2. paused' \in [Providers -> Nat]
    <3>1. PICK d : d = (IF old.resp.after = 0 THEN Penalty ELSE old.resp.after)
      OBVIOUS
    <3>2. Paused(old.p, d) \in [Providers -> Nat]
      BY <2>1, <3>1, AfterIsNat, PausedIsNat, MarketDataAssumption
    <3>3. QED
      BY <1>13, <3>1, <3>2 DEF Handle, CallsTyped
  <2>3. said' \in [Callers -> SUBSET Providers]
    <3>1. CASE UNCHANGED said
      BY <3>1 DEF CallsTyped
    <3>2. CASE said' = [said EXCEPT ![c] = @ \cup {old.p}]
      <4>1. said[c] \cup {old.p} \in SUBSET Providers
        BY <2>1 DEF CallsTyped
      <4>2. QED
        BY <3>2, <4>1 DEF CallsTyped
    <3>3. QED
      BY <1>13, <3>1, <3>2 DEF Handle
  <2>4. \E r \in Calls : /\ call' = [call EXCEPT ![c] = r]
                         /\ r.at \in {"backoff", "acquire", "failed"}
                         /\ r.of = old.of /\ r.cancelled = old.cancelled
    <3>1. CASE Again(c) /\ Retry(c, "backoff", Backoff * call[c].attempt)
      BY <1>4, <1>6, <1>13, <2>1, <3>1 DEF Leading, Handle
    <3>2. CASE Again(c) /\ Retry(c, "acquire", 0)
      BY <1>4, <2>1, <3>2 DEF Leading
    <3>3. CASE Fails(c, FALSE, TRUE)
      BY <1>5, <2>1, <3>3
    <3>4. CASE Fails(c, FALSE, FALSE)
      BY <1>5, <2>1, <3>4
    <3>5. CASE Fails(c, TRUE, FALSE)
      BY <1>5, <2>1, <3>5
    <3>6. QED
      BY <1>13, <3>1, <3>2, <3>3, <3>4, <3>5 DEF Handle
  <2>5. QED
    BY <1>2, <1>13, <2>1, <2>2, <2>3, <2>4 DEF Handle, CallsTyped, Leading
<1>14. CASE EndBackoff(c)
  <2>1. old.at \in Leading
    BY <1>14 DEF EndBackoff, Leading
  <2>2. \E r \in Calls : /\ call' = [call EXCEPT ![c] = r] /\ r.at = "acquire"
                         /\ r.of = old.of /\ r.cancelled = old.cancelled
    BY <1>3, <1>14, <2>1 DEF EndBackoff, Leading
  <2>3. QED
    BY <1>2, <1>14, <2>1, <2>2 DEF EndBackoff, CallsTyped, Leading
<1>15. ASSUME Fallback(c), ~call[c].cancelled, call[c].p < ChainLength,
              call' = [call EXCEPT ![c].at = "acquire", ![c].p = @ + 1, ![c].attempt = 1],
              UNCHANGED <<lookupVars, said>>
       PROVE  /\ CallsTyped'
              /\ call[c].at \in Leading /\ call'[c].at \in Leading
              /\ call'[c].of = call[c].of /\ call'[c].cancelled = call[c].cancelled
              /\ \A d \in Callers \ {c} : call'[d] = call[d]
              /\ UNCHANGED lookupVars
  <2>1. old.at \in Leading
    BY <1>15 DEF Fallback, Leading
  <2>2. PICK r : r = [old EXCEPT !.at = "acquire", !.p = @ + 1, !.attempt = 1]
    OBVIOUS
  <2>3. old.p + 1 \in Providers /\ 1 \in 1 .. MaxAttempts
    BY <1>1, <1>15, MarketDataAssumption DEF Calls, Providers
  <2>4. r \in Calls /\ r.at = "acquire" /\ r.of = old.of /\ r.cancelled = old.cancelled
    BY <1>1, <2>2, <2>3 DEF Calls, Where, Leading
  <2>5. call' = [call EXCEPT ![c] = r]
    BY <1>15, <2>2
  <2>6. QED
    BY <1>2, <1>15, <2>1, <2>4, <2>5 DEF Fallback, CallsTyped, Leading
<1>16. QED
  BY <1>7, <1>8, <1>9, <1>10, <1>11, <1>12, <1>13, <1>14, <1>15 DEF Working, Replies

\* The end of a lookup, with what its outcome may claim.
Ending(c, outcome) ==
  /\ call[c].at \in Leading
  /\ Publish(c, outcome)
  /\ outcome = "cancelled" => call[c].cancelled
  /\ outcome = "not found" => said[c] = Providers
  /\ UNCHANGED <<limiterVars, bounds>>

LEMMA EndTyped ==
  ASSUME CallsTyped, NEW c \in Callers, NEW outcome \in Outcome, Ending(c, outcome)
  PROVE  CallsTyped'
BY PublishTyped DEF Ending, CallsTyped

LEMMA GoodEnds ==
  ASSUME NEW c \in Callers, Good(c) \/ Panic(c)
  PROVE  \E outcome \in Outcome : Ending(c, outcome)
BY DEF Good, Panic, Ending, Leading, Outcome

LEMMA FallbackGoesOnOrEnds ==
  ASSUME CallsTyped, OutcomeInv, NEW c \in Callers, Fallback(c)
  PROVE  Working(c) \/ \E outcome \in Outcome : Ending(c, outcome)
<1>1. call[c].at = "failed" /\ call[c].at \in Leading /\ call[c].p \in Providers
  BY DEF Fallback, Leading, CallsTyped, Calls
<1>2. CASE call[c].cancelled /\ Publish(c, "cancelled")
  BY <1>1, <1>2 DEF Fallback, Ending, Outcome
<1>3. CASE /\ ~call[c].cancelled /\ call[c].p < ChainLength
           /\ call' = [call EXCEPT ![c].at = "acquire", ![c].p = @ + 1, ![c].attempt = 1]
           /\ UNCHANGED <<lookupVars, said>>
  BY <1>3 DEF Working
<1>4. CASE ~call[c].cancelled /\ call[c].p = ChainLength /\ Publish(c, ChainFailure(c))
  <2>1. CASE call[c].unknown
    <3>1. 1 .. (ChainLength - 1) \subseteq said[c] /\ ChainLength \in said[c]
      BY <1>1, <1>4, <2>1 DEF OutcomeInv, Heard
    <3>2. Providers \subseteq said[c]
      BY <3>1, MarketDataAssumption DEF Providers
    <3>3. said[c] = Providers
      BY <3>2 DEF CallsTyped
    <3>4. ChainFailure(c) = "not found"
      BY <2>1 DEF ChainFailure
    <3>5. QED
      BY <1>1, <1>4, <3>3, <3>4 DEF Ending, Fallback, Outcome
  <2>2. CASE ~call[c].unknown
    <3>1. ChainFailure(c) \in {"limited", "error"}
      BY <2>2 DEF ChainFailure
    <3>2. QED
      BY <1>1, <1>4, <3>1 DEF Ending, Fallback, Outcome
  <2>3. QED
    BY <2>1, <2>2
<1>5. QED
  BY <1>2, <1>3, <1>4 DEF Fallback

\* Every step is time passing, a caller that does not lead, a leader at work,
\* or the end of a lookup.
Asking(c) ==
  \/ \E i \in Symbols : Quote(c, i)
  \/ Cancel(c) \/ Enter(c) \/ Wake(c) \/ Leave(c)

LEMMA Steps ==
  ASSUME CallsTyped, OutcomeInv, [MarketNext]_marketVars
  PROVE  \/ Tick \/ UNCHANGED marketVars
         \/ \E c \in Callers : \/ Asking(c) \/ Working(c)
                               \/ \E outcome \in Outcome : Ending(c, outcome)
<1>1. ASSUME NEW c \in Callers, Step(c) \/ Replies(c) \/ Panic(c) \/ Cancel(c)
                                \/ \E i \in Symbols : Quote(c, i)
      PROVE  Asking(c) \/ Working(c) \/ \E outcome \in Outcome : Ending(c, outcome)
  <2>1. CASE Good(c) \/ Panic(c)
    BY <2>1, GoodEnds
  <2>2. CASE Fallback(c)
    BY <2>2, FallbackGoesOnOrEnds
  <2>3. CASE Replies(c) \/ Acquire(c) \/ Sleep(c) \/ StartRequest(c) \/ Observe(c) \/ Handle(c)
             \/ EndBackoff(c)
    BY <2>3 DEF Working
  <2>4. CASE Cancel(c) \/ Enter(c) \/ Wake(c) \/ Leave(c) \/ \E i \in Symbols : Quote(c, i)
    BY <2>4 DEF Asking
  <2>5. QED
    BY <1>1, <2>1, <2>2, <2>3, <2>4 DEF Step
<1>2. QED
  BY <1>1 DEF MarketNext

\* Time moves countdowns only.
LEMMA TickKeeps ==
  ASSUME CallsTyped, Tick
  PROVE  /\ CallsTyped'
         /\ \A c \in Callers : /\ call'[c].at = call[c].at /\ call'[c].of = call[c].of
                               /\ call'[c].p = call[c].p /\ call'[c].got = call[c].got
                               /\ call'[c].unknown = call[c].unknown
                               /\ call'[c].cancelled = call[c].cancelled
         /\ UNCHANGED <<inflight, asking, said>>
<1>1. ASSUME NEW c \in Callers
      PROVE  /\ call'[c] \in Calls
             /\ call'[c].at = call[c].at /\ call'[c].of = call[c].of
             /\ call'[c].p = call[c].p /\ call'[c].got = call[c].got
             /\ call'[c].unknown = call[c].unknown /\ call'[c].cancelled = call[c].cancelled
             /\ call'[c].resp = call[c].resp
  <2>1. call'[c] = [call[c] EXCEPT !.nap = Less(@)]
    BY DEF Tick
  <2>2. call[c] \in Calls
    BY DEF CallsTyped
  <2>3. Less(call[c].nap) \in Nat
    BY <2>2, LessIsNat DEF Calls
  <2>4. QED
    BY <2>1, <2>2, <2>3 DEF Calls
<1>2. call' \in [Callers -> Calls]
  BY <1>1 DEF Tick
<1>3. fresh' \in [Symbols -> 0 .. TTL]
  <2>1. \A i \in Symbols : Less(fresh[i]) \in 0 .. TTL
    BY LessIsNat, MarketDataAssumption DEF CallsTyped
  <2>2. QED
    BY <2>1 DEF Tick
<1>4. next' \in [Providers -> Nat] /\ paused' \in [Providers -> Nat]
  <2>1. \A p \in Providers : Less(next[p]) \in Nat /\ Less(paused[p]) \in Nat
    BY LessIsNat DEF CallsTyped
  <2>2. QED
    BY <2>1 DEF Tick
<1>5. UNCHANGED <<inflight, asking, said>>
  BY DEF Tick
<1>6. QED
  BY <1>1, <1>2, <1>3, <1>4, <1>5 DEF CallsTyped

-----------------------------------------------------------------------------
(* The table of lookups *)

LEMMA AskLookup ==
  ASSUME CallsTyped, LookupInv, NEW c \in Callers, Asking(c)
  PROVE  LookupInv'
<1>1. call \in [Callers -> Calls] /\ call[c] \in Calls
  BY DEF CallsTyped
<1>2. ASSUME NEW i \in Symbols, Quote(c, i) PROVE LookupInv'
  <2>1. call'[c].at = "enter" /\ call[c].at = "idle"
    BY <1>1, <1>2, NoCallTyped DEF Quote, Calls
  <2>2. \A d \in Callers \ {c} : call'[d] = call[d]
    BY <1>1, <1>2 DEF Quote
  <2>3. QED
    BY <1>2, <2>1, <2>2, MarketDataAssumption DEF LookupInv, Quote, Leading, CallsTyped
<1>3. CASE Cancel(c)
  <2>1. /\ call'[c].at = call[c].at /\ call'[c].of = call[c].of /\ call'[c].got = call[c].got
        /\ \A d \in Callers \ {c} : call'[d] = call[d]
    BY <1>1, <1>3 DEF Cancel, Calls
  <2>2. QED
    BY <1>3, <2>1, MarketDataAssumption DEF LookupInv, Cancel, CallsTyped
<1>4. CASE Enter(c)
  <2>1. call[c].of \in Symbols /\ call[c].at = "enter"
    BY <1>4 DEF Enter, CallsTyped
  <2>2. CASE Return(c, "quote") /\ UNCHANGED inflight
    <3>1. call'[c].at = "returned" /\ \A d \in Callers \ {c} : call'[d] = call[d]
      BY <1>1, <2>2 DEF Return, Calls
    <3>2. QED
      BY <2>1, <2>2, <3>1, MarketDataAssumption DEF LookupInv, Leading, CallsTyped
  <2>3. CASE inflight[call[c].of] # Nil /\ Go(c, "wait") /\ UNCHANGED inflight
    <3>1. /\ call'[c].at = "wait" /\ call'[c].of = call[c].of
          /\ \A d \in Callers \ {c} : call'[d] = call[d]
      BY <1>1, <2>3 DEF Go, Calls
    <3>2. QED
      BY <2>1, <2>3, <3>1, MarketDataAssumption DEF LookupInv, Leading, CallsTyped
  <2>4. CASE /\ inflight[call[c].of] = Nil /\ Go(c, "acquire")
             /\ inflight' = [inflight EXCEPT ![call[c].of] = c]
    <3>1. /\ call'[c].at = "acquire" /\ call'[c].of = call[c].of
          /\ \A d \in Callers \ {c} : call'[d] = call[d]
      BY <1>1, <2>4 DEF Go, Calls
    <3>2. \A d \in Callers \ {c} : call[d].at \in Leading => call[d].of # call[c].of
      BY <2>4, MarketDataAssumption DEF LookupInv
    <3>3. QED
      BY <2>1, <2>4, <3>1, <3>2, MarketDataAssumption DEF LookupInv, Leading, CallsTyped
  <2>5. QED
    BY <1>4, <2>2, <2>3, <2>4 DEF Enter
<1>5. CASE Wake(c) \/ Leave(c)
  <2>1. /\ call'[c].at \in {"returned", "enter", "idle"} /\ call[c].at \notin Leading
        /\ \A d \in Callers \ {c} : call'[d] = call[d]
        /\ UNCHANGED inflight
    <3>1. CASE Wake(c)
      BY <1>1, <3>1 DEF Wake, Return, Leading, Calls
    <3>2. CASE Leave(c)
      BY <1>1, <3>2, NoCallTyped DEF Leave, Leading
    <3>3. QED
      BY <1>5, <3>1, <3>2
  <2>2. QED
    BY <2>1, MarketDataAssumption DEF LookupInv, Leading, CallsTyped
<1>6. QED
  BY <1>2, <1>3, <1>4, <1>5 DEF Asking

LEMMA WorkLookup ==
  ASSUME CallsTyped, LookupInv, NEW c \in Callers, Working(c)
  PROVE  LookupInv'
<1>1. /\ call[c].at \in Leading /\ call'[c].at \in Leading /\ call'[c].of = call[c].of
      /\ \A d \in Callers \ {c} : call'[d] = call[d]
      /\ inflight' = inflight
  BY WorkTyped
<1>2. QED
  BY <1>1, MarketDataAssumption DEF LookupInv, Leading, CallsTyped

LEMMA EndLookup ==
  ASSUME CallsTyped, LookupInv, NEW c \in Callers, NEW outcome \in Outcome, Ending(c, outcome)
  PROVE  LookupInv'
<1> DEFINE i == call[c].of
           told == IF Abandoned(c, outcome) THEN "abandoned" ELSE outcome
<1>1. i \in Symbols /\ inflight[i] = c
  BY DEF CallsTyped, LookupInv, Ending, Leading
<1>2. inflight' = [inflight EXCEPT ![i] = Nil]
  BY DEF Ending, Publish, Released
<1>3. call'[c].at = "returned"
  BY NoCallTyped DEF Ending, Publish, Calls
<1>4. ASSUME NEW d \in Callers, d # c
      PROVE  /\ call'[d].at = call[d].at /\ call'[d].of = call[d].of
             /\ call'[d].got = Nil => d \notin Waiters(i) /\ call[d].got = Nil
  <2>1. call'[d] = IF d \in Waiters(i) THEN [call[d] EXCEPT !.got = told] ELSE call[d]
    BY <1>4 DEF Ending, Publish
  <2>2. call[d] \in Calls
    BY DEF CallsTyped
  <2>3. told # Nil
    BY MarketDataAssumption
  <2>4. CASE d \in Waiters(i)
    <3> HIDE DEF told
    <3>1. QED
      BY <2>1, <2>2, <2>3, <2>4 DEF Calls
  <2>5. CASE d \notin Waiters(i)
    BY <2>1, <2>5
  <2>6. QED
    BY <2>4, <2>5
<1>5. ASSUME NEW d \in Callers, d # c, call'[d].at \in Leading
      PROVE  inflight'[call'[d].of] = d
  <2>1. inflight[call[d].of] = d
    BY <1>4, <1>5 DEF LookupInv
  <2>2. call[d].of # i
    BY <1>1, <1>5, <2>1
  <2>3. QED
    BY <1>1, <1>2, <1>4, <1>5, <2>1, <2>2 DEF CallsTyped
<1>6. ASSUME NEW j \in Symbols, inflight'[j] # Nil
      PROVE  call'[inflight'[j]].at \in Leading /\ call'[inflight'[j]].of = j
  <2>1. j # i /\ inflight'[j] = inflight[j]
    BY <1>1, <1>2, <1>6 DEF CallsTyped
  <2>2. inflight[j] \in Callers /\ call[inflight[j]].at \in Leading /\ call[inflight[j]].of = j
    BY <1>6, <2>1 DEF LookupInv, CallsTyped
  <2>3. inflight[j] # c
    BY <2>1, <2>2
  <2>4. QED
    BY <1>4, <2>1, <2>2, <2>3
<1>7. ASSUME NEW d \in Callers, call'[d].at = "wait", call'[d].got = Nil
      PROVE  inflight'[call'[d].of] # Nil
  <2>1. d # c
    BY <1>3, <1>7
  <2>2. call[d].at = "wait" /\ call[d].got = Nil /\ d \notin Waiters(i) /\ call'[d].of = call[d].of
    BY <1>4, <1>7, <2>1
  <2>3. call[d].of # i /\ call[d].of \in Symbols
    BY <2>2 DEF Waiters, CallsTyped
  <2>4. QED
    BY <1>2, <2>2, <2>3 DEF LookupInv, CallsTyped
<1>8. \A d \in Callers : call'[d].at \in Leading => inflight'[call'[d].of] = d
  BY <1>3, <1>5 DEF Leading
<1>9. QED
  BY <1>6, <1>7, <1>8 DEF LookupInv

-----------------------------------------------------------------------------
(* What a caller is told *)

LEMMA AskOutcome ==
  ASSUME CallsTyped, OutcomeInv, NEW c \in Callers, Asking(c)
  PROVE  OutcomeInv'
<1>1. call \in [Callers -> Calls] /\ call[c] \in Calls
  BY DEF CallsTyped
<1>2. ASSUME \A d \in Callers \ {c} : call'[d] = call[d] /\ said'[d] = said[d],
             call'[c].at \in Leading => Heard(c)',
             call'[c].at \in {"enter", "wait"} => call'[c].p = 1,
             call'[c].at = "enter" => call'[c].got = Nil,
             call'[c].at = "wait" /\ call'[c].got # Nil =>
               /\ call'[c].got # "cancelled"
               /\ call'[c].got = "not found" => said'[c] = Providers,
             call'[c].at = "returned" =>
               /\ call'[c].got = "cancelled" => call'[c].cancelled
               /\ call'[c].got = "not found" => said'[c] = Providers
      PROVE  OutcomeInv'
  BY <1>2 DEF OutcomeInv, Heard
<1>3. ASSUME NEW i \in Symbols, Quote(c, i) PROVE OutcomeInv'
  <2>1. call'[c].at = "enter" /\ call'[c].got = Nil /\ call'[c].p = 1
    BY <1>1, <1>3, NoCallTyped DEF Quote, Calls
  <2>2. \A d \in Callers \ {c} : call'[d] = call[d] /\ said'[d] = said[d]
    BY <1>1, <1>3 DEF Quote, CallsTyped
  <2>3. QED
    BY <1>2, <2>1, <2>2 DEF Leading
<1>4. CASE Cancel(c)
  <2>1. /\ call'[c].at = call[c].at /\ call'[c].got = call[c].got
        /\ call'[c].p = call[c].p /\ call'[c].unknown = call[c].unknown
        /\ call'[c].cancelled /\ said' = said
        /\ \A d \in Callers \ {c} : call'[d] = call[d]
    BY <1>1, <1>4 DEF Cancel, Calls
  <2>2. QED
    BY <1>2, <2>1 DEF OutcomeInv, Heard
<1>5. CASE Enter(c)
  <2>1. said' = said /\ \A d \in Callers \ {c} : call'[d] = call[d]
    BY <1>1, <1>5 DEF Enter, Return, Go
  <2>2. call[c].at = "enter" /\ call[c].got = Nil /\ call[c].p = 1
    BY <1>5 DEF Enter, OutcomeInv
  <2>3. CASE Return(c, "quote")
    <3>1. call'[c].at = "returned" /\ call'[c].got = "quote"
      BY <1>1, <2>3 DEF Return, Calls
    <3>2. QED
      BY <1>2, <2>1, <3>1 DEF Leading
  <2>4. ASSUME NEW at \in {"wait", "acquire"}, Go(c, at) PROVE OutcomeInv'
    <3>1. call'[c].at = at /\ call'[c].got = Nil /\ call'[c].p = 1
      BY <1>1, <2>2, <2>4 DEF Go, Calls
    <3>2. 1 .. (call'[c].p - 1) = {}
      BY <3>1
    <3>3. Heard(c)'
      BY <2>4, <3>1, <3>2 DEF Heard
    <3>4. QED
      BY <1>2, <2>1, <2>4, <3>1, <3>3 DEF Leading
  <2>5. QED
    BY <1>5, <2>3, <2>4 DEF Enter
<1>6. CASE Wake(c)
  <2>1. said' = said /\ \A d \in Callers \ {c} : call'[d] = call[d]
    BY <1>1, <1>6 DEF Wake, Return
  <2>2. CASE call[c].cancelled /\ Return(c, "cancelled")
    <3>1. call'[c].at = "returned" /\ call'[c].got = "cancelled" /\ call'[c].cancelled
      BY <1>1, <2>2 DEF Return, Calls
    <3>2. QED
      BY <1>2, <2>1, <3>1 DEF Leading
  <2>3. CASE call' = [call EXCEPT ![c].at = "enter", ![c].got = Nil]
    <3>1. call'[c].at = "enter" /\ call'[c].got = Nil /\ call'[c].p = call[c].p
      BY <1>1, <2>3 DEF Calls
    <3>2. call[c].p = 1
      BY <1>6 DEF Wake, OutcomeInv
    <3>3. QED
      BY <1>2, <2>1, <3>1, <3>2 DEF Leading
  <2>4. CASE call[c].got \notin {Nil, "abandoned"} /\ Return(c, call[c].got)
    <3>1. call'[c].at = "returned" /\ call'[c].got = call[c].got
      BY <1>1, <2>4 DEF Return, Calls
    <3>2. call[c].at = "wait"
      BY <1>6 DEF Wake
    <3>3. QED
      BY <1>2, <2>1, <2>4, <3>1, <3>2 DEF Leading, OutcomeInv
  <2>5. QED
    BY <1>6, <2>2, <2>3, <2>4 DEF Wake
<1>7. CASE Leave(c)
  <2>1. /\ call'[c] = NoCall
        /\ \A d \in Callers \ {c} : call'[d] = call[d] /\ said'[d] = said[d]
    BY <1>1, <1>7 DEF Leave, CallsTyped
  <2>2. QED
    BY <1>2, <2>1, NoCallTyped DEF Leading
<1>8. QED
  BY <1>3, <1>4, <1>5, <1>6, <1>7 DEF Asking

\* A leader at work records who said "not found", and forgets that nobody else
\* knows the instrument as soon as one provider fails in another way.
LEMMA WorkOutcome ==
  ASSUME CallsTyped, OutcomeInv, NEW c \in Callers, Working(c)
  PROVE  OutcomeInv'
<1>1. /\ call \in [Callers -> Calls] /\ call[c] \in Calls
      /\ call[c].at \in Leading /\ call'[c].at \in Leading
      /\ call'[c].cancelled = call[c].cancelled
      /\ \A d \in Callers \ {c} : call'[d] = call[d]
  BY WorkTyped DEF CallsTyped
<1>2. Heard(c) /\ said \in [Callers -> SUBSET Providers]
  BY <1>1 DEF OutcomeInv, CallsTyped
<1>3. ASSUME \A d \in Callers \ {c} : said'[d] = said[d], Heard(c)'
      PROVE  OutcomeInv'
  BY <1>1, <1>3 DEF OutcomeInv, Heard, Leading
<1>4. ASSUME said' = said, call'[c].p = call[c].p,
             ~call'[c].unknown \/ (/\ call'[c].unknown = call[c].unknown
                                   /\ call'[c].at # "failed" \/ call[c].cancelled)
      PROVE  OutcomeInv'
  <2>1. Heard(c)'
    BY <1>1, <1>2, <1>4 DEF Heard
  <2>2. QED
    BY <1>3, <1>4, <2>1
<1>5. ASSUME NEW at \in Leading, Go(c, at), said' = said, at # "failed" \/ call[c].cancelled
      PROVE  OutcomeInv'
  <2>1. call'[c].at = at /\ call'[c].p = call[c].p /\ call'[c].unknown = call[c].unknown
    BY <1>1, <1>5 DEF Go, Calls
  <2>2. QED
    BY <1>4, <1>5, <2>1
<1>6. ASSUME NEW at \in Leading \ {"failed"}, NEW nap, Retry(c, at, nap), said' = said
      PROVE  OutcomeInv'
  <2>1. call'[c].at = at /\ call'[c].p = call[c].p /\ call'[c].unknown = call[c].unknown
    BY <1>1, <1>6 DEF Retry, Calls
  <2>2. QED
    BY <1>4, <1>6, <2>1
<1>7. ASSUME NEW limited \in BOOLEAN, Fails(c, FALSE, limited), said' = said
      PROVE  OutcomeInv'
  <2>1. call'[c].p = call[c].p /\ ~call'[c].unknown
    BY <1>1, <1>7 DEF Fails, Calls
  <2>2. QED
    BY <1>4, <1>7, <2>1
<1>8. CASE Acquire(c)
  <2>1. CASE Go(c, "slot")
    BY <1>5, <1>8, <2>1 DEF Acquire, Leading
  <2>2. CASE call' = [call EXCEPT ![c].at = "sleep", ![c].nap = Ready(call[c].p)]
    <3>1. call'[c].at = "sleep" /\ call'[c].p = call[c].p /\ call'[c].unknown = call[c].unknown
      BY <1>1, <2>2 DEF Calls
    <3>2. QED
      BY <1>4, <1>8, <3>1 DEF Acquire
  <2>3. CASE call' = [call EXCEPT ![c].at = "failed", ![c].unknown = FALSE, ![c].limited = TRUE]
    <3>1. call'[c].p = call[c].p /\ ~call'[c].unknown
      BY <1>1, <2>3 DEF Calls
    <3>2. QED
      BY <1>4, <1>8, <3>1 DEF Acquire
  <2>4. QED
    BY <1>8, <2>1, <2>2, <2>3 DEF Acquire
<1>9. CASE Sleep(c)
  <2>1. CASE Go(c, "acquire")
    BY <1>5, <1>9, <2>1 DEF Sleep, Leading
  <2>2. CASE call[c].cancelled /\ call' = [call EXCEPT ![c].at = "failed", ![c].nap = 0]
    <3>1. call'[c].p = call[c].p /\ call'[c].unknown = call[c].unknown
      BY <1>1, <2>2 DEF Calls
    <3>2. QED
      BY <1>4, <1>9, <2>2, <3>1 DEF Sleep
  <2>3. QED
    BY <1>9, <2>1, <2>2 DEF Sleep
<1>10. CASE StartRequest(c)
  BY <1>5, <1>10 DEF StartRequest, Leading
<1>11. CASE NoAnswer(c)
  BY <1>5, <1>6, <1>7, <1>11 DEF NoAnswer, Leading
<1>12. ASSUME NEW q \in Response, Answer(c, q) PROVE OutcomeInv'
  <2>1. call'[c].at = "observe" /\ call'[c].p = call[c].p /\ call'[c].unknown = call[c].unknown
    BY <1>1, <1>12 DEF Answer, Calls
  <2>2. QED
    BY <1>4, <1>12, <2>1 DEF Answer
<1>13. CASE Observe(c)
  BY <1>5, <1>13 DEF Observe, Leading
<1>14. CASE Handle(c)
  <2>1. CASE /\ Fails(c, TRUE, FALSE)
             /\ said' = [said EXCEPT ![c] = @ \cup {call[c].p}]
    <3>1. call'[c].p = call[c].p /\ (call'[c].unknown => call[c].unknown)
      BY <1>1, <2>1 DEF Fails, Calls
    <3>2. said'[c] = said[c] \cup {call[c].p} /\ \A d \in Callers \ {c} : said'[d] = said[d]
      BY <1>2, <2>1
    <3>3. Heard(c)'
      BY <1>2, <3>1, <3>2 DEF Heard
    <3>4. QED
      BY <1>3, <3>2, <3>3
  <2>2. ASSUME NEW limited \in BOOLEAN, Fails(c, FALSE, limited), said' = said
        PROVE  OutcomeInv'
    BY <1>7, <2>2
  <2>3. ASSUME NEW at \in {"backoff", "acquire"}, NEW nap, Retry(c, at, nap), said' = said
        PROVE  OutcomeInv'
    BY <1>6, <2>3 DEF Leading
  <2>4. QED
    BY <1>14, <2>1, <2>2, <2>3 DEF Handle
<1>15. CASE EndBackoff(c)
  BY <1>5, <1>15 DEF EndBackoff, Leading
<1>16. ASSUME Fallback(c), ~call[c].cancelled, call[c].p < ChainLength,
              call' = [call EXCEPT ![c].at = "acquire", ![c].p = @ + 1, ![c].attempt = 1],
              said' = said
       PROVE  OutcomeInv'
  <2>1. /\ call'[c].at = "acquire" /\ call'[c].p = call[c].p + 1
        /\ call'[c].unknown = call[c].unknown
    BY <1>1, <1>16 DEF Calls
  <2>2. call[c].at = "failed" /\ call[c].p \in Nat
    BY <1>1, <1>16, MarketDataAssumption DEF Fallback, Calls, Providers
  <2>3. 1 .. (call'[c].p - 1) = 1 .. (call[c].p - 1) \cup ({call[c].p} \ {0})
    BY <2>1, <2>2
  <2>4. Heard(c)'
    BY <1>2, <1>16, <2>1, <2>2, <2>3 DEF Heard
  <2>5. QED
    BY <1>3, <1>16, <2>4
<1>17. QED
  BY <1>8, <1>9, <1>10, <1>11, <1>12, <1>13, <1>14, <1>15, <1>16 DEF Working, Replies

LEMMA EndOutcome ==
  ASSUME CallsTyped, OutcomeInv, NEW c \in Callers, NEW outcome \in Outcome, Ending(c, outcome)
  PROVE  OutcomeInv'
<1> DEFINE i == call[c].of
           told == IF Abandoned(c, outcome) THEN "abandoned" ELSE outcome
<1>1. ASSUME NEW d \in Callers \ Waiters(i), d # c
      PROVE  call'[d] = call[d] /\ said'[d] = said[d]
  BY <1>1 DEF Ending, Publish
<1>2. ASSUME NEW d \in Waiters(i)
      PROVE  /\ call'[d].at = "wait" /\ call'[d].p = call[d].p /\ call'[d].got = told
             /\ said'[d] = said[c]
  <2>1. d \in Callers /\ call[d] \in Calls /\ call[d].at = "wait" /\ d # c
    BY <1>2 DEF Waiters, CallsTyped, Ending, Leading
  <2>2. call'[d] = [call[d] EXCEPT !.got = told] /\ said'[d] = said[c]
    BY <1>2, <2>1 DEF Ending, Publish
  <2>3. QED
    <3> HIDE DEF told
    <3>1. QED
      BY <2>1, <2>2 DEF Calls
<1>3. /\ call'[c].at = "returned" /\ call'[c].got = outcome
      /\ call'[c].cancelled = call[c].cancelled /\ said'[c] = said[c]
  BY NoCallTyped DEF Ending, Publish, Calls, Waiters, Leading
<1>4. told # "cancelled" /\ (told = "not found" => said[c] = Providers)
  BY DEF Ending, Abandoned
<1>5. ASSUME NEW d \in Callers
      PROVE  /\ call'[d].at \in Leading => Heard(d)'
             /\ call'[d].at \in {"enter", "wait"} => call'[d].p = 1
             /\ call'[d].at = "enter" => call'[d].got = Nil
             /\ call'[d].at = "wait" /\ call'[d].got # Nil =>
                  /\ call'[d].got # "cancelled"
                  /\ call'[d].got = "not found" => said'[d] = Providers
             /\ call'[d].at = "returned" =>
                  /\ call'[d].got = "cancelled" => call'[d].cancelled
                  /\ call'[d].got = "not found" => said'[d] = Providers
  <2> HIDE DEF told
  <2>1. CASE d = c
    BY <1>3, <2>1 DEF Ending, Leading
  <2>2. CASE d \in Waiters(i)
    <3>1. call[d].at = "wait"
      BY <2>2 DEF Waiters
    <3>2. QED
      BY <1>2, <1>4, <2>2, <3>1 DEF Leading, OutcomeInv
  <2>3. CASE d # c /\ d \notin Waiters(i)
    BY <1>1, <2>3 DEF OutcomeInv, Heard
  <2>4. QED
    BY <2>1, <2>2, <2>3
<1>6. QED
  BY <1>5 DEF OutcomeInv

-----------------------------------------------------------------------------
(* One request at a time *)

LEMMA RequestsApart ==
  ASSUME CallsTyped, OneRequestEach, NEW c \in Callers,
         \/ Asking(c) \/ Working(c) \/ \E outcome \in Outcome : Ending(c, outcome)
  PROVE  OneRequestEach'
<1>1. call \in [Callers -> Calls] /\ call[c] \in Calls /\ asking \in [Providers -> Callers \cup {Nil}]
  BY DEF CallsTyped
<1>2. ASSUME asking' = asking, call'[c].at # "request", \A d \in Callers \ {c} : call'[d] = call[d]
      PROVE  OneRequestEach'
  BY <1>2 DEF OneRequestEach
<1>3. CASE Asking(c)
  <2>1. ASSUME NEW i \in Symbols, Quote(c, i) PROVE OneRequestEach'
    <3>1. call'[c].at = "enter" /\ \A d \in Callers \ {c} : call'[d] = call[d]
      BY <1>1, <2>1, NoCallTyped DEF Quote, Calls
    <3>2. QED
      BY <1>2, <2>1, <3>1 DEF Quote
  <2>2. CASE Cancel(c)
    <3>1. /\ call'[c].at = call[c].at /\ call'[c].p = call[c].p
          /\ \A d \in Callers \ {c} : call'[d] = call[d]
      BY <1>1, <2>2 DEF Cancel, Calls
    <3>2. QED
      BY <2>2, <3>1 DEF Cancel, OneRequestEach
  <2>3. CASE Enter(c) \/ Wake(c)
    <3>1. call'[c].at \in {"returned", "wait", "acquire", "enter"}
      BY <1>1, <2>3 DEF Enter, Wake, Return, Go, Calls
    <3>2. asking' = asking /\ \A d \in Callers \ {c} : call'[d] = call[d]
      BY <1>1, <2>3 DEF Enter, Wake, Return, Go
    <3>3. QED
      BY <1>2, <3>1, <3>2
  <2>4. CASE Leave(c)
    <3>1. call'[c].at = "idle" /\ \A d \in Callers \ {c} : call'[d] = call[d]
      BY <1>1, <2>4, NoCallTyped DEF Leave
    <3>2. QED
      BY <1>2, <2>4, <3>1 DEF Leave
  <2>5. QED
    BY <1>3, <2>1, <2>2, <2>3, <2>4 DEF Asking
<1>4. CASE Working(c)
  <2>1. \A d \in Callers \ {c} : call'[d] = call[d]
    BY <1>4, WorkTyped
  <2>2. ASSUME NEW at \in Leading \ {"request"}, Go(c, at), asking' = asking
        PROVE  OneRequestEach'
    <3>1. call'[c].at = at
      BY <1>1, <2>2 DEF Go, Calls
    <3>2. QED
      BY <1>2, <2>1, <2>2, <3>1
  <2>3. CASE Acquire(c)
    <3>1. call'[c].at \in {"slot", "sleep", "failed"}
      BY <1>1, <2>3 DEF Acquire, Go, Calls
    <3>2. QED
      BY <1>2, <2>1, <2>3, <3>1 DEF Acquire
  <2>4. CASE Sleep(c)
    <3>1. call'[c].at \in {"acquire", "failed"}
      BY <1>1, <2>4 DEF Sleep, Go, Calls
    <3>2. QED
      BY <1>2, <2>1, <2>4, <3>1 DEF Sleep
  <2>5. CASE StartRequest(c)
    <3>1. CASE Go(c, "failed") /\ asking' = asking
      BY <2>2, <3>1 DEF Leading
    <3>2. CASE asking[call[c].p] = Nil /\ asking' = [asking EXCEPT ![call[c].p] = c] /\ Go(c, "request")
      <4>1. call'[c].at = "request" /\ call'[c].p = call[c].p /\ call[c].p \in Providers
        BY <1>1, <3>2 DEF Go, Calls
      <4>2. ASSUME NEW d \in Callers \ {c}, call'[d].at = "request"
            PROVE  asking'[call'[d].p] = d
        <5>1. asking[call[d].p] = d /\ call'[d].p = call[d].p /\ call[d].p \in Providers
          BY <1>1, <2>1, <4>2 DEF OneRequestEach, Calls
        <5>2. call[d].p # call[c].p
          BY <3>2, <5>1, MarketDataAssumption
        <5>3. QED
          BY <1>1, <3>2, <5>1, <5>2
      <4>3. QED
        BY <1>1, <3>2, <4>1, <4>2 DEF OneRequestEach
    <3>3. QED
      BY <2>5, <3>1, <3>2 DEF StartRequest
  <2>6. CASE Replies(c)
    <3>1. /\ call[c].at = "request" /\ asking' = [asking EXCEPT ![call[c].p] = Nil]
          /\ call'[c].at \in {"observe", "failed", "backoff"}
      <4>1. CASE NoAnswer(c)
        BY <1>1, <4>1 DEF NoAnswer, Go, Retry, Fails, Calls
      <4>2. ASSUME NEW r \in Response, Answer(c, r)
            PROVE  /\ call[c].at = "request" /\ asking' = [asking EXCEPT ![call[c].p] = Nil]
                   /\ call'[c].at = "observe"
        BY <1>1, <4>2 DEF Answer, Calls
      <4>3. QED
        BY <2>6, <4>1, <4>2 DEF Replies
    <3>2. asking[call[c].p] = c
      BY <3>1 DEF OneRequestEach
    <3>3. ASSUME NEW d \in Callers \ {c}, call'[d].at = "request"
          PROVE  asking'[call'[d].p] = d
      <4>1. asking[call[d].p] = d /\ call'[d].p = call[d].p /\ call[d].p \in Providers
        BY <1>1, <2>1, <3>3 DEF OneRequestEach, Calls
      <4>2. QED
        BY <1>1, <3>1, <3>2, <4>1
    <3>4. QED
      BY <3>1, <3>3 DEF OneRequestEach
  <2>7. CASE Observe(c) \/ EndBackoff(c)
    BY <2>2, <2>7 DEF Observe, EndBackoff, Leading
  <2>8. CASE Handle(c)
    <3>1. ASSUME NEW at, NEW nap, Retry(c, at, nap) PROVE call'[c].at = at
      BY <1>1, <3>1 DEF Retry, Calls
    <3>2. call'[c].at \in {"acquire", "failed", "backoff"}
      <4>1. ASSUME NEW unknown, NEW limited, Fails(c, unknown, limited)
            PROVE  call'[c].at = "failed"
        BY <1>1, <4>1 DEF Fails, Calls
      <4>2. QED
        BY <2>8, <3>1, <4>1 DEF Handle
    <3>3. QED
      BY <1>2, <2>1, <2>8, <3>2 DEF Handle
  <2>9. ASSUME Fallback(c),
               call' = [call EXCEPT ![c].at = "acquire", ![c].p = @ + 1, ![c].attempt = 1]
        PROVE  OneRequestEach'
    <3>1. call'[c].at = "acquire"
      BY <1>1, <2>9 DEF Calls
    <3>2. QED
      BY <1>2, <2>1, <2>9, <3>1 DEF Fallback
  <2>10. QED
    BY <1>4, <2>3, <2>4, <2>5, <2>6, <2>7, <2>8, <2>9 DEF Working
<1>5. ASSUME NEW outcome \in Outcome, Ending(c, outcome) PROVE OneRequestEach'
  <2>1. ASSUME NEW d \in Callers, call'[d].at = "request"
        PROVE  call'[d] = call[d]
    <3>1. d # c
      BY <1>5, <2>1, NoCallTyped DEF Ending, Publish, Calls
    <3>2. d \notin Waiters(call[c].of)
      <4> SUFFICES ASSUME d \in Waiters(call[c].of) PROVE FALSE
        OBVIOUS
      <4>1. call[d].at = "wait" /\ call[d] \in Calls
        BY <1>1 DEF Waiters
      <4>2. PICK told : call'[d] = [call[d] EXCEPT !.got = told]
        BY <1>5, <3>1 DEF Ending, Publish
      <4>3. QED
        BY <2>1, <4>1, <4>2 DEF Calls
    <3>3. QED
      BY <1>5, <3>1, <3>2 DEF Ending, Publish
  <2>2. QED
    BY <1>5, <2>1 DEF OneRequestEach, Ending
<1>6. QED
  BY <1>3, <1>4, <1>5

-----------------------------------------------------------------------------
(* Theorems *)

LEMMA InitInv == MarketInit => Inv
<1> SUFFICES ASSUME MarketInit PROVE Inv
  OBVIOUS
<1>1. CallsTyped
  BY InitCallsTyped
<1>2. \A c \in Callers : call[c] = NoCall /\ call[c].at = "idle"
  BY NoCallTyped DEF MarketInit
<1>3. LookupInv
  BY <1>2 DEF MarketInit, LookupInv, Leading
<1>4. OutcomeInv /\ OneRequestEach
  BY <1>2 DEF OutcomeInv, OneRequestEach, Leading
<1>5. QED
  BY <1>1, <1>3, <1>4 DEF Inv

LEMMA NextInv == Inv /\ [MarketNext]_marketVars => Inv'
<1> SUFFICES ASSUME Inv, [MarketNext]_marketVars PROVE Inv'
  OBVIOUS
<1>1. CallsTyped /\ LookupInv /\ OutcomeInv /\ OneRequestEach
  BY DEF Inv
<1>2. CASE Tick
  <2>1. CallsTyped'
    BY <1>1, <1>2, TickKeeps
  <2>2. /\ \A c \in Callers : /\ call'[c].at = call[c].at /\ call'[c].of = call[c].of
                              /\ call'[c].p = call[c].p /\ call'[c].got = call[c].got
                              /\ call'[c].unknown = call[c].unknown
                              /\ call'[c].cancelled = call[c].cancelled
        /\ inflight' = inflight /\ asking' = asking /\ said' = said
    BY <1>1, <1>2, TickKeeps
  <2>3. LookupInv'
    BY <1>1, <2>2 DEF LookupInv, CallsTyped
  <2>4. OneRequestEach'
    BY <1>1, <2>2 DEF OneRequestEach
  <2>5. OutcomeInv'
    <3> SUFFICES ASSUME NEW c \in Callers
                 PROVE  /\ call'[c].at \in Leading => Heard(c)'
                        /\ call'[c].at \in {"enter", "wait"} => call'[c].p = 1
                        /\ call'[c].at = "enter" => call'[c].got = Nil
                        /\ call'[c].at = "wait" /\ call'[c].got # Nil =>
                             /\ call'[c].got # "cancelled"
                             /\ call'[c].got = "not found" => said'[c] = Providers
                        /\ call'[c].at = "returned" =>
                             /\ call'[c].got = "cancelled" => call'[c].cancelled
                             /\ call'[c].got = "not found" => said'[c] = Providers
      BY DEF OutcomeInv
    <3>1. /\ call'[c].at = call[c].at /\ call'[c].p = call[c].p /\ call'[c].got = call[c].got
          /\ call'[c].cancelled = call[c].cancelled /\ said'[c] = said[c]
      BY <2>2
    <3>2. call[c].at \in Leading => Heard(c)'
      BY <1>1, <2>2 DEF OutcomeInv, Heard
    <3>3. /\ call[c].at \in {"enter", "wait"} => call[c].p = 1
          /\ call[c].at = "enter" => call[c].got = Nil
          /\ call[c].at = "wait" /\ call[c].got # Nil =>
               /\ call[c].got # "cancelled"
               /\ call[c].got = "not found" => said[c] = Providers
          /\ call[c].at = "returned" =>
               /\ call[c].got = "cancelled" => call[c].cancelled
               /\ call[c].got = "not found" => said[c] = Providers
      BY <1>1 DEF OutcomeInv
    <3>4. QED
      BY <3>1, <3>2, <3>3
  <2>6. QED
    BY <2>1, <2>3, <2>4, <2>5 DEF Inv
<1>3. ASSUME NEW c \in Callers, Asking(c) PROVE Inv'
  <2>1. CallsTyped'
    BY <1>1, <1>3, AskingTyped DEF Asking
  <2>2. QED
    BY <1>1, <1>3, <2>1, AskLookup, AskOutcome, RequestsApart DEF Inv
<1>4. ASSUME NEW c \in Callers, Working(c) PROVE Inv'
  <2>1. CallsTyped'
    BY <1>1, <1>4, WorkTyped
  <2>2. QED
    BY <1>1, <1>4, <2>1, WorkLookup, WorkOutcome, RequestsApart DEF Inv
<1>5. ASSUME NEW c \in Callers, NEW outcome \in Outcome, Ending(c, outcome) PROVE Inv'
  <2>1. CallsTyped' /\ LookupInv' /\ OutcomeInv'
    BY <1>1, <1>5, EndTyped, EndLookup, EndOutcome
  <2>2. OneRequestEach'
    BY <1>1, <1>5, RequestsApart
  <2>3. QED
    BY <2>1, <2>2 DEF Inv
<1>6. CASE UNCHANGED marketVars
  BY <1>1, <1>6 DEF Inv, CallsTyped, LookupInv, OutcomeInv, Heard, OneRequestEach
<1>7. QED
  BY <1>1, <1>2, <1>3, <1>4, <1>5, <1>6, Steps

\* In every state, the lookups under way are those of the callers that lead
\* them, leaders have heard what the providers answered, and who sends a
\* request holds the slot of its provider.
THEOREM Inductive == MarketSpec => []Inv
BY InitInv, NextInv, PTL DEF MarketSpec

\* Types of the calls, the table of lookups, the cache, the slots of the
\* providers and what they said (internal/marketdata).
THEOREM LookupTypes == MarketSpec => []MarketTypeOK
<1>1. Inv => MarketTypeOK
  <2> SUFFICES ASSUME Inv PROVE MarketTypeOK
    OBVIOUS
  <2>1. \A c \in Callers : call[c] \in Calls
    BY DEF Inv, CallsTyped
  <2>2. QED
    BY <2>1 DEF Inv, CallsTyped, MarketTypeOK, Calls, Where
<1>2. QED
  BY <1>1, Inductive, PTL

\* Concurrent calls for one instrument share one lookup: one caller leads it,
\* and nobody waits for a lookup that is not there (Service.Quote).
THEOREM OneLookup == MarketSpec => []SharedLookup
<1>1. Inv => SharedLookup
  BY DEF Inv, LookupInv, SharedLookup, Waiters
<1>2. QED
  BY <1>1, Inductive, PTL

\* Nobody inherits another caller's cancellation, and "not found" is said of an
\* instrument only when every provider said it (Service.Quote, chainFailure).
THEOREM OutcomesAreOwn == MarketSpec => []OwnOutcome
<1>1. Inv => OwnOutcome
  BY DEF Inv, OutcomeInv, OwnOutcome
<1>2. QED
  BY <1>1, Inductive, PTL

\* A provider has one request to answer at a time, whatever cancellations,
\* retries and fallbacks do in between: the slot of the limiter is taken before
\* a request and given back once.
THEOREM OneRequestPerProvider ==
  MarketSpec => [](\A c, d \in Callers : /\ call[c].at = "request" /\ call[d].at = "request"
                                         /\ call[c].p = call[d].p
                                         => c = d)
<1>1. Inv => \A c, d \in Callers : /\ call[c].at = "request" /\ call[d].at = "request"
                                   /\ call[c].p = call[d].p
                                   => c = d
  BY DEF Inv, OneRequestEach
<1>2. QED
  BY <1>1, Inductive, PTL
=============================================================================
