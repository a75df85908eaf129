------------------------------- MODULE Quotes -------------------------------
(***************************************************************************)
(* The price series of the assets: the loop that refreshes it every day    *)
(* and after a save, the history it asks of providers that do not all      *)
(* reach as far back, the coverage it records, and the other writer of the *)
(* series, the synchronization, with the pass that rebuilds it at start.   *)
(* (internal/quotes, internal/investments/quote*.go, the History of the    *)
(* providers in internal/marketdata, internal/syncsvc/quotes_backfill.go)  *)
(*                                                                         *)
(* Time is the day; the scheduled slot is the change of day, and on the    *)
(* last day of the model the slots go on.  A price is known by its origin. *)
(* An asset that was ever held is still held: a closed position only saves *)
(* spots.                                                                  *)
(***************************************************************************)
EXTENDS Integers, Sequences, FiniteSetsExt

CONSTANTS
  Assets,
  Instruments,  \* market and symbol
  Chain,        \* Chain[i]: the providers of instrument i, in order
  Trades,       \* Trades[i]: the days the market of i trades
  FirstDay, LastDay,  \* the days the program lives through
  Ladder,       \* depths brapi can be asked for, in days, 0 being no bound
  Bought,       \* the day a synced title was bought
  None,
  MaxSaves, MaxSyncs, MaxCrashes  \* bounds on what the environment does

Days == 1 .. LastDay
Origin == {"sync", "issue", "market"}
\* gaps: days a provider's bars may hold no usable close for.
Provider == [reach : {"all", "window", "ladder"}, days : Nat, gaps : SUBSET Days]

ASSUME QuotesAssumption ==
  /\ LastDay \in Nat /\ FirstDay \in 1 .. LastDay
  /\ None \notin Instruments \cup Origin
  /\ Ladder \subseteq Nat /\ 0 \in Ladder
  /\ \A i \in Instruments : Chain[i] \in Seq(Provider)
  /\ \A i \in Instruments : Trades[i] \subseteq Days
  /\ Bought \in Days

VARIABLES
  today,
  source,    \* source[a]: the instrument asset a is configured with
  held,      \* held[a]: first day a position of a took units in, 0 for never
  series,    \* series[a][d]: the row of investment_asset_quotes
  coverage,  \* coverage[a]: the row of investment_asset_quote_coverage
  payloads,  \* <<asset, day>> of the investments payloads in raw_imports
  saving,    \* assets whose handler has committed and not yet asked for a pass
  slot,      \* backfillRequests holds a request
  loop,      \* the scheduler: [at, due, full, asOf, todo, ask]
  unseen,    \* history: assets saved since the loop last listed them
  count      \* [saves, syncs, crashes] so far

assetVars == <<source, held>>
vars == <<today, assetVars, series, coverage, payloads, saving, slot, loop, unseen, count>>

Coverage == [of : Instruments, from : Days, to : Days]
Idle == [at |-> "stopped", due |-> FALSE, full |-> FALSE, asOf |-> FirstDay, todo |-> {}, ask |-> None]

Init ==
  /\ today = FirstDay
  /\ source \in [Assets -> Instruments \cup {None}]
  /\ held = [a \in Assets |-> 0]
  /\ series = [a \in Assets |-> [d \in Days |-> None]]
  /\ coverage = [a \in Assets |-> None]
  /\ payloads = Assets \X {1}  \* stored before the series existed
  /\ saving = {}
  /\ slot = FALSE
  /\ loop = Idle
  /\ unseen = {}
  /\ count = [saves |-> 0, syncs |-> 0, crashes |-> 0]

-----------------------------------------------------------------------------
(* What a provider answers *)

\* brapi is asked for the shortest depth that reaches from with two days to
\* spare, then for shorter ones while the plan refuses: the depths it serves.
Served(from, plan) ==
  LET enough == {d \in Ladder \ {0} : d >= today - from + 2}
      within(d, bound) == bound # 0 => d # 0 /\ d <= bound
  IN {d \in Ladder : within(d, plan) /\ within(d, IF enough = {} THEN 0 ELSE Min(enough))}

\* The deepest of them.
Rung(from, plan) == IF 0 \in Served(from, plan) THEN 0 ELSE Max(Served(from, plan))

Answers(p, from) == p.reach = "ladder" => Served(from, p.days) # {}

\* The earliest day the answer speaks for.
CoveredFrom(p, from) ==
  CASE p.reach = "all" -> from
    [] p.reach = "window" -> Max({from, today - (p.days - 1)})
    [] p.reach = "ladder" -> LET rung == Rung(from, p.days)
                             IN IF rung = 0 THEN from ELSE Max({from, today - rung})

\* One price a day, within what was asked; a bar without a usable close is
\* skipped, and the day stays unpriced.
Prices(i, from, to, skipped) == {d \in Trades[i] \ skipped : from <= d /\ d <= to}

-----------------------------------------------------------------------------
(* Rows of the series and of its coverage *)

\* A market price only ever replaces a market price.
UpsertConnectorQuotes(a, D) ==
  [series EXCEPT ![a] = [d \in Days |->
     IF d \in D /\ @[d] \in {None, "market"} THEN "market" ELSE @[d]]]

\* The price of the as-of day over anything; the issue price where nothing is.
RecordSyncedQuotes(row, d) ==
  [e \in Days |-> IF e = d THEN "sync"
                  ELSE IF e = Bought /\ row[e] = None THEN "issue"
                  ELSE row[e]]

\* Defect: an earlier first day asks for nothing, and neither does a single day.
MissingRangeOpen(from, yesterday, covered) ==
  IF covered = None /\ from < yesterday THEN [from |-> from, to |-> yesterday]
  ELSE IF covered # None /\ covered.to + 1 < yesterday THEN [from |-> covered.to + 1, to |-> yesterday]
  ELSE None

MissingRange(from, yesterday, covered) ==
  LET back == covered # None /\ from < covered.from
      forth == covered # None /\ covered.to < yesterday
  IN CASE covered = None \/ (back /\ forth) -> [from |-> from, to |-> yesterday]
       [] back /\ ~forth -> [from |-> from, to |-> covered.from - 1]
       [] forth /\ ~back -> [from |-> covered.to + 1, to |-> yesterday]
       [] OTHER -> None

MergeCoverage(i, from, to, covered) ==
  IF covered = None THEN [of |-> i, from |-> from, to |-> to]
  ELSE [of |-> i, from |-> Min({from, covered.from}), to |-> Max({to, covered.to})]

\* Defect: a fallback's answer covers what was asked.
NewCoverageAsAsked(ask, fallback, reached) == MergeCoverage(ask.of, ask.from, ask.to, ask.covered)

\* A fallback speaks for the days it reached only, and a gap it leaves keeps
\* the old interval.
NewCoverage(ask, fallback, reached) ==
  LET from == IF fallback THEN Max({ask.from, reached}) ELSE ask.from
  IN IF ask.covered # None /\ from > ask.covered.to + 1 THEN ask.covered
     ELSE MergeCoverage(ask.of, from, ask.to, ask.covered)

-----------------------------------------------------------------------------
(* The handlers, and the synchronization *)

Running == loop.at # "stopped"

Committed(a) ==
  /\ Running
  /\ count.saves < MaxSaves
  /\ count' = [count EXCEPT !.saves = @ + 1]
  /\ saving' = saving \cup {a}
  /\ unseen' = unseen \cup {a}

\* An asset is given another market or symbol.
UpdateAsset(a, i) ==
  /\ source[a] # i
  /\ Committed(a)
  /\ source' = [source EXCEPT ![a] = i]
  /\ UNCHANGED <<today, held, series, coverage, payloads, slot, loop>>

\* A position or an operation moves the first day a is held.
SaveHolding(a, d) ==
  /\ d <= today
  /\ held[a] # d
  /\ Committed(a)
  /\ held' = [held EXCEPT ![a] = d]
  /\ UNCHANGED <<today, source, series, coverage, payloads, slot, loop>>

\* Defect: the request is made only when nothing else was asked for lately.
RequestBackfillAtRest(a) ==
  /\ a \in saving
  /\ saving' = saving \ {a}
  /\ slot' = (slot \/ loop.at = "wait")
  /\ UNCHANGED <<today, assetVars, series, coverage, payloads, loop, unseen, count>>

RequestBackfill(a) ==
  /\ a \in saving
  /\ saving' = saving \ {a}
  /\ slot' = TRUE
  /\ UNCHANGED <<today, assetVars, series, coverage, payloads, loop, unseen, count>>

Sync(a) ==
  /\ Running
  /\ count.syncs < MaxSyncs
  /\ count' = [count EXCEPT !.syncs = @ + 1]
  /\ payloads' = payloads \cup {<<a, today>>}
  /\ series' = [series EXCEPT ![a] = RecordSyncedQuotes(@, today)]
  /\ UNCHANGED <<today, assetVars, coverage, saving, slot, loop, unseen>>

NewDay ==
  /\ today' = Min({today + 1, LastDay})
  /\ loop' = IF Running THEN [loop EXCEPT !.due = TRUE] ELSE loop
  /\ <<today', loop'>> # <<today, loop>>
  /\ UNCHANGED <<assetVars, series, coverage, payloads, saving, slot, unseen, count>>

-----------------------------------------------------------------------------
(* The process *)

\* BackfillAssetQuotes: any quote of a synchronization says it was done.
SeriesRebuilt ==
  IF \E a \in Assets, d \in Days : series[a][d] = "sync" THEN series
  ELSE [a \in Assets |->
         LET of == {d \in Days : <<a, d>> \in payloads}
         IN [d \in Days |-> IF d \in of THEN "sync"
                            ELSE IF of # {} /\ d = Bought /\ series[a][d] = None THEN "issue"
                            ELSE series[a][d]]]

\* The pass may fail, which is logged; the first slot is now.
Start ==
  /\ ~Running
  /\ \/ series' = SeriesRebuilt
     \/ UNCHANGED series
  /\ loop' = [Idle EXCEPT !.at = "wait", !.due = TRUE]
  /\ UNCHANGED <<today, assetVars, coverage, payloads, saving, slot, unseen, count>>

Crash ==
  /\ Running
  /\ count.crashes < MaxCrashes
  /\ count' = [count EXCEPT !.crashes = @ + 1]
  /\ loop' = Idle
  /\ slot' = FALSE
  /\ saving' = {}
  /\ UNCHANGED <<today, assetVars, series, coverage, payloads, unseen>>

-----------------------------------------------------------------------------
(* The loop *)

loopOnly == <<today, assetVars, payloads, saving, count>>
Listed == {[asset |-> a, of |-> source[a]] : a \in {b \in Assets : source[b] # None}}

Waiting == [Idle EXCEPT !.at = "wait", !.due = loop.due]

\* A pass: spots first, of every asset at a slot, of those without one when
\* woken by a save.
Pass == [loop EXCEPT !.at = "spot", !.full = loop.due, !.due = FALSE, !.asOf = today,
                     !.todo = {x \in Listed : held[x.asset] # 0}]

WakeDaily ==
  /\ loop.at = "wait"
  /\ loop.due
  /\ loop' = Pass
  /\ unseen' = {}
  /\ UNCHANGED <<loopOnly, series, coverage, slot>>

WakeRequested ==
  /\ loop.at = "wait"
  /\ slot
  /\ slot' = FALSE
  /\ loop' = [loop EXCEPT !.at = "debounce"]
  /\ UNCHANGED <<loopOnly, series, coverage, unseen>>

\* What came during the debounce is the same request.
Drain ==
  /\ loop.at = "debounce"
  /\ slot' = FALSE
  /\ loop' = Pass
  /\ unseen' = {}
  /\ UNCHANGED <<loopOnly, series, coverage>>

PricedToday(a) == series[a][loop.asOf] = "market"

\* One asset's spot: skipped, failed or deferred, or stored.
Spot(x) ==
  /\ loop.at = "spot"
  /\ x \in loop.todo
  /\ loop' = [loop EXCEPT !.todo = @ \ {x}]
  /\ \/ UNCHANGED series
     \/ /\ loop.full \/ ~PricedToday(x.asset)
        /\ series' = UpsertConnectorQuotes(x.asset, {loop.asOf})
  /\ UNCHANGED <<loopOnly, coverage, slot, unseen>>

\* RefreshHistory lists the assets again, or a statement fails.
BeginHistory ==
  /\ loop.at = "spot"
  /\ loop.todo = {}
  /\ \/ loop' = [loop EXCEPT !.at = "history", !.todo = Listed]
     \/ loop' = Waiting
  /\ UNCHANGED <<loopOnly, series, coverage, slot, unseen>>

HistoryRange(a, yesterday, covered) ==
  IF held[a] = 0 \/ held[a] > yesterday THEN None ELSE MissingRange(held[a], yesterday, covered)

\* What is missing of an asset's history is one request.
AskHistory(x) ==
  LET a == x.asset
      covered == IF coverage[a] # None /\ coverage[a].of = x.of THEN coverage[a] ELSE None
      range == HistoryRange(a, loop.asOf - 1, covered)
  IN /\ loop.at = "history"
     /\ x \in loop.todo
     /\ loop' = IF range = None THEN [loop EXCEPT !.todo = @ \ {x}]
                ELSE [loop EXCEPT !.at = "asked", !.todo = @ \ {x},
                                  !.ask = [asset |-> a, of |-> x.of, from |-> range.from,
                                           to |-> range.to, covered |-> covered, next |-> None]]
     /\ UNCHANGED <<loopOnly, series, coverage, slot, unseen>>

\* The providers fail, or put the request off.
NoHistory ==
  /\ loop.at = "asked"
  /\ loop' = [loop EXCEPT !.at = "history", !.ask = None]
  /\ UNCHANGED <<loopOnly, series, coverage, slot, unseen>>

\* The n-th provider of the chain answers and its prices are stored; an answer
\* that reaches no day of the range is dropped.
History(n) ==
  LET i == loop.ask.of
      reached == CoveredFrom(Chain[i][n], loop.ask.from)
      next == NewCoverage(loop.ask, n > 1, reached)
  IN /\ loop.at = "asked"
     /\ n \in DOMAIN Chain[i]
     /\ Answers(Chain[i][n], loop.ask.from)
     /\ IF reached > loop.ask.to
        THEN /\ loop' = [loop EXCEPT !.at = "history", !.ask = None]
             /\ UNCHANGED series
        ELSE /\ \E skipped \in SUBSET Chain[i][n].gaps :
                  series' = UpsertConnectorQuotes(loop.ask.asset,
                                                  Prices(i, reached, loop.ask.to, skipped))
             /\ loop' = [loop EXCEPT !.at = "stored", !.ask.next = next]
     /\ UNCHANGED <<loopOnly, coverage, slot, unseen>>

\* The coverage is a statement of its own, which may fail.
SaveCoverage ==
  /\ loop.at = "stored"
  /\ loop' = [loop EXCEPT !.at = "history", !.ask = None]
  /\ \/ coverage' = [coverage EXCEPT ![loop.ask.asset] = loop.ask.next]
     \/ UNCHANGED coverage
  /\ UNCHANGED <<loopOnly, series, slot, unseen>>

EndPass ==
  /\ loop.at = "history"
  /\ loop.todo = {}
  /\ loop' = Waiting
  /\ UNCHANGED <<loopOnly, series, coverage, slot, unseen>>

-----------------------------------------------------------------------------
Loop ==
  \/ WakeDaily \/ WakeRequested \/ Drain
  \/ \E x \in loop.todo : Spot(x) \/ AskHistory(x)
  \/ BeginHistory \/ NoHistory \/ (\E n \in 1 .. 3 : History(n)) \/ SaveCoverage \/ EndPass

Next ==
  \/ \E a \in Assets : \/ \E i \in Instruments : UpdateAsset(a, i)
                       \/ \E d \in Days : SaveHolding(a, d)
                       \/ RequestBackfill(a)
                       \/ Sync(a)
  \/ NewDay \/ Start \/ Crash
  \/ Loop

Spec == Init /\ [][Next]_vars

\* The loop runs, the program is started again, the slots go on, and what is
\* tried for ever succeeds in the end: the first provider answers, and the
\* statement that records it.
Fairness ==
  /\ WF_vars(Start \/ Loop) /\ WF_vars(NewDay)
  /\ \A a \in Assets : WF_vars(RequestBackfill(a))
  /\ SF_vars(BeginHistory /\ loop'.at = "history")
  /\ SF_vars(History(1))
  /\ SF_vars(SaveCoverage /\ coverage' # coverage)

FairSpec == Spec /\ Fairness

-----------------------------------------------------------------------------
(* Properties *)

TypeOK ==
  /\ today \in Days
  /\ source \in [Assets -> Instruments \cup {None}]
  /\ held \in [Assets -> 0 .. LastDay]
  /\ series \in [Assets -> [Days -> Origin \cup {None}]]
  /\ coverage \in [Assets -> Coverage \cup {None}]
  /\ payloads \subseteq Assets \X Days
  /\ saving \subseteq Assets
  /\ slot \in BOOLEAN
  /\ loop.at \in {"stopped", "wait", "debounce", "spot", "history", "asked", "stored"}

\* A trading day inside the covered interval with no quote is a day some
\* provider of the chain has no usable close for, where the first provider
\* serves the whole history: whatever the order of switched symbols, earlier
\* dates, missed days and fallbacks that reach less far back.  (The comment of
\* QuoteCoverage says such a day is one the market did not trade, which the
\* null and zero closes of Yahoo's bars contradict.)
CoverageHonest ==
  \A a \in Assets : coverage[a] # None /\ Chain[coverage[a].of][1].reach = "all" =>
    \A d \in Trades[coverage[a].of] :
      coverage[a].from <= d /\ d <= coverage[a].to =>
        \/ series[a][d] # None
        \/ \E n \in DOMAIN Chain[coverage[a].of] : d \in Chain[coverage[a].of][n].gaps

\* A save is never slept over: when the loop waits with neither a request nor
\* a slot before it, it has listed the assets after the save committed, or the
\* handler is still to ask (RequestBackfill drops what finds the one slot
\* taken, and waitForWork drains it after the debounce).
NoSaveSleeps == loop.at = "wait" /\ ~slot /\ ~loop.due => unseen \subseteq saving

Wanted(a) == source[a] # None /\ held[a] # 0 /\ held[a] < today
Covered(a) == /\ coverage[a] # None /\ coverage[a].of = source[a]
              /\ coverage[a].from <= held[a] /\ coverage[a].to >= today - 1

\* The history of a held asset ends up covered from the day it was first held
\* to yesterday, whatever was saved, missed, put off or lost on the way.
HistoryAsked == \A a \in Assets : <>[](Wanted(a) => Covered(a))

=============================================================================
