# Verification of Julius

TLA+ models of the parts of Julius (a personal-finance program: Go backend,
SQLite or Postgres, React frontend) whose correctness depends on what happens
*between* two statements: a second worker, a late heartbeat, a failed delete, a
restart. TLC checks small instances of every module; TLAPS proves the most
important properties for every value of the constants. `PROJECT.json` lists the
components, the runs, what each definition translates, and the hazards.

    tlc -workers 2 -config MCSyncRuns.cfg MCSyncRuns
    tlapm Sync_proofs.tla

## 1. The system

| component | state it keeps | operations | what is hard about it |
|---|---|---|---|
| sync runs (`worker`, `syncsvc/{enqueue,recovery,rawimports}`) | `sync_runs` rows: status, `worker_id`, `heartbeat_at` | enqueue, claim, heartbeat, fenced writes, verdict, lease recovery | several processes, crashes, late owners, late recoverers |
| schedule (`worker/schedule.go`) | the loop's wake-up; otherwise the runs themselves | `EnqueueDue` per occurrence, retry in a minute | the clock is read twice, restarts, busy sources |
| ingestion (`syncsvc/service.go`) | accounts, transactions, bills, investments, movements, events, failures, counters | `Execute`: reads and one transaction per record | every step may fail after others committed; hash and hooks in one transaction |
| pluggy adapter (`pluggy`) | token, cursor set of a read | item, accounts, pages, bills, investments | partial products, repeated cursors, rejected records |
| payables, scenarios, recurrences, inclusion, automation, manual ledger | payables, links, plans, settlements, allocations, occurrences' overrides, decisions and their trail | CRUD handlers, each several statements; hooks between packages | four packages keep one consistency, partly without a transaction |
| investments (`investments`) | operations, positions, reconciliations, quotes | ledger mutations judged by a replay; pivots of synced movements | corrections in the past; a pivot found through one of its parcels |
| quotes, market data (`quotes`, `marketdata`) | wake-up channel, coverage rows, cache and in-flight lookups, limiters | daily refresh, history backfill, shared lookup, rate limits | goroutines, cancellation, debounce |
| statement import (`statementimport`, its handlers) | imports and transactions of file accounts | preview, confirm by fingerprint | other writers between preview and confirm |
| categories (`categories`) | decisions with their source | passes in the upsert's transaction, backfills | precedence of manual, rule, learned and automatic decisions |
| net worth, projections, timeline, dates, money, rules | snapshots; otherwise none | reads and arithmetic | boundaries of days and cents |
| auth, settings | one owner, sessions with a revision, encrypted keys | login, reset, migrate | a reset racing a login |
| HTTP API, command, database layer, frontend | none of their own | decoding, wiring, SQL dialects, views | which hook is wired where; which handler opens a transaction |

How they interact. The API and the schedule **create rows** in `sync_runs`; the
worker loop finds them by polling, and everything else about a run is **shared
state** in that row: there is no message between processes. `Execute` calls the
adapter, writes the tables in transactions fenced by the run row, and calls back
into `categories` and `automation` (a **callback** wired in `cmd/julius/main.go`).
Inclusion decisions reach payables and recurrences through another callback,
`onIgnored`, wired in two places: `httpapi/server.go` for requests (both
packages) and `main.go` for synchronizations (payables only). Handlers pass
either a transaction or the bare `*sql.DB` to the same functions, so the unit of
atomicity depends on the caller; the modules follow the caller.

What makes each correct: one active run per source, one claimant, one verdict,
nothing stored by a worker that lost its run, every run ends (sync runs); one
scheduled run per source and occurrence, none forgotten (schedule); the verdict
says what is missing, automation sees what is stored, counters agree with events
(ingestion); an ignored or deleted transaction carries nothing, realizations
follow links, the trail tells the decisions (obligations); no negative cash or
units at any day, one pivot per movement (investments); every save is followed
by a pass, coverage has no holes, no request inside a pause (quotes); what is
imported is what was previewed, and a file sent again finds nothing new (import);
who decides a category follows one precedence and its trail tells it (categories);
a readjusted plan expects exactly what remains (plans); two screens tell the same
of an occurrence and a day's balance does not depend on the period it is drawn
for (recurrences, timeline).

## 2. Modules

| module | models | theorems |
|---|---|---|
| `Connections` | which connections there are and which are active | |
| `SyncSlot` | the abstract promise: an exclusive slot per source | |
| `SyncRuns` | run rows, worker processes, heartbeat and recovery loops; implements `SyncSlot` | `Sync_proofs` |
| `SyncSchedule` | `RunSchedule`/`EnqueueDue`, requests, restarts | `Sync_proofs` |
| `SyncIngest` | one execution of a run after another, on the data | `SyncIngest_proofs` |
| `Obligations` | inclusion, payables, plans, settlements, allocations, occurrences | `Obligations_proofs` |
| `Investments` | custody accounts, positions, operations, transfers, reconciliations, pivots | `Investments_proofs` |
| `Quotes` | the refresh loop, its wake-up channel, history and coverage, synchronized prices, restarts | `Market_proofs` |
| `MarketData` | the shared lookup, the provider chain, the limiter, one request's attempts | `Market_proofs` |
| `Decisions` | who decides a transaction's category; rules; entries made by hand, with idempotency keys | `Decisions_proofs` |
| `StatementImport` | preview, confirmation and storing of statement files in two tabs | `StatementImport_proofs` |
| `Plans` | installments of a payable's plan: generate, edit, allocate, readjust, between requests | `Planning_proofs` |
| `Recurrences` | the calendar of occurrences, decisions on them, automatic matching, two readers | `Planning_proofs` |
| `Timeline` | extends `Recurrences`: card due dates, the entries of a period, the walked balance | `Planning_proofs` |

`MC<module>` gives the constants of an instance; each `.cfg` is a run. The
operators commented *Defect* in the modules are plausible bugs of the code next
to them; nothing uses them, they are substituted one at a time to see that the
property meant to catch the bug does.

### SyncRuns

A row of `sync_runs` is `status[r]`, `owner[r]` (`worker_id`) and `age[r]`: the
ticks since `COALESCE(heartbeat_at, started_at)`, saturated one tick after the
lease, because recovery only compares it with the lease. The compare-and-set of
`recoverRun` on the heartbeat it read is `moved[w]`: the candidates whose
heartbeat was written since `w` read them. A worker is one process: its run loop
(`pc`, `job`, `left`, `page`), the heartbeat goroutine of the run it executes
(`Heartbeat`, possible whenever a run is being executed), its recovery loop
(`scan`). A restart is another worker, since `WorkerID` is random. One action is
one statement or one transaction: `ClaimSelect` and `ClaimUpdate` are apart
because Postgres re-evaluates the outer `WHERE` of `ClaimNextRun` after a
concurrent claim. The owner's writes (`SaveRaw`, `Store`) check and refresh the
claim in their own transaction, as `beginOwnedTx` does. The data of a source is
one version number; what `Execute` does with it is `SyncIngest`'s matter. Four
things are simplified: `claimAttempts` (three tries, then the poll) is the loop
itself; `Abandon` stands for any database error that makes `ProcessClaim` return;
`is_active` is read by the enqueuers before they insert, so `Enqueue` does not
look at it. A worker without Pluggy credentials, or whose claim fails, sleeps and
asks again (`worker.go:247-265`), a step that does nothing. The runs of a source
are numbered in the order they are created (`NextRun`); between sources the order is free, as clocks of two processes are.

`SyncSlot` has no workers' memory, leases or rows. `SyncRuns!Slot` maps a source
to *idle*, *requested* or *running* by the run of it in progress.

### SyncSchedule

Time is the index of the latest scheduled occurrence, so `Previous(now)`,
`Next(now)` and `started_at >= due` compare indices. `Plan` and `Call` are the
two clock readings of `RunSchedule`; `List`, `Count` and `Insert` the statements
of `EnqueueDue`; `Fail` any of them failing, with the retry in a minute (`wake`
in the past). `made` and `passed` are history: how many runs the schedule made
for an occurrence, and up to which occurrence a source was dealt with. A run's
execution is only `open` here. Processes live one at a time: `StartLoop` waits for
the previous one to be gone.

### SyncIngest

`todo` is what `Execute` has left: a list of tasks, each one provider read or one
transaction; a page pushes a task per record it carries, a loop pushes its body.
Any task may fail the way the code lets it (reject the record, record a failure,
skip the rest of the account, general failure). A record is the version of its
normalized fields (what `normalized_hash` distinguishes). `hooked[t]` is the
version automation and the category passes last saw. `Recover` ends the run at
any point, after which every owned step stops (`ClaimLost`). `GetAccounts` and
`GetInvestments` return the first page of their list (`FirstPage`), because the
adapter asks for page 1 and reads neither `page` nor `totalPages`
(`client.go:330-357`); pages of transactions, bills and movements are followed to
their end. Relisting a transaction under another account happens between runs
only; `Volatile` bounds which records change or are relisted, and `Watched` stops
changes after the last run.

### Obligations

Four packages around one transaction: its inclusion `decision` with the `trail`
of events, its payable `link`, the complete event it `carried` (a settlement in
a plan or an occurrence: one unique index covers both), the installments
`allocated` to it (pairs of plan and transaction; the installments of a plan are
not told apart). `req[r]` is a handler between two statements: what it read and
which statement is next. Handlers that run in one transaction are one action;
those that do not are a chain of stages. Requests interleave, the rule applied in
the synchronization's own transaction (`RuleIgnores`) runs beside them, and
`Break`, the request failing or being cancelled, may come before any statement.

Two history variables record what the code does not protect, so that the
properties can claim everything else. `torn` has the changes of a decision whose
request died before the event or inside the hook, with the stage it died at: what
is left undone there is known exactly (no event; or links, settlements, allocations
not yet deleted). `contested` has the transactions from which something was *taken*
(ignored, unlinked, deleted) while another piece of work was about the same
transaction; the work that only *adds* (a link, an allocation, a backfill, an
occurrence) may overlap freely, because unique indexes and conflicts in the
writes' own transactions settle it. Section 3 lists the contested races.
Identities (`FreshLink`) are never reused while a request remembers them.
Consecutive checks of a request that only read are merged into one action. The
investment part of `onIgnoredHook` is `IgnoreLine` of `Investments`; amounts are
left out: whether an obligation is paid in full is `Plans`' matter.

### Investments

`ops` and `links` are the rows of `investment_operations` and
`investment_reconciliations`, as sets of records whose `id` rises with
`created_at`; a position is its account and asset (the unique index of
`investment_positions`). `Commit` is `mutateLedger`: the operations change as
asked when the replay of every hand-kept account touched goes through, and not at
all otherwise. `ReplayOf` is the replay, a recursive function on sets of
operations that applies the latest one last; `ApplyOperation` is
`applyOperation` for cash and units. Cost basis, unit prices and quotes are left
out (no judgement of the replay depends on them; a total without a quantity
is one unit, as in `CreatePosition`). `Linkable` is `createReconciliation`'s
judgement, `LinksStillFit` the one made when a linked operation is corrected,
`RemoveLinks` is `removeLink` with `keepPivotReachable`. A request without an
operation that names a movement joins the operation derived from it
(`ReusePivot`) or derives it (`DerivePivot`). A bank line is entered
by hand, with the refusals of `manual.go` to edit or delete a linked one, or
imported (`Imported`), and then a synchronization restates its amount (`SyncLine`)
as it restates a movement (`SyncMovement`), looking at no link. The two hooks of an
ignored line differ as they do in the code: the one of requests removes its links
(`IgnoreLine`), the one of synchronizations (`cmd/julius/main.go:135`) does not.
`drifted` is history: the lines and movements that a synchronization changed or
ignored under their links, until no link is left.
Requests are atomic here: `mutateLedger` is a serializable transaction and
`createReconciliation` locks the rows it weighs; for the requests that check and
then write it is an assumption, listed in section 5.

### Quotes

Time is the day. `series`, `coverage` and `payloads` are the rows of quotes, of
coverage and of the raw payloads of synchronizations; a price is known by its
origin (`sync`, `issue`, `market`). `slot` is the channel that holds one request,
`saving` the handlers that have committed and not yet called `RequestBackfill`
(the call comes after the commit, so the loop may see the save before or after),
`loop` the scheduler between two statements: waiting, debouncing (`Drain` empties
the channel), the spot pass, the history pass, a request under way, its answer
stored and its coverage not yet. A provider is what it reaches: everything, a
window of days, or a ladder of depths asked one after another while the plan
refuses (brapi; `Answers` says whether it serves any); and its `gaps`, the days whose
bar may hold no usable close and is skipped (`yahoo.go:318-330`). `Start`
runs the rebuilding pass of `BackfillAssetQuotes`, which may fail, before the
loop; `Crash` loses the channel and the handlers between commit and request.
`unseen` is history: assets saved since the loop last listed them.

### MarketData

A caller of `Service.Quote` enters, serves itself from the cache, leads the
lookup or waits for the leader. `Publish` is `finish`: the entry is removed and
its waiters told in one step under the mutex. A leader walks the chain of
providers; at each it acquires a start (spacing and pause, then the slot: two
steps, as in `Acquire`), sends the request, gives the slot back, lets the limiter
read the answer (`Observe`), and handles it. Instants are countdowns. A caller may
be cancelled at any point; a provider may panic. `History` takes the same road
without sharing and is not repeated here.

### Decisions

A transaction is what the passes look at: a name (what learned categories and
rules match), the card purchase whose installments form a group, the labels the
automatic passes recognize. `row`, `dec` and `trail` are the tables of
transactions, decisions and events (the last one), `taught` when each manual
decision was made (`changed_at`): of these moments only the order matters, so a
new one is one past the greatest. A synchronization's upsert runs its passes in order in one
transaction (rules, learned, automatic); a retroactive rule lists its
candidates first and then writes each in a transaction of its own; creating by
hand reserves the idempotency key, creates and decides in one transaction; a
start runs the backfill once per release of the automatic passes (`boot`).

### StatementImport

A line is the look a parser makes of it (instant, text, amount), its resulting
balance, and whether it parsed. `Verdict` is `classifyStatement`: identity
(version 3), then the rows of the first version, then look-alikes of other
origins. A tab shows a preview (`seen`), the user chooses about ambiguous lines,
and the confirmation classifies again, refuses when anything changed, and stores;
on Postgres reading and writing are two steps, which two tabs interleave.
Manual entries and synchronized ones of the same look come and go meanwhile.
`StoredAsSeen` speaks of rows, not of events: the key that keeps an identity from
being stored twice makes a late insert a no-op, and then another tab's row, with the
same identity, is what stands for the line that was seen.

### Plans

One payable with one plan, its accounting source. Generating, readjusting and
allocating are handlers that read on the plain connection (the payable's
remaining amount, the installments, the allocations) and then write in one
transaction; an allocation is a row of its own, numbered among equal ones; the
`stage` of a request is which of these it has done. `Evenly` and `ByAmount` are `splitEvenly` and `splitByAmount` in cents. A month is a month of
the plan; other cadences step by days and change nothing here.

### Recurrences and Timeline

Nothing is stored but commitments, rules and decisions (`override`); what
realizes an occurrence is derived. `OccurrenceScreen` and `RecurringProjections`
are the two derivations, translated separately from `recurrences` and
`projections`, over the same rows: each asks for its own transactions and its own
decisions around the period. The calendar is short (`Lengths` gives the days of
each month) and has a month shorter than the day a commitment is due, so clamping
happens; transactions are dated within it. A period begins and ends on any day, as
`occurrenceWindow` and `handleGetTimeline` accept: whole months (the screen's
default), today to the end of a month (Home), or any other
(`CalendarAssumption` asks only that days be days of the calendar and that no
month be longer than the reach). `Timeline` adds installments, card purchases
counted on the due date of their bill, the clipping of entries to the period, the
anchor at the reference day and the curve. A read is evaluated in one state: its
queries are not interleaved with writes.

Two things the readers take for granted are not enforced by any write, so the
properties name them as premises about the *state*: a transaction picked by hand is
within reach of the days of its month (`PickedNear`; readers look for decisions and
candidates `ManualLinkReachDays` around the period), and a purchase whose bill is
due today or later lies between two months back and its bill (`PurchasesNear`;
`BuildSeries` reads "the cycle or two before the window",
`timeline/build.go:238-243`). The run reaches states on both sides of
`PickedNear`; its purchases are all near.

## 3. Runs

| run | question | instance |
|---|---|---|
| `sync` | exclusivity, verdicts, no stale data, refinement of `SyncSlot`; is the source always freed? | 2 workers of which one steady, 2 runs of 1 source, lease 0, 1 page, 2 data versions |
| `sync_schedule` | repeated, overslept or forgotten occurrences | 2 sources (one toggled), 2 lives of the process, 2 occurrences |
| `sync_ingest` | verdict, counters, hooks, records the provider moves, over partial failures | 3 accounts and 2 investments, one of each on a second page; 2 transactions on 2 pages, 1 bill, 1 movement, 2 runs |
| `obligations` | consistency of links, settlements, allocations, occurrences, trail | 2 transactions (1 entered by hand, 1 imported), 1 payable, 1 plan, 1 occurrence, 2 requests and the synchronization side by side, failures anywhere; 2 changes of decisions, up to the first clash and the first torn change |
| `obligations_ignored` | is an ignored transaction free of payments whenever no request is in flight? (expected violation) | 2 transactions, 2 payables, 2 plans, 2 occurrences, 1 request |
| `investments` | books that replay, transfers, links and their capacity, pivots | 2 hand-kept accounts and 1 of a connection, 1 asset, 1 line entered by hand and 1 imported, 1 movement of 2 reported in two ways, 4 rows; one line or movement at a time ignored or changed under its links |
| `quotes` | honest coverage, no save slept over, history asked in the end | 1 asset, 2 instruments with different chains, one with a day that may lack a close, 4 days, 2 saves, 1 synchronization, 1 crash |
| `marketdata` | one lookup, whose outcome, does every call return? | 2 callers of 1 instrument, 2 providers, 3 calls, 1 cancellation, 2 attempts |
| `decisions` | trail, idempotency, who may override whom, precedence | 2 installments of a purchase, 2 entries by hand, 2 rules, 3 requests |
| `imports` | re-imports, what was seen is what is stored, the balance | 3 overlapping files, 2 accounts (one new), 2 tabs, 2 imports |
| `plans` | readjusted to what remains, allocated installments untouched | 2 requests, 4 installments, 2 payments, total 5, 3 months, 3 writes |
| `timeline` | two readers agree, one occurrence per payment, balance independent of the period | 2 commitments, 3 transactions, 4 short months, 3 overlapping periods (whole months, cut months, and from the reference day on, as Home's), 2 writes |

Why these bounds reach the cases. *sync*: every hazard is between two parties
about one row: two claimants, an owner and a recoverer, a late owner and the
owner of the next run; that takes two workers, two runs of a source and two
versions. One page is enough because a page is fenced by itself. The steady
worker may still hang, lose its run and come back late; only the other dies.
*schedule*: a repeated occurrence takes a restart: two lives, two occurrences;
the second source lets a call fail between sources.
*ingest*: two runs show what the second sees of the first's partial work; two
pages let pages fail in the middle; each kind of record occurs; an account and an
investment on a second page show what is not read. *obligations*: every hazard is
between two pieces of work about one transaction, or one transaction's hook and
another's rows in the same plan: two requests, the synchronization beside them and two
transactions; an occurrence and a settlement compete for a transaction;
`MaxRevision = 2` allows ignore and consider with links in between, a change
after a torn one, or both transactions ignored. Once a transaction is contested or two
changes are torn the run stops looking (`Bounded`): what follows is said by the theorems. *investments*: `MaxRows` bounds identities, of operations and
links together: four hold an opening, both legs of a transfer and the sale of
the units it moved, or a pivot with its two parcels and an operation next to
it; a second account receives what an update or a transfer moves; amounts of 1
against a movement and operations of 2 let two parcels fit and a third not. Batches
and corrections are one operation of each way of going wrong (a purchase with
its funding, a sale, a change of day, kind, account, an integrated account, a
position of another account). *quotes*: two saves give a switched symbol or a
first day moved back while an answer is under way; one instrument's fallback
serves a window shorter than the range asked for, the other's climbs down the
ladder; two days pass after the first; one provider may lack a close inside the range.
*marketdata*: a leader and a waiter, a
second provider to fall back to, a second attempt, and a call more than callers,
so that one returns after the cache expired. *decisions*: a group of two is the
smallest in which a decision reaches a sibling; two rules can disagree, one of
them ignores; three requests create, decide and resend. *imports*: the files
share lines, repeat a look within a file and disagree on a balance; one has an
invalid line, one of v1's rows matches one look. *plans*: an overpaid, a partly
allocated, and an untouched installment together; a negative amount as a user may
type it; two requests that both hold stale reads. *timeline*: the periods cut
and overlap each other and two of them begin or end inside a month; a commitment on a day some months do not have, two
commitments competing for a payment, a card purchase and a bill payment. Without the premises
of section 2 on reach, both properties about periods are violated on this instance.

Deadlock is checked in `decisions` and `imports`, where something is always
possible; elsewhere the system may legitimately have nothing left to do (no runs
left, bounds reached), and the cfg says so.

Symmetry is used where no liveness is checked: requests in `obligations`, entries
made by hand in `decisions`, tabs in `imports` and `plans`, commitments in `timeline`.

### Fairness

`sync` assumes that time passes (`Tick`) and that a worker that is up takes the
steps of its run loop (goroutines are run, tickers fire; weak fairness). That
includes the claim: the worker has Pluggy credentials some day (it claims nothing
without, `worker.go:247-254`), and `ClaimNextRun` does not fail for ever. Only of
the steady worker it also assumes that it starts, keeps scanning, and that a
candidate is not dropped by a database error *every* time (strong fairness of
`Recover`). No heartbeat is promised, no crash of the other worker excluded, no
statement of the run loop assumed to succeed. One worker must be steady: with
none, a run may well stay in progress, as in the program.
`sync_schedule` assumes the loop runs, a non-steady life ends, and the
statements of the steady one do not fail every time.
`quotes` assumes that days pass, a stopped program is started, the loop goes on
and a handler that committed calls `RequestBackfill`; and that listing the
assets, the preferred provider's answer and the coverage's write do not fail
every time (strong fairness): a provider that is down for ever leaves the history
missing, as it should.
`marketdata` assumes that time passes and that a request is answered or fails
(the HTTP client has a timeout); nothing about which answer.

### A finding

`obligations_ignored` checks one sentence of the repository (quoted in
`PROJECT.json`, `findings`), as `IgnoredPaysNothing`: the decision and the deletes of `onIgnored` are
separate statements of the request, not one transaction; a failure in between
leaves an ignored transaction paying, and repeating the request does nothing.

### Other disagreements met while modelling

The models do what the code does; these sentences of the repository do not hold
of it. Each was seen as a counterexample of the module named, on the instance of
its run or one like it, and the properties of section 3 are
stated so that they do not claim them.

* `SyncSchedule`: a source whose older run is still open at the occurrence is
  skipped (`ErrBusy`, `worker/schedule.go:92`) and not tried again; when that run
  then fails, the day has no synchronization. The comment of `EnqueueDue`
  (`schedule.go:68-73`) says a restart or a late wake-up "neither repeats the sync
  nor loses it".
* `SyncIngest`: only the first page of the lists of accounts and of investments is
  read (`pluggy/client.go:330-357`; the mappings at `mapping.go:598-619` and `692-713`
  look at no page marker), so a run completes without the records of the other
  pages. The comment of a sibling endpoint calls this a truncation to be detected
  (`client.go:385-387`). `CompletedMeansStored` is about what the first pages lead to.
* `Quotes`: "A day inside it with no quote is a day the market did not trade"
  (`investments/quote_coverage.go:13-15`), but a bar without a usable close is skipped and the
  interval recorded all the same (`marketdata/yahoo.go:176-178, 318-330`;
  `yahoo_test.go:254-279` expects it). `CoverageHonest` excepts those days.
* `Investments`: the hook of synchronizations (`cmd/julius/main.go:135`) ignores a
  linked bank line and leaves its links, which hides the line and the operation's
  amount; `reconciliations.go:406-411` says they go when "the line becomes ignored". A
  synchronization also restates the amount of a linked line or movement.
* `Obligations`, synchronizations: the hook wired in `cmd/julius/main.go:135`
  detaches payables only, so a rule that ignores a transaction leaves it carrying
  an occurrence; `.specs/contextos/recorrencias/reference.md:72-73` says an ignored
  transaction loses that link.
* `Obligations`, backfill: `scenarios/store.go:159` stops at the first conflict
  after the plan has committed and no later plan backfills: "Without this
  catch-up, money linked in that gap would never count" (`store.go:114-115`).
* `Obligations`, two pieces of work about one transaction (`contested`): a rule
  applied retroactively that read before a decision by hand committed writes over it
  (`transactions/inclusion.go:119`; `inclusion_test.go:87-88` says "never silently
  overridden"); `CreateLink` inserts for a transaction ignored since its check; a
  backfill settles, and `handleCreateRealization` allocates, for a link deleted since
  they read it; an occurrence is realized by a transaction deleted since; `DeleteLink`
  deletes the settlement of a link made since it read.
* `Investments`: further parcels of an imported movement are checked against the
  operation derived from it, not against the links through which other
  operations use the movement (`investments/reconciliations.go:314`); together they
  exceed it (`.specs/contextos/investimentos/reference.md:322-323`).
* `Quotes`: a start whose rebuilding pass failed, followed by a synchronization,
  leaves older payloads that no later start rebuilds
  (`syncsvc/quotes_backfill.go:32-38`: "any stored sync quote means there is nothing
  left to rebuild").
* `MarketData`, two instruments: `Acquire` checks the pause before it waits for the
  slot and not after (`marketdata/limiter.go:62-88`: "until a request may start ...
  outside any pause"). The program's own loop asks one price at a time.
* `Decisions`: `ApplyRule` looks at the decision of the transaction it was asked
  for and writes to every installment of the purchase (`categories/decisions.go:249`),
  one decided by hand included: "It never overrides a manual decision"
  (`decisions.go:195`). `ManualStands` says how far the promise holds.
* `Plans`: `handleGenerateInstallments` checks that the plan is empty before its
  transaction; two requests both find it empty. An allocation made after
  `Readjust` read goes with its installment when the rows are replaced.
* `Recurrences`: editing a schedule leaves decisions on dates it no longer emits,
  which no endpoint reaches any more (`requireOccurrence`). `PUT` does not ask that
  a transaction be within the 45 days the readers look around
  (`ManualLinkReachDays`). A period that cuts a month (today to its end, on Home;
  `timeline_handlers.go:130-133` says periods are rarely aligned) misses a decision
  out of reach, and the rule then claims the payment that decision holds: hence
  `PickedNear`.
* `Timeline`: a simulation that names scenarios drops the active ones of the base
  (`Selected`), where `httpapi/timeline_handlers.go:156-158` says "non-empty adds
  Simulation (Base + those scenarios)". A period without the reference day is
  anchored at a balance that is not its own: `BalanceSameInEveryWindow` is about
  periods that have it.
* `StatementImport`: rows of the first fingerprint version are recognized by their
  position, which a line inserted before them shifts; two confirmations of one
  file into "a new account" create two accounts.

## 4. Proofs

All constants are arbitrary under the named assumption of the module.

`Sync_proofs`. `Inv` is `OneActiveRun /\ ClaimsCoherent /\ PageCurrent /\
CandidatesStale`. Exclusivity alone is not inductive, and neither is "stored
never goes back": a `Store` is harmless because the page in the hands of the
*owner of a run in progress* is at least as new as what is stored
(`PageCurrent`), which survives other stores because two owners of one source
cannot be in progress at once (`OneActiveRun`) and because a worker executes
only what it owns (`ClaimsCoherent`). A recovery is justified because a
candidate that is unmoved and still in progress is still silent
(`CandidatesStale`). `TypeCorrect` and `Invariance` give the four action
properties (`StoredNeverGoesBack`, `OneVerdict`, `OneClaimant`,
`OnlySilentRecovered`) and the step simulation of `RunsImplementSlot`
(`Spec => Slot!Spec`).

The same module proves the schedule's theorems, of `DailySpec`: both modules extend
`Connections`, the rows they share, and their other names are apart.
`ScheduleNeverRepeats`: the number of runs made for an
occurrence is bounded by what `latest` says, and the process between its count
and its insert is the only one. `NothingOverslept`: the wake-up was read before
the occurrence the call handled, and a failed call wakes at once.

`Obligations_proofs`. A handler is a chain of statements, so the tables are
consistent only up to the rows the request in hand is about to delete. The invariant
(`IInv`) is per transaction: of every transaction that is not contested, `InOrder`
says that the tables are as the properties ask up to the stages that may still owe
it (`Good`), and that what each request at work on it read still holds
(`Holds`: the decision it read, the link it will write, the plan it backfills).
That `Clashes` are contested is part of it. A step then falls in one of
few cases for a given transaction: the step is about another one (`Bystander`), it
adds to it next to other adders (`Adder`, `AdderInOrder`), it takes from it and then
is the only one about it (`Sole`, `TakerInOrder`), a request about it dies
(`FadingInOrder`), or a plan, a payable or an occurrence goes under it
(`OutsideInOrder`). Nothing is assumed of how requests and the synchronization
interleave, nor of where they die; `torn` and `contested` say in the theorems'
statements what the code leaves open.

`Investments_proofs`. `BookInv` is `WithinTheBook` with the range of
`positions`; with `BooksReplay` it is inductive, because every request that
changes operations either goes through `Commit`, which replays each hand-kept
account it touches, or adds and removes derived operations, which are in no
hand-kept account: that last fact is the strengthening. A book that is not
touched is the same set of operations before and after, so the proof never
unfolds the replay beyond `Replays({})` (an account has no operation when it is
new), and the theorem holds for whatever a replay judges.
The links need more: `Now` is `Sound /\ Reachable`, predicates over the four tables
as *arguments* (operations, links, values and considered lines), so that each
lemma is about what one kind of change (operations grown, dropped, corrected; a
link added, removed; a line revalued) does to any sound ledger, and each action
then cites the kinds it consists of. Identities are fresh because none exceeds
`LastId`. A synchronization changes lines and movements under their links: `Restated`
says that it disturbs the clauses of no line or movement but the one it adds to
`drifted`, `Unlinked` that one leaves `drifted` only with its last link. Capacities are sums over finite sets, a recursive function: its laws
(`AmountWith`, `AmountWithout`, `AmountOfMatched`) are proved by smallest
counterexample, from the well-foundedness of the naturals.

`Market_proofs`. `NoSaveForgotten`: what is unseen waits in a handler about to ask,
in the slot of the channel, in the due slot of the day, or in a stage of the loop that
still lists (`WillBeListed`). `CoverageStaysHonest`: a request is only made for a range that
touches what was covered (`Fits`), so the union of two honest intervals is an
honest interval, but for the days a provider may have no close for; the coverage read before the answer stays honest while the
answer is under way because series only grow (`SeriesOnlyGrow`, itself a theorem).

Of the shared lookup (`MarketSpec`, in the same module), `Inv` has four parts: the table of lookups and the callers
that lead are one relation (`LookupInv`); a leader has heard "unknown" from exactly
the providers it has passed, while nothing else was said (`Heard` in `OutcomeInv`);
who sends a request holds the provider's slot (`OneRequestEach`); and the types.

`Decisions_proofs`. A pass writes *aside* of what was decided by hand (`Aside`); a
rule reaches the whole group of a transaction not decided by hand or nothing
(`Ruled`); both compose, and the loop over the rules is one of them, by smallest
counterexample over the rules (`RulesInTurn`, `RulesRule`). That gives
`HandDecisionsStand` and, with `Told` for the trail, `EventsTellDecisions`.
`OneOrderOfPrecedence` needs in addition that moments tell categories apart: two
decisions made by hand at one moment are of one category (`Mindful`), or "the one taught last"
would not be a category; and that a transaction not yet there has no decision and
belongs to no group. `RulesGive` is the loop's meaning: the last rule that fires
decides.

`SyncIngest_proofs`. The task list is `Orderly`: any two tasks touch different
records (`Separate`), and the tasks that end a part stand at their place. A record
not stored as the provider showed it is then led to by exactly one task, or a
warning was or will be recorded (`Covered`): this gives `CompletedIsComplete`. The
counters agree with the events up to the counting tasks still in the list
(`Pending`, `Settled`). Every provider read replaces the head of the list by what it
leads to (`ReadsOn`, `Proceeds`), every write takes the head away with its record
(`StoresOn`), and leaving an account out takes a part of the list
(`WithoutPages`, a recursive function; by smallest counterexample).
`CompletedInPlace` is the same argument about the parent instead of the version: a
transaction that moved is refused, and the refusal is a warning before the verdict.

`StatementImport_proofs`. Rows of imported files are never deleted, so a line that is
`Recognized` in an account (stored, matched to a row of the first version, or refused
for its balance) stays so: `RecognizedStays`. `Inv` says that every line of an
imported file is recognized in its account (`ImportsWhole`) and that a confirmation
past its checks stores or recognizes every line (`Fits`), whatever other tabs store
before it does; look-alikes that come and go only change what is *ambiguous*, which
is never new. That a look repeated within a file has as many identities as lines is
a counting argument (`DistinctIdentities`: the copies up to a line are strictly more
than the copies up to an earlier one). `ForcedAreOwn` keeps a line forced by one file
from being taken for another file's. `BalanceOnlyForward` needs of the request only
that its closing figure is that of a line the file proves to be its last.

`Planning_proofs` is about three modules: `Plans` and, through `Timeline`, `Recurrences`.

*Recurrences.* Two facts of the decisions are inductive, because a decision is
written together with the removal of the one it replaces and refused when its
transaction carries another: one per occurrence (`OneDecision`), one per transaction
(`OneCarried`). The first gives `SameOnBothScreens`. `PaymentsRealizeOnce` distinguishes
who picked the payment at either end: twice by hand is `OneCarried`; twice by the rule
means the same month, which has one occurrence (the calendar's lemmas, from
`MonthStarts` to `OccurrenceInMonth`, by smallest counterexample); by hand and by the
rule is excluded because the decision, within reach of every day of its transaction's
month (`PickedNear`), is among those read around any period that meets that month,
wherever it cuts it (`HeldByHand`). Out of reach this is false: section 3.

*Timeline.* `OneBalanceADay`. A curve is anchored at the cash on hand on the reference
day, taken back to the first day of its period, and walks the entries from there. Of two
periods, what the earlier one walks before the later one begins cancels against its
anchor (`WalkedFrom`), so it is enough that the entries from the later first day to the
day asked for, and to the reference day, are the same sets (`SameEntries`). A
transaction dated there is read for both periods: cash because it counts on its own day
(`CashInReach`), a card purchase because of `PurchasesNear` (`PurchasesInReach`); and
occurrences resolve alike because candidates are asked for by whole months
(`SameMonthNear`) and every hand-picked transaction is within reach (`AllPickedNear`,
`SameResolution`). The walked balance is a sum over a finite set of
entries; that sums add over disjoint parts and follow an image is proved by smallest
counterexample (`SumImage`, `TotalUnion`). `Dated` is the one inductive fact: a
transaction stands on a day the provider has told.

*Plans.* `PlanInv` is `Stored` (an allocation is of a payment to an installment the plan
has) with `Called`: what a request in flight has read, stage by stage. `AllocatedStands`
and `PlanExpectsWhatRemains` are about the step that replaces, and follow from what the
request about to take it holds (`Readjusts`): it deletes exactly what nothing it read
realizes, its drafts add up to the balance, and with `redistribuir` they have the months
of what they replace. That the drafts add up is `NoCentLost`, for either way of
splitting. When what was read is still true, the kept installments are the plan's, the
new ones have ids with no rows (an allocation is of an installment that is there, a
fresh id is not one), and what the plan expects is what was reserved plus the balance: what
remains. `AllocationsStand` needs no such premise: it holds whatever others did meanwhile.

`Decisions`' type correctness is an invariant of its own on top of `Inv`: a pass writes
categories there are because rules, labels and memory only name such (`Categorized`),
and a job in its first phase names a rule (`Surroundings`).

Type correctness is proved for every module with a `_proofs` module, but `Timeline`,
which adds no state to `Recurrences`; no run spends its time on `TypeOK`.

Only model-checked: the four liveness properties `EveryRunEnds`,
`EveryOccurrenceHandled`, `HistoryAsked` and `EveryCallReturns`, since liveness under
fairness is outside the prover. Every other property of a passing run is a theorem.
What a recursive function computes for every input (the replay of `Investments`, the
calendar of `Recurrences` day by day) is used through the laws the theorems need and not
otherwise proved.

## 5. Not modelled

* One program instance is assumed by `SyncSchedule`: two instances may both find
  no run for an occurrence.
* In `Obligations`, nothing is claimed of a transaction once two pieces of work, one
  of them taking, met on it (`contested`): the races are listed in section 3.
  A transaction deleted by hand can be linked again (`loadTransaction`).
* In `Investments`, requests of two tabs between the check and the write of
  `UpdateManual`, `DeletePosition` and `DeleteAccount`. A line or movement that a
  synchronization changed under its links is modelled, and excepted from
  `LinksExplain` and `CapacityKept`.
* In `MarketData`, `History` (same limiter, no sharing), Yahoo's lock around the
  exchange rate, symbols and JSON.
* In `Decisions`, the conditions of a rule are the set of names they match: SQL's
  `LOWER` against Go's normalization, accents and case are left out.
* In `StatementImport`, parsing of the bank's formats. A line that one tab forces
  while another, which saw it as new, is still storing is stored under both
  identities; no property claims otherwise.
* In `Plans`, cadences other than the month, and the month's overflow of
  `AddDate` (a 31st steps into the month after a short one).
* In `Recurrences`, edits of a commitment's amount and name, conditions on text
  (no description reaches `EvaluateCondition` for them to match); in `Timeline`, the
  cash on hand is a constant, and categories, comparison of two curves and
  interleaving a read with writes are left out.
* Net worth (arithmetic over balances, one repeatable upsert a day), settings,
  authentication: single statements.
* Nothing below a statement: SQL, isolation anomalies inside one Postgres
  transaction, HTTP, JSON, retries of the adapter, encryption.
* The frontend, start-up flags, DTOs and problem texts.

## 6. What is left

The components that carry the program's logic are modelled, and of what the runs
check only liveness is without a theorem. What could follow, by weight:

1. `Investments` with requests of two tabs interleaved between a check and its write
   (section 5), as `Obligations` has them.
2. Two program instances for the schedule, which may both find no run for an occurrence.
3. Net worth and the queries over transactions: arithmetic without steps, of interest
   only where two screens must agree.
