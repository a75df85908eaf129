----------------------------- MODULE SyncIngest -----------------------------
(***************************************************************************)
(* What one execution of a synchronization run does to the data: the       *)
(* sequence Service.Execute walks through (item, accounts, transaction     *)
(* pages, bills, investments and their movements), every step of which may *)
(* fail, and the transactions it commits.  Runs of one source follow each  *)
(* other; SyncRuns shows that only the owner of a run in progress gets     *)
(* past a fence, so one execution at a time is enough here.                *)
(* (internal/syncsvc/service.go, internal/pluggy/client.go)                *)
(*                                                                         *)
(* todo is the control state of Execute: the tasks still to do, innermost  *)
(* loop first.  A task is one provider read or one database transaction; a *)
(* page pushes a task per record it carries.  A record is its version, the *)
(* digest of its normalized fields.                                        *)
(***************************************************************************)
EXTENDS Naturals, Sequences, FiniteSets, SequencesExt

CONSTANTS
  Accounts,      \* accounts the provider lists
  Credit,        \* those of type CREDIT, which have bills
  Transactions,  \* transactions of any account
  Bills,         \* bills; BillOf[b] is their account
  BillOf,
  Holdings,      \* investments
  Movements,     \* movements; MovementOf[m] is their investment
  MovementOf,
  PageOf,        \* PageOf[t]: the page of its account that lists t
  Pages,         \* pages per account
  FirstPage,     \* accounts and investments on the first page of their list
  NoParent,      \* parent of a record not stored yet
  Volatile,      \* bound: the records the provider changes or relists
  MaxVersion,    \* bound on the provider's versions of a record
  MaxRuns        \* bound on the runs of the source

Children == Transactions \cup Movements
Records == Accounts \cup Children \cup Bills \cup Holdings

\* Rows of different tables; a response lists finitely many.
ASSUME IngestAssumption ==
  /\ IsFiniteSet(Records)
  /\ Accounts \cap (Bills \cup Holdings) = {} /\ Bills \cap Holdings = {}
  /\ Transactions \cap Movements = {}
  /\ Children \cap (Accounts \cup Bills \cup Holdings) = {}
  /\ Credit \subseteq Accounts
  /\ BillOf \in [Bills -> Credit]
  /\ MovementOf \in [Movements -> Holdings]
  /\ Pages \in Nat \ {0} /\ PageOf \in [Transactions -> 1 .. Pages]
  /\ FirstPage \subseteq Accounts \cup Holdings
  /\ Volatile \subseteq Records
  /\ NoParent \notin Records
  /\ MaxVersion \in Nat \ {0}
  /\ MaxRuns \in Nat

Versions == 0 .. MaxVersion
Products == {"ACCOUNTS", "TRANSACTIONS", "INVESTMENTS"}
Verdicts == {"completed", "completed_with_failures", "failed", "interrupted"}
NoPage == 0

VARIABLES
  offer,     \* offer[r]: version of r the provider has
  listed,    \* listed[t]: the account whose pages list transaction t
  row,       \* row[r]: normalized_hash of the stored row, 0 when absent
  parent,    \* parent[c]: account_id / investment_id of the stored row
  hooked,    \* hooked[t]: version the category passes and automation last saw
  run,       \* number of the current run
  status,    \* sync_runs.status of the current run
  products,  \* SafeProducts of the item in hand
  todo,      \* what Execute has left to do
  failed,    \* the run has a sync_failures row
  safe,      \* the run has a normalization event that is not 'rejected'
  counted,   \* transactions and movements inserted + updated
  tallied,   \* accounts_processed + bills_processed + investments_processed
  outcome,   \* outcome[r]: the last event of r in this run
  since      \* history: what the provider had when the run began

providerVars == <<offer, listed>>
dataVars == <<row, parent, hooked>>
runVars == <<run, status, failed, safe, counted, tallied, outcome, since>>
vars == <<providerVars, dataVars, runVars, products, todo>>

Outcomes == {"none", "inserted", "updated", "unchanged", "rejected"}

-----------------------------------------------------------------------------
(* Tasks.  rec, version and page are what the response in memory carries.  *)

Task(op, rec, version, page) == [op |-> op, rec |-> rec, version |-> version, page |-> page]
Read(op, rec, n) == Task(op, rec, 0, n)
Ops == {"item", "name", "accounts", "account", "count", "pages", "transaction",
        "bills", "bill", "investments", "holding", "quotes", "movements", "movement",
        "fail", "reject", "general", "finalize"}

Simple(op) == Task(op, NoParent, 0, NoPage)
\* One task per element of S, in some order.
Each(S, Op(_)) == SetToSeq({Op(x) : x \in S})

TypeOK ==
  /\ offer \in [Records -> Versions]
  /\ listed \in [Transactions -> Accounts]
  /\ row \in [Records -> Versions]
  /\ parent \in [Children -> Accounts \cup Holdings \cup {NoParent}]
  /\ hooked \in [Transactions -> Versions]
  /\ run \in 0 .. MaxRuns
  /\ status \in Verdicts \cup {"none", "in_progress"}
  /\ products \subseteq Products
  /\ \A i \in DOMAIN todo :
       todo[i] \in [op : Ops, rec : Records \cup {NoParent}, version : Versions, page : 0 .. Pages]
  /\ failed \in BOOLEAN /\ safe \in BOOLEAN
  /\ counted \in 0 .. Cardinality(Children)
  /\ tallied \in 0 .. Cardinality(Accounts \cup Bills \cup Holdings)
  /\ outcome \in [Records -> Outcomes]
  /\ since \in [Records -> Versions]

Init ==
  /\ offer = [r \in Records |-> 1]
  /\ listed \in [Transactions -> Accounts]
  /\ row = [r \in Records |-> 0]
  /\ parent = [c \in Children |-> NoParent]
  /\ hooked = [t \in Transactions |-> 0]
  /\ run = 0
  /\ status = "none"
  /\ products = {}
  /\ todo = <<>>
  /\ failed = FALSE /\ safe = FALSE
  /\ counted = 0 /\ tallied = 0
  /\ outcome = [r \in Records |-> "none"]
  /\ since = [r \in Records |-> 0]

-----------------------------------------------------------------------------
(* The provider (external) and the life of the run (SyncRuns) *)

\* Bound: after the last run nobody looks at the provider any more.
Watched == run < MaxRuns \/ todo # <<>>

Change(r) ==
  /\ r \in Volatile
  /\ Watched
  /\ offer[r] < MaxVersion
  /\ offer' = [offer EXCEPT ![r] = @ + 1]
  /\ UNCHANGED <<listed, dataVars, runVars, products, todo>>

\* The provider lists a transaction under another account from now on.
Relist(t, a) ==
  /\ t \in Volatile
  /\ todo = <<>>
  /\ Watched
  /\ listed[t] # a
  /\ listed' = [listed EXCEPT ![t] = a]
  /\ UNCHANGED <<offer, dataVars, runVars, products, todo>>

\* A run is enqueued, claimed and executed.
Begin ==
  /\ status # "in_progress"
  /\ todo = <<>>
  /\ run < MaxRuns
  /\ run' = run + 1
  /\ status' = "in_progress"
  /\ todo' = <<Simple("item")>>
  /\ failed' = FALSE /\ safe' = FALSE
  /\ counted' = 0 /\ tallied' = 0
  /\ outcome' = [r \in Records |-> "none"]
  /\ since' = offer
  /\ products' = {}
  /\ UNCHANGED <<providerVars, dataVars>>

\* recoverRun: the lease expired, whether or not the execution still goes on.
Recover ==
  /\ status = "in_progress"
  /\ status' = "interrupted"
  /\ failed' = TRUE
  /\ UNCHANGED <<providerVars, dataVars, run, since, safe, counted, tallied, outcome, products, todo>>

\* The process dies, or Execute returns an error of a statement it cannot
\* record: the run stays in progress until recovery.
Abandon ==
  /\ todo # <<>>
  /\ todo' = <<>>
  /\ UNCHANGED <<providerVars, dataVars, runVars, products>>

-----------------------------------------------------------------------------
(* Execute: the first task and what follows it *)

First(op) == todo # <<>> /\ Head(todo).op = op
rec == Head(todo).rec
version == Head(todo).version

Goes(tasks) == todo' = tasks \o Tail(todo)

\* beginOwnedTx: the run is in progress and ours.
Owned == status = "in_progress"

\* The claim is lost: every owned step returns ErrClaimLost, and so does each
\* attempt to record it; Execute returns.  A read notices when its response is
\* to be kept (RawImportWriter.Write).
ClaimLost ==
  /\ todo # <<>>
  /\ ~Owned
  /\ todo' = <<>>
  /\ UNCHANGED <<providerVars, dataVars, runVars, products>>

\* A read or a transaction that only moves on.
Moves == UNCHANGED <<providerVars, dataVars, runVars>>

\* Defect: a partially updated item leaves no warning.
GetSourceSilent ==
  /\ First("item") /\ Owned
  /\ \/ \E safeProducts \in SUBSET Products :
          /\ products' = safeProducts
          /\ Goes(<<Simple("name"), Simple("accounts")>>)
     \/ /\ Goes(<<Simple("general")>>)
        /\ UNCHANGED products
  /\ Moves

\* GetSource and interpretItemStatus: every product is safe, or a warning says
\* that only some are (of the three Execute asks for), or the item is unusable.
GetSource ==
  /\ First("item") /\ Owned
  /\ \/ /\ products' = Products
        /\ Goes(<<Simple("name"), Simple("accounts")>>)
     \/ \E safeProducts \in SUBSET Products :
          /\ products' = safeProducts
          /\ Goes(<<Simple("name"), Simple("fail"), Simple("accounts")>>)
     \/ /\ Goes(<<Simple("general")>>)
        /\ UNCHANGED products
  /\ Moves

\* updateSourceName.
UpdateSourceName ==
  /\ First("name") /\ Owned
  /\ Goes(<<>>)
  /\ Moves /\ UNCHANGED products

Account(a) == Task("account", a, offer[a], NoPage)
Rejection(x) == Task("reject", x, 0, NoPage)

\* GetAccounts asks for the first page of /accounts and reads neither its page
\* nor its totalPages; an account the mapping rejects is only recorded as such.
GetAccounts ==
  /\ First("accounts") /\ Owned
  /\ \/ /\ "ACCOUNTS" \in products
        /\ \E bad \in SUBSET (Accounts \cap FirstPage) :
             Goes(Each(bad, Rejection) \o Each((Accounts \cap FirstPage) \ bad, Account)
                  \o <<Simple("investments"), Simple("finalize")>>)
     \/ Goes(<<Simple("general")>>)
  /\ Moves /\ UNCHANGED products

\* The event of a record of the version in hand, and the row it leaves.
Upserted(r, v) ==
  /\ row' = [row EXCEPT ![r] = v]
  /\ outcome' = [outcome EXCEPT ![r] = IF row[r] = 0 THEN "inserted"
                                       ELSE IF row[r] # v THEN "updated"
                                       ELSE "unchanged"]
  /\ safe' = TRUE

\* What Execute does with an account that is stored: its transactions, when
\* they are safe to read, and the bills of a credit card.
AfterAccount(a) ==
  IF "TRANSACTIONS" \in products
  THEN <<Read("count", a, NoPage), Read("pages", a, 1)>>
       \o (IF a \in Credit THEN <<Read("bills", a, NoPage)>> ELSE <<>>)
  ELSE <<>>

\* upsertAccount: a database error skips the account and is recorded.
UpsertAccount ==
  /\ First("account") /\ Owned
  /\ \/ /\ Upserted(rec, version)
        /\ Goes(AfterAccount(rec))
        /\ UNCHANGED <<providerVars, parent, hooked, run, since, status, failed, counted, tallied, products>>
     \/ /\ Goes(<<Simple("fail")>>)
        /\ Moves /\ UNCHANGED products

\* increment{Accounts,Bills,Investments}Processed.
CountProcessed ==
  /\ First("count") /\ Owned
  /\ tallied' = tallied + 1
  /\ Goes(<<>>)
  /\ UNCHANGED <<providerVars, dataVars, run, since, status, failed, safe, counted, outcome, products>>

\* One response of IterTransactionPages: a read, mapping or pagination error
\* (a repeated cursor, too many pages) ends the account's pages.
ReadPage ==
  LET n == Head(todo).page
      here == {t \in Transactions : listed[t] = rec /\ PageOf[t] = n}
      Transaction(t) == Task("transaction", t, offer[t], n)
      Bad(t) == Task("reject", t, 0, n)
      more == IF n < Pages THEN <<Read("pages", rec, n + 1)>> ELSE <<>>
      broken == <<Read("fail", NoParent, n)>>
  IN /\ First("pages") /\ Owned
     /\ \/ \E bad \in SUBSET here, after \in {more, broken} :
             Goes(Each(bad, Bad) \o Each(here \ bad, Transaction) \o after)
        \/ Goes(<<Simple("fail")>>)
     /\ Moves /\ UNCHANGED products

\* Defect: the row is committed although automation failed on it.
UpsertTransactionSplit ==
  /\ First("transaction") /\ Owned
  /\ parent[rec] \in {NoParent, listed[rec]}
  /\ Upserted(rec, version)
  /\ parent' = [parent EXCEPT ![rec] = listed[rec]]
  /\ counted' = IF row[rec] # version THEN counted + 1 ELSE counted
  /\ \/ hooked' = [hooked EXCEPT ![rec] = version] /\ Goes(<<>>)
     \/ UNCHANGED hooked /\ Goes(<<Task("reject", rec, 0, Head(todo).page)>>)
  /\ UNCHANGED <<providerVars, run, since, status, failed, tallied, products>>

\* Defect: a record of another account is merged into the row it finds.
UpsertTransactionMerging ==
  /\ First("transaction") /\ Owned
  /\ \/ /\ Upserted(rec, version)
        /\ parent' = IF row[rec] = 0 THEN [parent EXCEPT ![rec] = listed[rec]] ELSE parent
        /\ hooked' = IF row[rec] # version THEN [hooked EXCEPT ![rec] = version] ELSE hooked
        /\ counted' = IF row[rec] # version THEN counted + 1 ELSE counted
        /\ Goes(<<>>)
        /\ UNCHANGED <<providerVars, run, since, status, failed, tallied, products>>
     \/ /\ Goes(<<Task("reject", rec, 0, Head(todo).page)>>)
        /\ Moves /\ UNCHANGED products

\* upsertTransaction: row, event, counter, category passes and automation commit
\* together or not at all; a record of another account is refused.
UpsertTransaction ==
  /\ First("transaction") /\ Owned
  /\ \/ /\ parent[rec] \in {NoParent, listed[rec]}
        /\ Upserted(rec, version)
        /\ parent' = [parent EXCEPT ![rec] = listed[rec]]
        /\ hooked' = IF row[rec] # version THEN [hooked EXCEPT ![rec] = version] ELSE hooked
        /\ counted' = IF row[rec] # version THEN counted + 1 ELSE counted
        /\ Goes(<<>>)
        /\ UNCHANGED <<providerVars, run, since, status, failed, tallied, products>>
     \/ /\ Goes(<<Task("reject", rec, 0, Head(todo).page)>>)
        /\ Moves /\ UNCHANGED products

\* GetBills collects every page before any bill is stored.
GetBills ==
  LET mine == {b \in Bills : BillOf[b] = rec}
      Bill(b) == Task("bill", b, offer[b], NoPage)
  IN /\ First("bills") /\ Owned
     /\ \/ \E bad \in SUBSET mine : Goes(Each(bad, Rejection) \o Each(mine \ bad, Bill))
        \/ Goes(<<Simple("fail")>>)
     /\ Moves /\ UNCHANGED products

\* Defect: a bill that could not be stored is counted all the same.
UpsertBillCounted ==
  /\ First("bill") /\ Owned
  /\ \/ /\ Upserted(rec, version)
        /\ Goes(<<Read("count", rec, NoPage)>>)
        /\ UNCHANGED <<providerVars, parent, hooked, run, since, status, failed, counted, tallied, products>>
     \/ /\ Goes(<<Rejection(rec), Read("count", rec, NoPage)>>)
        /\ Moves /\ UNCHANGED products

\* upsertBill.
UpsertBill ==
  /\ First("bill") /\ Owned
  /\ \/ /\ Upserted(rec, version)
        /\ Goes(<<Read("count", rec, NoPage)>>)
        /\ UNCHANGED <<providerVars, parent, hooked, run, since, status, failed, counted, tallied, products>>
     \/ /\ Goes(<<Rejection(rec)>>)
        /\ Moves /\ UNCHANGED products

\* processInvestments: the first page of /investments, whatever totalPages says.
GetInvestments ==
  LET Holding(h) == Task("holding", h, offer[h], NoPage)
  IN /\ First("investments") /\ Owned
     /\ \/ "INVESTMENTS" \notin products /\ Goes(<<>>)
        \/ /\ "INVESTMENTS" \in products
           /\ \/ \E bad \in SUBSET (Holdings \cap FirstPage) :
                   Goes(Each(bad, Rejection) \o Each((Holdings \cap FirstPage) \ bad, Holding))
              \/ Goes(<<Simple("fail")>>)
     /\ Moves /\ UNCHANGED products

\* upsertInvestment, then its counter, its quotes and its movements.
UpsertInvestment ==
  /\ First("holding") /\ Owned
  /\ \/ /\ Upserted(rec, version)
        /\ Goes(<<Read("count", rec, NoPage), Read("quotes", rec, NoPage), Read("movements", rec, NoPage)>>)
        /\ UNCHANGED <<providerVars, parent, hooked, run, since, status, failed, counted, tallied, products>>
     \/ /\ Goes(<<Simple("fail")>>)
        /\ Moves /\ UNCHANGED products

\* recordSyncedQuotes: recorded or not, the run goes on and does not mention it.
RecordSyncedQuotes ==
  /\ First("quotes") /\ Owned
  /\ Goes(<<>>)
  /\ Moves /\ UNCHANGED products

\* GetInvestmentTransactions collects every page first.
GetMovements ==
  LET mine == {m \in Movements : MovementOf[m] = rec}
      Movement(m) == Task("movement", m, offer[m], NoPage)
  IN /\ First("movements") /\ Owned
     /\ \/ \E bad \in SUBSET mine : Goes(Each(bad, Rejection) \o Each(mine \ bad, Movement))
        \/ Goes(<<Simple("fail")>>)
     /\ Moves /\ UNCHANGED products

\* upsertInvestmentTransaction.
UpsertMovement ==
  /\ First("movement") /\ Owned
  /\ \/ /\ parent[rec] \in {NoParent, MovementOf[rec]}
        /\ Upserted(rec, version)
        /\ parent' = [parent EXCEPT ![rec] = MovementOf[rec]]
        /\ counted' = IF row[rec] # version THEN counted + 1 ELSE counted
        /\ Goes(<<>>)
        /\ UNCHANGED <<providerVars, hooked, run, since, status, failed, tallied, products>>
     \/ /\ Goes(<<Rejection(rec)>>)
        /\ Moves /\ UNCHANGED products

\* record{,Investment,Bill}Failure.
RecordFailure ==
  /\ First("fail") /\ Owned
  /\ failed' = TRUE
  /\ Goes(<<>>)
  /\ UNCHANGED <<providerVars, dataVars, run, since, status, safe, counted, tallied, outcome, products>>

\* What is left after a page's handler returned an error: Execute records one
\* failure for the account and goes on behind its pages.
WithoutPages ==
  LET kept[n \in 1 .. Len(todo)] ==
        IF n = 1 THEN <<>>
        ELSE IF todo[n].page = NoPage THEN Append(kept[n - 1], todo[n])
        ELSE kept[n - 1]
  IN kept[Len(todo)]

\* record{,Investment,Bill}Rejection: an event and a failure, or nothing; inside
\* a page the error is the handler's and costs the account its other pages.
RecordRejection ==
  /\ First("reject") /\ Owned
  /\ \/ /\ failed' = TRUE
        /\ outcome' = IF rec \in Records THEN [outcome EXCEPT ![rec] = "rejected"] ELSE outcome
        /\ Goes(<<>>)
        /\ UNCHANGED <<providerVars, dataVars, run, since, status, safe, counted, tallied, products>>
     \/ /\ Head(todo).page # NoPage
        /\ todo' = <<Simple("fail")>> \o WithoutPages
        /\ Moves /\ UNCHANGED products

\* failGeneral.
FailGeneral ==
  /\ First("general") /\ Owned
  /\ status' = "failed"
  /\ failed' = TRUE
  /\ todo' = <<>>
  /\ UNCHANGED <<providerVars, dataVars, run, since, safe, counted, tallied, outcome, products>>

\* selectFinalStatus.
FinalStatus ==
  IF ~failed THEN "completed"
  ELSE IF safe THEN "completed_with_failures"
  ELSE "failed"

\* finalize.
Finalize ==
  /\ First("finalize") /\ Owned
  /\ status' = FinalStatus
  /\ todo' = <<>>
  /\ UNCHANGED <<providerVars, dataVars, run, since, failed, safe, counted, tallied, outcome, products>>

Next ==
  \/ \E r \in Records : Change(r)
  \/ \E t \in Transactions, a \in Accounts : Relist(t, a)
  \/ Begin \/ Recover \/ Abandon \/ ClaimLost
  \/ GetSource \/ UpdateSourceName \/ GetAccounts \/ UpsertAccount \/ CountProcessed
  \/ ReadPage \/ UpsertTransaction \/ GetBills \/ UpsertBill
  \/ GetInvestments \/ UpsertInvestment \/ RecordSyncedQuotes \/ GetMovements \/ UpsertMovement
  \/ RecordFailure \/ RecordRejection \/ FailGeneral \/ Finalize

Spec == Init /\ [][Next]_vars

-----------------------------------------------------------------------------
(* Properties *)

Parents == Accounts \cup Bills \cup Holdings
Stored(r) == outcome[r] \in {"inserted", "updated", "unchanged"}

\* What the code can reach: the first pages and what hangs on them.
Reached(r) ==
  \/ r \in FirstPage
  \/ r \in Transactions /\ listed[r] \in FirstPage
  \/ r \in Bills /\ BillOf[r] \in FirstPage
  \/ r \in Movements /\ MovementOf[r] \in FirstPage

\* "completed" is the promise that nothing is missing: whatever products were
\* partial, pages failed or records were refused on the way, every record under
\* the first pages of /accounts and /investments was stored by this run, at a
\* version no older than the one it had when the run began (selectFinalStatus,
\* service.go:52).  Of the other pages it promises nothing: GetAccounts and
\* GetInvestments do not notice them (client.go:330-357).
CompletedMeansStored ==
  [][status = "in_progress" /\ status' = "completed" =>
       \A r \in Records : Reached(r) => Stored(r) /\ row[r] >= since[r]]_vars

\* A run that completes leaves every transaction it stored under the account that
\* lists it: one that the provider moved is refused, and the refusal shows in the
\* status (errAccountMismatch, service.go:616).
CompletedMeansPlaced ==
  [][status = "in_progress" /\ status' = "completed" =>
       \A t \in Transactions : Stored(t) => parent[t] = listed[t]]_vars

\* A stored hash means the record was processed: automation saw exactly the
\* version that is stored, so a failed record is retried by the next
\* synchronization ("making resync retry it", service.go:629).
HookFollowsRow == \A t \in Transactions : hooked[t] = row[t]

\* What a run that was finalized reports is what it stored: every bill, every
\* investment and every account whose transactions it went on to read was counted
\* once, in a transaction of its own behind the record's, and every record that
\* was not stored was not (increment*Processed, service.go:587).
CountersAgree ==
  status \in {"completed", "completed_with_failures"} =>
    /\ tallied = Cardinality({r \in Parents : Stored(r) /\ (r \in Accounts => "TRANSACTIONS" \in products)})
    /\ counted = Cardinality({c \in Children : outcome[c] \in {"inserted", "updated"}})
=============================================================================
