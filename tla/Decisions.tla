------------------------------ MODULE Decisions ------------------------------
(***************************************************************************)
(* Which category a transaction has, and who said so: the user, an         *)
(* automation rule, the memory of what the user said before, or a mapping  *)
(* of the provider's own label (packages categories, automation, ledger).  *)
(*                                                                         *)
(* A transaction is what the four of them look at: its name (description   *)
(* and direction, the installment suffix dropped), the card purchase it is *)
(* an installment of, and the labels the automatic passes recognize.  What *)
(* a rule's conditions match is the set of names they match.  The ignore   *)
(* action only ends the evaluation here; what it does to the inclusion     *)
(* decision and to the payables is the subject of Obligations.             *)
(***************************************************************************)
EXTENDS Naturals, FiniteSetsExt

CONSTANTS
  Transactions,  \* ids of financial_transactions
  Names, Purchases, Categories,
  Keys,          \* idempotency keys of the requests that create by hand
  None,
  Provided,      \* Provided[t]: what a provider may send as t
  RuleForms,     \* the contents a rule may be given
  Autos,         \* Autos[label]: the category an automatic pass writes
  MaxRules,      \* rules ever created, and
  MaxRequests    \* requests of the user: the bounds of the model

Labels == {"card", "source"}
Content == [name : Names, purchase : Purchases \cup {None}, labels : SUBSET Labels]
Binding == [name : Names, cat : Categories \cup {None}, tx : Transactions]
Rule == [names : SUBSET Names, cat : Categories \cup {None}, ignore : BOOLEAN, active : BOOLEAN]

ASSUME DecisionsAssumption ==
  /\ None \notin Names \cup Purchases \cup Categories \cup Keys \cup Binding
  /\ Provided \in [Transactions -> SUBSET Content]
  /\ Autos \in [Labels -> Categories]
  /\ RuleForms \subseteq Rule
  /\ {MaxRules, MaxRequests} \subseteq Nat

VARIABLES
  row,      \* financial_transactions
  dec,      \* transaction_category_decisions
  trail,    \* trail[t]: the last of its transaction_category_events
  taught,   \* taught[t]: when t was decided by hand (changed_at), 0 if it was not
  active,   \* the categories with is_active = 1
  rules,    \* automation_rules, numbered in creation order
  created,  \* how many rules were ever created
  bound,    \* manual_transaction_idempotency
  job,      \* a request applying a rule retroactively
  requests, \* how many requests the user made
  boot      \* the automatic passes of the running binary, and its backfill

books == <<row, dec, trail, taught>>
vars == <<row, dec, trail, taught, active, rules, created, bound, job, requests, boot>>

Origins == {"none", "automatic", "learned", "rule", "manual"}
Undecided == [cat |-> None, origin |-> "none"]
NoRow == [state |-> "none", origin |-> "none", name |-> None, purchase |-> None,
          labels |-> {}, key |-> None]
NoRule == [names |-> {}, cat |-> None, ignore |-> FALSE, active |-> FALSE]
Idle == [phase |-> "idle", rule |-> 0, form |-> NoRule, todo |-> {}, now |-> None]

TypeOK ==
  /\ row \in [Transactions -> [state : {"none", "live", "deleted"},
        origin : {"none", "synced", "manual"}, name : Names \cup {None},
        purchase : Purchases \cup {None}, labels : SUBSET Labels, key : Keys \cup {None}]]
  /\ {dec, trail} \subseteq [Transactions -> [cat : Categories \cup {None}, origin : Origins]]
  /\ taught \in [Transactions -> 0..requests]
  /\ active \subseteq Categories
  /\ rules \in [1..MaxRules -> Rule]
  /\ created \in 0..MaxRules /\ requests \in 0..MaxRequests
  /\ bound \in [Keys -> Binding \cup {None}]
  /\ job.phase \in {"idle", "rule", "candidates", "apply", "ignore"}
  /\ boot.known \subseteq Labels /\ boot.passes \subseteq Labels

Init ==
  /\ row = [t \in Transactions |-> NoRow]
  /\ dec = [t \in Transactions |-> Undecided]
  /\ trail = dec
  /\ taught = [t \in Transactions |-> 0]
  /\ active = Categories
  /\ rules = [i \in 1..MaxRules |-> NoRule] /\ created = 0
  /\ bound = [k \in Keys |-> None]
  /\ job = Idle /\ requests = 0
  /\ boot \in [known : {{}, Labels}, passes : {{}}, event : {None}]

-----------------------------------------------------------------------------
(* What one database transaction makes of the books *)

Books == [row |-> row, dec |-> dec, trail |-> trail, taught |-> taught]
Becomes(b) == row' = b.row /\ dec' = b.dec /\ trail' = b.trail /\ taught' = b.taught

\* findInstallmentGroup: the transaction and its siblings, deleted or not.
Group(b, t) ==
  {t} \cup {u \in Transactions : /\ b.row[t].purchase # None
                                 /\ b.row[u].purchase = b.row[t].purchase
                                 /\ b.row[u].name = b.row[t].name}

\* Defect: a promotion of the origin alone is not told.
SilentPromotion(b, S, c, origin) ==
  [b EXCEPT !.dec = [u \in Transactions |->
                       IF u \in S THEN [cat |-> c, origin |-> origin] ELSE @[u]],
            !.trail = [u \in Transactions |-> IF u \in S /\ b.dec[u].cat # c
                       THEN [cat |-> c, origin |-> origin] ELSE @[u]]]

\* A moment after everything the user taught so far.
Now(f) == 1 + Max({0} \cup {f[u] : u \in Transactions})

\* What is written by hand is what the user taught last; what anybody else
\* writes the user did not teach.
Remembered(f, W, origin) ==
  [u \in Transactions |-> IF u \notin W THEN f[u]
                          ELSE IF origin = "manual" THEN Now(f) ELSE 0]

\* writeDecision for each transaction of S: nothing where nothing changes,
\* the decision and its event where the category or the origin does.
WriteDecision(b, S, c, origin) ==
  LET W == {u \in S : b.dec[u] # [cat |-> c, origin |-> origin]}
      Written(f) == [u \in Transactions |->
                       IF u \in W THEN [cat |-> c, origin |-> origin] ELSE f[u]]
  IN [row |-> b.row, dec |-> Written(b.dec), trail |-> Written(b.trail),
      taught |-> Remembered(b.taught, W, origin)]

Live(b, t) == b.row[t].state = "live"

\* AssignManualWithQuerier, past its two refusals.
AssignManual(b, t, c) == WriteDecision(b, Group(b, t), c, "manual")

\* Defect: the origin of what is there is not looked at.
ApplyRuleAnyway(b, t, c) == WriteDecision(b, Group(b, t), c, "rule")

\* ApplyRuleWithQuerier, past its two refusals: only the decision of the
\* transaction it was asked for is looked at.
ApplyRule(b, t, c) ==
  IF b.dec[t].origin = "manual" THEN b ELSE WriteDecision(b, Group(b, t), c, "rule")

\* learnedCategoryFor: the hand-made decisions it may learn from ...
References(b, t) ==
  {u \in Transactions \ {t} : /\ Live(b, u) /\ b.row[u].name = b.row[t].name
                              /\ b.dec[u].origin = "manual" /\ b.dec[u].cat \in active}

\* ... and the one it does learn from; the siblings of one request agree.
Newest(b, S) == CHOOSE u \in S : \A v \in S : b.taught[v] <= b.taught[u]

\* Defect: an automatic decision is kept.
LearnableUndecided(b, t) == b.dec[t].origin = "none"
Learnable(b, t) == b.dec[t].origin \in {"none", "automatic"}

\* ApplyLearned: the latest reference, for every installment it may touch.
ApplyLearned(b, t) ==
  IF ~Learnable(b, t) \/ References(b, t) = {} THEN b
  ELSE WriteDecision(b, {u \in Group(b, t) : Learnable(b, u)},
                     b.dec[Newest(b, References(b, t))].cat, "learned")

\* ApplyAutomatic: only where nobody decided.
ApplyAutomatic(b, t, label) ==
  IF label \in b.row[t].labels \cap boot.known /\ b.dec[t].origin = "none"
  THEN WriteDecision(b, {t}, Autos[label], "automatic") ELSE b

\* ApplyAutomaticCardPayment goes first: the more specific pass wins.
ApplyAutomaticPasses(b, t) == ApplyAutomatic(ApplyAutomatic(b, t, "card"), t, "source")

\* Write.Validate: a rule has a condition and an action; one that neither
\* categorizes nor ignores only reconciles.
Valid(form) == form.names # {} /\ form.cat \in Categories \cup {None}

\* Rules are numbered in creation order, the order they are listed in.
ListActive == {i \in 1..MaxRules : rules[i].active}

Matches(form, name) == name \in form.names

\* isReconcileOnlyRule.
ReconcileOnly(form) == form.cat = None /\ ~form.ignore

Matching(name) == {i \in ListActive : ~ReconcileOnly(rules[i]) /\ Matches(rules[i], name)}

\* Those ApplyToNewTransaction comes to: it ends with the first that ignores.
Firing(name) == {i \in Matching(name) : \A j \in Matching(name) : j < i => ~rules[j].ignore}

\* ErrCategoryInvalid of one of them fails the whole transaction.
RulesApply(name) == \A i \in Firing(name) : rules[i].cat \in active \cup {None}

\* The books after each rule in turn, from the first to the n-th.
AfterRules(b, t) ==
  LET categorizes(i) == i \in Firing(b.row[t].name) /\ rules[i].cat # None
      after[n \in 0..MaxRules] ==
        IF n = 0 THEN b
        ELSE IF categorizes(n) THEN ApplyRule(after[n - 1], t, rules[n].cat)
        ELSE after[n - 1]
  IN after

ApplyToNewTransaction(b, t) == AfterRules(b, t)[MaxRules]

Serving == boot.passes = {} /\ boot.event = None

\* One more request while the program serves.
Request == Serving /\ requests < MaxRequests /\ requests' = requests + 1
-----------------------------------------------------------------------------
(* Synchronization (syncsvc.upsertTransaction, past the row itself) *)

Stored(t, content) == [state |-> "live", origin |-> "synced", name |-> content.name,
  purchase |-> content.purchase, labels |-> content.labels, key |-> None]

\* A transaction seen for the first time: the passes, then the rules.
InsertSynced(t) == \E content \in Provided[t] :
  LET inserted == [Books EXCEPT !.row[t] = Stored(t, content)]
      learned == ApplyLearned(ApplyAutomaticPasses(inserted, t), t)
      decided == ApplyToNewTransaction(learned, t)
  IN /\ Serving /\ row[t].state = "none"
     /\ RulesApply(content.name)
     /\ Becomes(decided)
     /\ UNCHANGED <<active, rules, created, bound, job, requests, boot>>

\* Sent again with other content: only the rules run.
UpdateSynced(t) == \E content \in Provided[t] :
  LET decided == ApplyToNewTransaction([Books EXCEPT !.row[t] = Stored(t, content)], t)
  IN /\ Serving /\ row[t].origin = "synced" /\ row[t] # Stored(t, content)
     /\ RulesApply(content.name)
     /\ Becomes(decided)
     /\ UNCHANGED <<active, rules, created, bound, job, requests, boot>>

-----------------------------------------------------------------------------
(* Requests of the user *)

\* handleSetTransactionCategory.
SetCategory(t, c) ==
  /\ Request /\ Live(Books, t) /\ c \in active
  /\ Becomes(AssignManual(Books, t, c))
  /\ UNCHANGED <<active, rules, created, bound, job, boot>>

\* ledger.ApplyNewTransactionDecisions: an explicit category comes last.
NewDecisions(b, t, c) ==
  IF c = None THEN ApplyToNewTransaction(ApplyLearned(b, t), t)
  ELSE AssignManual(ApplyToNewTransaction(b, t), t, c)

\* Defect: ON CONFLICT is not looked at.
ReservedAlways(k) == TRUE

\* The reservation: the key is new, or there is none.  A known key answers
\* with what it is bound to, or 409, and writes nothing.
Reserved(k) == k \in Keys => bound[k] = None

\* transactions.CreateManual: the row alone.
Entered(name, k) == [state |-> "live", origin |-> "manual", name |-> name,
                     purchase |-> None, labels |-> {}, key |-> k]

\* CreateManualIdempotent: key, row and decisions commit together.
CreateManual(t, k, name, c) ==
  LET inserted == [Books EXCEPT !.row[t] = Entered(name, k)]
      decided == NewDecisions(inserted, t, c)
  IN /\ Request /\ row[t].state = "none" /\ Provided[t] = {}
     /\ Reserved(k)
     /\ RulesApply(name) /\ c \in active \cup {None}
     /\ Becomes(decided)
     /\ bound' = IF k = None THEN bound
                 ELSE [bound EXCEPT ![k] = [name |-> name, cat |-> c, tx |-> t]]
     /\ UNCHANGED <<active, rules, created, job, boot>>

\* requireManual.
ByHand(t) == Live(Books, t) /\ row[t].origin = "manual"

\* transactions.UpdateManual: the core fields.
Renamed(t, name) == [Books EXCEPT !.row[t].name = name]

\* ledger.UpdateManual: no pass and no rule runs again.
UpdateManual(t, name, c) ==
  LET decided == IF c = None THEN Renamed(t, name) ELSE AssignManual(Renamed(t, name), t, c)
  IN /\ Request /\ ByHand(t)
     /\ c \in active \cup {None}
     /\ Becomes(decided)
     /\ UNCHANGED <<active, rules, created, bound, job, boot>>

DeleteManual(t) ==
  /\ Request /\ ByHand(t)
  /\ row' = [row EXCEPT ![t].state = "deleted"]
  /\ UNCHANGED <<dec, trail, taught, active, rules, created, bound, job, boot>>

\* handleUpdateCategory with is_active: the rules that name it stay as they are.
UpdateCategory(c) ==
  /\ Request
  /\ active' = IF c \in active THEN active \ {c} ELSE active \cup {c}
  /\ UNCHANGED <<books, rules, created, bound, job, boot>>

\* What is left of the request once the rule is committed.
ThenApply(i, retroactively) ==
  IF retroactively /\ ~ReconcileOnly(rules'[i])
  THEN job = Idle /\ job' = [Idle EXCEPT !.phase = "rule", !.rule = i]
  ELSE job' = job

CreateRule(form, retroactively) ==
  /\ Request /\ Valid(form) /\ created < MaxRules
  /\ created' = created + 1
  /\ rules' = [rules EXCEPT ![created + 1] = form]
  /\ ThenApply(created + 1, retroactively)
  /\ UNCHANGED <<books, active, bound, boot>>

UpdateRule(i, form, retroactively) ==
  /\ Request /\ Valid(form) /\ rules[i] # NoRule
  /\ rules' = [rules EXCEPT ![i] = form]
  /\ ThenApply(i, retroactively)
  /\ UNCHANGED <<books, active, created, bound, boot>>

SetRuleActive(i) ==
  /\ Request /\ rules[i] # NoRule
  /\ rules' = [rules EXCEPT ![i].active = ~@]
  /\ UNCHANGED <<books, active, created, bound, job, boot>>

DeleteRule(i) ==
  /\ Request /\ rules[i] # NoRule
  /\ rules' = [rules EXCEPT ![i] = NoRule]
  /\ UNCHANGED <<books, active, created, bound, job, boot>>

-----------------------------------------------------------------------------
(* ApplyRetroactively: what it read, then one transaction per candidate *)

\* The rule is read again; unknown by now, there is nothing to do.
ReadRule ==
  /\ Serving /\ job.phase = "rule"
  /\ job' = IF rules[job.rule] = NoRule THEN Idle
            ELSE [job EXCEPT !.phase = "candidates", !.form = rules[job.rule]]
  /\ UNCHANGED <<books, active, rules, created, bound, requests, boot>>

\* Every transaction that is there, matched in memory; active or not, the
\* rule applies.
ReadCandidates ==
  LET found == {t \in Transactions : Live(Books, t) /\ Matches(job.form, row[t].name)} IN
  /\ Serving /\ job.phase = "candidates"
  /\ job' = IF found = {} THEN Idle ELSE [job EXCEPT !.phase = "apply", !.todo = found]
  /\ UNCHANGED <<books, active, rules, created, bound, requests, boot>>

After(todo) == IF todo = {} THEN Idle ELSE [job EXCEPT !.phase = "apply", !.todo = todo, !.now = None]

\* categories.ApplyRule in a transaction of its own; a refusal ends the
\* request, and what it did before stands.
ApplyToCandidate(t) ==
  LET refused == job.form.cat # None /\ (~Live(Books, t) \/ job.form.cat \notin active)
      decided == IF job.form.cat = None \/ refused THEN Books
                 ELSE ApplyRule(Books, t, job.form.cat)
  IN /\ Serving /\ job.phase = "apply" /\ t \in job.todo
     /\ Becomes(decided)
     /\ job' = CASE refused -> Idle
                 [] ~refused /\ job.form.ignore -> [job EXCEPT !.phase = "ignore", !.now = t]
                 [] OTHER -> After(job.todo \ {t})
     /\ UNCHANGED <<active, rules, created, bound, requests, boot>>

\* transactions.SetInclusion, outside of that transaction.
IgnoreCandidate ==
  /\ Serving /\ job.phase = "ignore"
  /\ job' = IF Live(Books, job.now) THEN After(job.todo \ {job.now}) ELSE Idle
  /\ UNCHANGED <<books, active, rules, created, bound, requests, boot>>

-----------------------------------------------------------------------------
(* The process stops, and a binary that knows every pass starts *)

Restart ==
  /\ job' = Idle
  /\ boot' = [known |-> Labels, passes |-> Labels, event |-> None]
  /\ UNCHANGED <<books, active, rules, created, bound, requests>>

\* The rows of one pass, read before any is written; deleted ones too for
\* the mapping of labels, never for the card payments.
Uncategorized(label) ==
  {t \in Transactions : /\ label \in row[t].labels /\ dec[t].origin = "none"
                        /\ row[t].state # "none" /\ (label = "card" => Live(Books, t))}

Pass == IF "source" \in boot.passes THEN "source" ELSE "card"

\* BackfillAutomatic, BackfillAutomaticCardPayment: writeDecision on the bare
\* connection, the decision first ...
BackfillDecision(t) ==
  /\ boot.passes # {} /\ boot.event = None /\ t \in Uncategorized(Pass)
  /\ dec' = [dec EXCEPT ![t] = [cat |-> Autos[Pass], origin |-> "automatic"]]
  /\ boot' = [boot EXCEPT !.event = t]
  /\ UNCHANGED <<row, trail, taught, active, rules, created, bound, job, requests>>

\* ... and its event after it.
BackfillEvent ==
  /\ boot.event # None
  /\ trail' = [trail EXCEPT ![boot.event] = dec[boot.event]]
  /\ boot' = [boot EXCEPT !.event = None]
  /\ UNCHANGED <<row, dec, taught, active, rules, created, bound, job, requests>>

\* A pass with nothing left, or one that failed: logged, and on it goes.
BackfillDone ==
  /\ boot.passes # {} /\ boot.event = None
  /\ boot' = [boot EXCEPT !.passes = @ \ {Pass}]
  /\ UNCHANGED <<books, active, rules, created, bound, job, requests>>

-----------------------------------------------------------------------------
ManualRequests(t) ==
  \/ DeleteManual(t)
  \/ \E name \in Names, c \in Categories \cup {None} :
        \/ UpdateManual(t, name, c)
        \/ \E k \in Keys \cup {None} : CreateManual(t, k, name, c)

RuleRequests ==
  \/ \E form \in RuleForms, retroactively \in BOOLEAN :
        \/ CreateRule(form, retroactively)
        \/ \E i \in 1..MaxRules : UpdateRule(i, form, retroactively)
  \/ \E i \in 1..MaxRules : SetRuleActive(i) \/ DeleteRule(i)

ApplyRetroactively ==
  \/ ReadRule \/ ReadCandidates \/ IgnoreCandidate
  \/ \E t \in Transactions : ApplyToCandidate(t)

Backfill == BackfillEvent \/ BackfillDone \/ \E t \in Transactions : BackfillDecision(t)

Next ==
  \/ \E t \in Transactions :
        \/ InsertSynced(t) \/ UpdateSynced(t) \/ ManualRequests(t)
        \/ \E c \in Categories : SetCategory(t, c)
  \/ \E c \in Categories : UpdateCategory(c)
  \/ RuleRequests \/ ApplyRetroactively \/ Restart \/ Backfill

Spec == Init /\ [][Next]_vars
-----------------------------------------------------------------------------
(* Properties *)

\* What the user decided only the user changes, resynchronizations and
\* retroactive rules included; except that a rule reaching an installment
\* nobody decided by hand takes its siblings along (ApplyRule's group).
ManualStands == [][\A t \in Transactions :
  dec[t].origin = "manual" /\ dec'[t] # dec[t] =>
    \/ dec'[t].origin = "manual"
    \/ \E u \in Group(Books, t)' : dec[u].origin # "manual" /\ dec'[u].origin = "rule"]_vars

\* The last append-only event says what the decision says, whatever order the
\* passes, rules and requests came in; only an automatic decision can be
\* without its event, and any later one has its own.
TrailTells == \A t \in Transactions :
  \/ trail[t] = dec[t]
  \/ dec[t].origin = "automatic" /\ trail[t] = Undecided

\* What a new transaction is given, said without the order of the passes:
\* the last rule that reaches it, or what the user taught last, or a label.
TaughtBy(t, name) ==
  {u \in Transactions \ {t} : /\ Live(Books, u) /\ row[u].name = name
                              /\ dec[u].origin = "manual" /\ dec[u].cat \in active}
Latest(S) == CHOOSE u \in S : \A v \in S : taught[v] <= taught[u]
Expected(t, name, labels) ==
  LET fired == {i \in Firing(name) : rules[i].cat # None}
      teachers == TaughtBy(t, name)
  IN CASE fired # {} -> <<"rule", rules[Max(fired)].cat>>
       [] fired = {} /\ teachers # {} -> <<"learned", dec[Latest(teachers)].cat>>
       [] fired = {} /\ teachers = {} /\ "card" \in labels -> <<"automatic", Autos["card"]>>
       [] fired = {} /\ teachers = {} /\ labels = {"source"} -> <<"automatic", Autos["source"]>>
       [] OTHER -> <<"none", None>>

\* manual > rule > learned > automatic (service.go:744, ledger/decisions.go)
\* for every transaction that comes in, whatever the rules and the memory are.
Precedence == [][\A t \in Transactions : row[t].state = "none" /\ row'[t].state = "live" =>
  \/ dec'[t].origin = "manual" /\ row'[t].origin = "manual"
  \/ <<dec'[t].origin, dec'[t].cat>>
       = Expected(t, row'[t].name, row'[t].labels \cap boot.known)]_vars

\* A key names one transaction for ever, the one its first accepted request
\* made, and no attempt that failed or was repeated leaves another.
OneEntryPerKey == \A k \in Keys :
  IF bound[k] = None THEN \A t \in Transactions : row[t].key # k
  ELSE {t \in Transactions : row[t].key = k} = {bound[k].tx}
=============================================================================
