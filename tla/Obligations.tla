---------------------------- MODULE Obligations ----------------------------
(***************************************************************************)
(* What a transaction may stand for: it pays a payable (a link, and its    *)
(* settlement in the payable's accounting plan), funds a plan's            *)
(* installment (an allocation) or carries an occurrence of a recurring     *)
(* commitment (a reconciliation); and the inclusion decision that takes    *)
(* all of it away when the transaction is ignored.                         *)
(* (internal/payables, scenarios, recurrences, transactions, automation,   *)
(* and their handlers in internal/httpapi)                                 *)
(*                                                                         *)
(* An action is one statement or one transaction, which SQLite's single    *)
(* connection makes atomic.  A handler that runs several on the bare       *)
(* *sql.DB is a request: req[r] is the statement it has reached and the    *)
(* values it read on the way.  Requests and the synchronization run side   *)
(* by side and a request may die before any of its statements.  Checks     *)
(* that are read one after the other and decide nothing in between are one *)
(* action.                                                                 *)
(*                                                                         *)
(* Two variables only remember: torn, the changes of a decision that did   *)
(* not get to their end, and contested, the transactions something was     *)
(* taken from while another piece of work was about them.                  *)
(***************************************************************************)
EXTENDS Naturals, FiniteSets

CONSTANTS
  Transactions,
  Manual,        \* those entered by hand, which DeleteManual accepts
  Payables,
  Plans,         \* identities of plans (scenarios of a payable)
  LinkIds,       \* identities of links
  Occurrences,   \* occurrences of recurring commitments
  Requests,      \* requests in flight at the same time
  None,
  MaxRevision    \* bound on the changes of a transaction's decision

ASSUME ObligationsAssumption ==
  /\ Manual \subseteq Transactions
  /\ MaxRevision \in Nat
  /\ None \notin Payables \cup Plans \cup Occurrences \cup LinkIds
  /\ Plans \cap Occurrences = {}

VARIABLES
  payables,   \* the payables that exist
  link,       \* link[t]: its row of payable_transaction_links
  plan,       \* plan[s]: payable_id of plan s, None when it does not exist
  accounting, \* plans with is_accounting_source = 1
  carried,    \* carried[t]: the complete event t realizes, a plan (settlement)
              \* or an occurrence (reconciliation): one by the unique index
  allocated,  \* allocations <<plan, transaction>> to the plan's installment
  decision,   \* transaction_inclusion_decisions; revision 0: no row
  trail,      \* trail[t]: revisions in transaction_inclusion_events
  deleted,    \* transactions with deleted_at set
  req,        \* the requests in flight
  torn,       \* <<t, n, stage>>: the request of change n of t died at stage
  contested   \* transactions two pieces of work, one of them taking, were about

obligationVars == <<payables, link, plan, accounting, carried, allocated>>
inclusionVars == <<decision, trail, deleted>>
vars == <<obligationVars, inclusionVars, req, torn, contested>>

NoLink == [id |-> None, payable |-> None]
Link == [id : LinkIds, payable : Payables] \cup {NoLink}
Decision == [state : {"considered", "ignored"}, origin : {"none", "manual", "rule"},
             revision : 0 .. MaxRevision]
Hook == {"unlink", "unsettle", "unallocate", "unreconcile"}
Tearing == {"event", "unlink", "unsettle", "unallocate"}
Idle == [at |-> "idle"]
Request ==
  {Idle}
  \cup [at : {"decide", "claim", "event"}, t : Transactions, to : Decision]
  \cup [at : Hook, t : Transactions]
  \cup [at : {"link"}, t : Transactions, p : Payables]
  \cup [at : {"delete"}, t : Transactions, p : Payables, id : LinkIds]
  \cup [at : {"plan"}, p : Payables, first : BOOLEAN]
  \cup [at : {"seeds"}, s : Plans, p : Payables]
  \cup [at : {"seed"}, s : Plans, seeds : SUBSET Transactions]
  \cup [at : {"settle"}, s : Plans, seeds : SUBSET Transactions, t : Transactions]
  \cup [at : {"reconcile"}, t : Transactions, o : Occurrences]
  \cup [at : {"allocate"}, t : Transactions, s : Plans, replaces : BOOLEAN]

TypeOK ==
  /\ payables \subseteq Payables
  /\ link \in [Transactions -> Link]
  /\ plan \in [Plans -> Payables \cup {None}]
  /\ accounting \subseteq Plans
  /\ carried \in [Transactions -> Plans \cup Occurrences \cup {None}]
  /\ allocated \subseteq Plans \X Transactions
  /\ decision \in [Transactions -> Decision]
  /\ trail \in [Transactions -> SUBSET (1 .. MaxRevision)]
  /\ deleted \subseteq Manual
  /\ req \in [Requests -> Request]
  /\ torn \subseteq Transactions \X (0 .. MaxRevision) \X Tearing
  /\ contested \subseteq Transactions

Init ==
  /\ payables = {}
  /\ link = [t \in Transactions |-> NoLink]
  /\ plan = [s \in Plans |-> None]
  /\ accounting = {}
  /\ carried = [t \in Transactions |-> None]
  /\ allocated = {}
  /\ decision = [t \in Transactions |-> [state |-> "considered", origin |-> "none", revision |-> 0]]
  /\ trail = [t \in Transactions |-> {}]
  /\ deleted = {}
  /\ req = [r \in Requests |-> Idle]
  /\ torn = {}
  /\ contested = {}

-----------------------------------------------------------------------------
(* Requests *)

Quiet == \A r \in Requests : req[r] = Idle
Starts(r) == req[r] = Idle
At(r, stage) == req[r].at = stage
Goes(r, next) == req' = [req EXCEPT ![r] = next]

\* What a request holds, so that a new row does not get the identity of one
\* that is gone: identities are UUIDs.
Held(field) == {req[r][field] : r \in {x \in Requests : field \in DOMAIN req[x]}}

\* What a request is at work on.  It adds to a transaction (a link, an
\* allocation, a settlement, a reconciliation), or takes from it.
Adding(q) ==
  CASE q.at \in {"link", "allocate", "reconcile"} -> {q.t}
    [] q.at = "seed" -> q.seeds
    [] q.at = "settle" -> q.seeds \cup {q.t}
    [] OTHER -> {}
Taking(q) ==
  IF q.at \in Hook \cup {"decide", "claim", "event", "delete"} THEN {q.t} ELSE {}

\* Transactions with two pieces of work about them, one of them taking.
Clashes ==
  {t \in Transactions : \E r \in Requests :
     t \in Taking(req[r]) /\ \E q \in Requests \ {r} : t \in Taking(req[q]) \cup Adding(req[q])}
InHand == {t \in Transactions : \E r \in Requests : t \in Taking(req[r]) \cup Adding(req[r])}

\* contested after a step; taken: what it took from outside of any request.
Watch(taken) == contested' = contested \cup Clashes' \cup (taken \cap InHand)

\* The process dies or the client goes away (every statement runs under the
\* request's context), or the statement fails: the rest is never done.
Break(r) ==
  /\ req[r] # Idle
  /\ Goes(r, Idle)
  /\ torn' = IF req[r].at \in Tearing
             THEN torn \cup {<<req[r].t, decision[req[r].t].revision, req[r].at>>} ELSE torn
  /\ UNCHANGED <<obligationVars, inclusionVars>>

PlansOf(p) == {s \in Plans : plan[s] = p}
LinkedTo(p) == {t \in Transactions : link[t].payable = p}
Considered(t) == decision[t].state = "considered"

-----------------------------------------------------------------------------
(* The inclusion decision *)

\* applyInclusion up to its first write: what getInclusionDecision returned
\* decides between nothing, a claim and a change.
Reads(r, t, target, origin) ==
  LET was == decision[t]
      now == [state |-> target, origin |-> origin, revision |-> was.revision + 1]
  IN /\ Starts(r) /\ t \notin deleted
     /\ ~(origin = "rule" /\ was.origin = "manual")
     /\ \/ /\ was.state # target /\ was.revision < MaxRevision
           /\ Goes(r, [at |-> "decide", t |-> t, to |-> now])
        \/ /\ was.state = target /\ origin = "manual" /\ was.origin = "rule"
           /\ Goes(r, [at |-> "claim", t |-> t, to |-> [was EXCEPT !.origin = "manual"]])
     /\ UNCHANGED <<obligationVars, inclusionVars>>

\* handleSetTransactionInclusion.
SetInclusion(r, t) == \E target \in {"considered", "ignored"} : Reads(r, t, target, "manual")

\* ApplyRetroactively, one matching transaction of it.
ApplyRetroactively(r, t) == Reads(r, t, "ignored", "rule")

\* Defect: a claim counts as a change.
UpsertCountingClaims(r) ==
  /\ At(r, "decide") \/ At(r, "claim")
  /\ decision' = [decision EXCEPT ![req[r].t] =
       IF At(r, "claim") THEN [req[r].to EXCEPT !.revision = @ + 1] ELSE req[r].to]
  /\ Goes(r, IF At(r, "claim") THEN Idle ELSE [req[r] EXCEPT !.at = "event"])
  /\ UNCHANGED <<obligationVars, trail, deleted>>

\* upsertInclusionDecision writes the whole decision over whatever is there.
UpsertInclusionDecision(r) ==
  /\ At(r, "decide") \/ At(r, "claim")
  /\ decision' = [decision EXCEPT ![req[r].t] = req[r].to]
  /\ Goes(r, IF At(r, "claim") THEN Idle ELSE [req[r] EXCEPT !.at = "event"])
  /\ UNCHANGED <<obligationVars, trail, deleted>>

\* The event of the change, UNIQUE (transaction_id, revision); then onIgnored.
InsertInclusionEvent(r) ==
  /\ At(r, "event")
  /\ LET t == req[r].t
         n == req[r].to.revision
     IN /\ trail' = [trail EXCEPT ![t] = @ \cup {n}]
        /\ Goes(r, IF n \notin trail[t] /\ req[r].to.state = "ignored"
                   THEN [at |-> "unlink", t |-> t] ELSE Idle)
  /\ UNCHANGED <<obligationVars, decision, deleted>>

\* The parts of onIgnoredHook, each a DELETE of its own.
Unlinked(t) == [link EXCEPT ![t] = NoLink]
WithoutEvent(t, events) == [carried EXCEPT ![t] = IF @ \in events THEN None ELSE @]
WithoutAllocations(t, plans) == {a \in allocated : ~(a[1] \in plans /\ a[2] = t)}

\* onIgnoredHook on the bare *sql.DB: payables.UnlinkIfPresent, then
\* recurrences.UnlinkIfPresent.
OnIgnored(r) ==
  /\ \/ /\ At(r, "unlink") /\ link' = Unlinked(req[r].t)
        /\ Goes(r, [req[r] EXCEPT !.at = "unsettle"])
        /\ UNCHANGED <<carried, allocated>>
     \/ /\ At(r, "unsettle") /\ carried' = WithoutEvent(req[r].t, Plans)
        /\ Goes(r, [req[r] EXCEPT !.at = "unallocate"])
        /\ UNCHANGED <<link, allocated>>
     \/ /\ At(r, "unallocate") /\ allocated' = WithoutAllocations(req[r].t, Plans)
        /\ Goes(r, [req[r] EXCEPT !.at = "unreconcile"])
        /\ UNCHANGED <<link, carried>>
     \/ /\ At(r, "unreconcile") /\ carried' = WithoutEvent(req[r].t, Occurrences)
        /\ Goes(r, Idle)
        /\ UNCHANGED <<link, allocated>>
  /\ UNCHANGED <<payables, plan, accounting, inclusionVars>>

\* Defect: the settlement survives its link.
LinkDropped(t) ==
  /\ link' = Unlinked(t)
  /\ allocated' = WithoutAllocations(t, Plans)
  /\ UNCHANGED carried

\* payables.UnlinkIfPresent inside a transaction of the caller.
UnlinkIfPresent(t) ==
  /\ link' = Unlinked(t)
  /\ carried' = WithoutEvent(t, Plans)
  /\ allocated' = WithoutAllocations(t, Plans)

\* onIgnoredHook inside a transaction of the caller.
OnIgnoredHook(t) ==
  /\ link' = Unlinked(t)
  /\ carried' = WithoutEvent(t, Plans \cup Occurrences)
  /\ allocated' = WithoutAllocations(t, Plans)

\* ApplyToNewTransactionWithQuerier in the synchronization's transaction, with
\* the hook cmd/julius/main.go:135 gives it: payables' alone.
RuleIgnores(t) ==
  /\ t \notin Manual \cup deleted
  /\ Considered(t) /\ decision[t].origin # "manual" /\ decision[t].revision < MaxRevision
  /\ decision' = [decision EXCEPT
       ![t] = [state |-> "ignored", origin |-> "rule", revision |-> @.revision + 1]]
  /\ trail' = [trail EXCEPT ![t] = @ \cup {decision[t].revision + 1}]
  /\ UnlinkIfPresent(t)
  /\ UNCHANGED <<payables, plan, accounting, deleted, req>>

\* DeleteManual: the hook and the mark, in one transaction.
DeleteManual(t) ==
  /\ t \in Manual \ deleted
  /\ OnIgnoredHook(t)
  /\ deleted' = deleted \cup {t}
  /\ UNCHANGED <<payables, plan, accounting, decision, trail, req>>

-----------------------------------------------------------------------------
(* Payables and their links *)

CreatePayable(p) ==
  /\ p \notin payables \cup Held("p")
  /\ payables' = payables \cup {p}
  /\ UNCHANGED <<link, plan, accounting, carried, allocated, inclusionVars, req>>

\* The rows that go with plans: ON DELETE CASCADE.
Dropped(plans) ==
  /\ plan' = [s \in Plans |-> IF s \in plans THEN None ELSE plan[s]]
  /\ accounting' = accounting \ plans
  /\ carried' = [t \in Transactions |-> IF carried[t] \in plans THEN None ELSE carried[t]]
  /\ allocated' = {a \in allocated : a[1] \notin plans}

\* Delete: links and plans cascade.
DeletePayable(p) ==
  /\ p \in payables
  /\ payables' = payables \ {p}
  /\ link' = [t \in Transactions |-> IF link[t].payable = p THEN NoLink ELSE link[t]]
  /\ Dropped(PlansOf(p))
  /\ UNCHANGED <<inclusionVars, req>>

\* CreateLink's checks.  loadTransaction does not look at deleted_at.
CheckLink(r, p, t) ==
  /\ Starts(r)
  /\ p \in payables
  /\ link[t] = NoLink /\ Considered(t)
  /\ Goes(r, [at |-> "link", t |-> t, p |-> p])
  /\ UNCHANGED <<obligationVars, inclusionVars>>

\* The settlement createSettlement writes with the link, if a plan accounts
\* for the payable.
Settling(p) == PlansOf(p) \cap accounting
LinkConflict(p, t) == p \notin payables \/ link[t] # NoLink \/ (Settling(p) # {} /\ carried[t] # None)
FreshLinks == {id \in LinkIds \ Held("id") : \A t \in Transactions : link[t].id # id}
FreshLink == CHOOSE id \in FreshLinks : TRUE

\* CreateLink's transaction: link and settlement, or neither.  The identities
\* of the instance bound how many links there are.
InsertLink(r) ==
  /\ At(r, "link")
  /\ LET p == req[r].p
         t == req[r].t
     IN IF LinkConflict(p, t) THEN UNCHANGED <<link, carried>>
        ELSE /\ FreshLinks # {}
             /\ link' = [link EXCEPT ![t] = [id |-> FreshLink, payable |-> p]]
             /\ carried' = [carried EXCEPT ![t] =
                  IF Settling(p) # {} THEN CHOOSE s \in Settling(p) : TRUE ELSE @]
  /\ Goes(r, Idle)
  /\ UNCHANGED <<payables, plan, accounting, allocated, inclusionVars>>

\* DeleteLink reads the row by its id ...
ReadLink(r, t) ==
  /\ Starts(r)
  /\ link[t] # NoLink
  /\ Goes(r, [at |-> "delete", t |-> t, p |-> link[t].payable, id |-> link[t].id])
  /\ UNCHANGED <<obligationVars, inclusionVars>>

\* Defect: the allocations of the payable's plans are forgotten.
DeleteLinkOnly(r) ==
  /\ At(r, "delete")
  /\ LET t == req[r].t
     IN /\ link' = IF link[t].id = req[r].id THEN Unlinked(t) ELSE link
        /\ carried' = WithoutEvent(t, Plans)
  /\ Goes(r, Idle)
  /\ UNCHANGED <<payables, plan, accounting, allocated, inclusionVars>>

\* ... and deletes it, with every settlement of the transaction and its
\* allocations to the payable's plans.
DeleteLink(r) ==
  /\ At(r, "delete")
  /\ LET t == req[r].t
     IN /\ link' = IF link[t].id = req[r].id THEN Unlinked(t) ELSE link
        /\ carried' = WithoutEvent(t, Plans)
        /\ allocated' = WithoutAllocations(t, PlansOf(req[r].p))
  /\ Goes(r, Idle)
  /\ UNCHANGED <<payables, plan, accounting, inclusionVars>>

-----------------------------------------------------------------------------
(* Plans *)

\* CreateScenario: no other plan accounts for the payable.
CountPlans(r, p) ==
  /\ Starts(r)
  /\ p \in payables
  /\ Goes(r, [at |-> "plan", p |-> p, first |-> Settling(p) = {}])
  /\ UNCHANGED <<obligationVars, inclusionVars>>

\* The plan is there from here on, its links not yet settled.  Its payable may
\* be gone, another plan may have become the accounting one (unique index).
InsertPlan(r) ==
  /\ At(r, "plan")
  /\ LET p == req[r].p
         first == req[r].first
         fresh == {s \in Plans : plan[s] = None /\ s \notin Held("s")}
     IN IF p \notin payables \/ (first /\ Settling(p) # {})
        THEN Goes(r, Idle) /\ UNCHANGED <<plan, accounting>>
        ELSE \E s \in fresh :
               /\ plan' = [plan EXCEPT ![s] = p]
               /\ accounting' = IF first THEN accounting \cup {s} ELSE accounting
               /\ Goes(r, IF first THEN [at |-> "seeds", s |-> s, p |-> p] ELSE Idle)
  /\ UNCHANGED <<payables, link, carried, allocated, inclusionVars>>

\* backfillAccountingSettlements: the links there are ...
ReadSeeds(r) ==
  /\ At(r, "seeds")
  /\ Goes(r, [at |-> "seed", s |-> req[r].s, seeds |-> LinkedTo(req[r].p)])
  /\ UNCHANGED <<obligationVars, inclusionVars>>

\* ... each looked up ...
NextSeed(r) ==
  /\ At(r, "seed")
  /\ LET s == req[r].s
         seeds == req[r].seeds
     IN \/ seeds = {} /\ Goes(r, Idle)
        \/ \E t \in seeds :
             Goes(r, IF carried[t] = s THEN [req[r] EXCEPT !.seeds = seeds \ {t}]
                     ELSE [at |-> "settle", s |-> s, seeds |-> seeds \ {t}, t |-> t])
  /\ UNCHANGED <<obligationVars, inclusionVars>>

\* ... and settled; the first conflict ends the pass.
SettleSeed(r) ==
  /\ At(r, "settle")
  /\ LET s == req[r].s
         t == req[r].t
     IN IF plan[s] = None \/ carried[t] # None
        THEN Goes(r, Idle) /\ UNCHANGED carried
        ELSE /\ carried' = [carried EXCEPT ![t] = s]
             /\ Goes(r, [at |-> "seed", s |-> s, seeds |-> req[r].seeds])
  /\ UNCHANGED <<payables, link, plan, accounting, allocated, inclusionVars>>

\* DeleteScenario.
DeletePlan(s) ==
  /\ plan[s] # None
  /\ Dropped({s})
  /\ UNCHANGED <<payables, link, inclusionVars, req>>

\* RealizeEvent (replaces the installment's allocations) and
\* handleCreateRealization (adds one): the link is checked before, never again.
CheckAllocation(r, s, t) ==
  /\ Starts(r)
  /\ plan[s] # None /\ link[t].payable = plan[s]
  /\ \E replaces \in BOOLEAN :
       /\ replaces => t \notin deleted
       /\ Goes(r, [at |-> "allocate", s |-> s, t |-> t, replaces |-> replaces])
  /\ UNCHANGED <<obligationVars, inclusionVars>>

Allocate(r) ==
  /\ At(r, "allocate")
  /\ LET s == req[r].s
         kept == IF req[r].replaces THEN {a \in allocated : a[1] # s} ELSE allocated
     IN allocated' = IF plan[s] = None THEN allocated ELSE kept \cup {<<s, req[r].t>>}
  /\ Goes(r, Idle)
  /\ UNCHANGED <<payables, link, plan, accounting, carried, inclusionVars>>

\* DeleteRealization; DeletePlannedEventRealization and the installment's own
\* deletion drop all of them.
Deallocate(s) ==
  /\ \E gone \in SUBSET {a \in allocated : a[1] = s} \ {{}} : allocated' = allocated \ gone
  /\ UNCHANGED <<payables, link, plan, accounting, carried, inclusionVars, req>>

-----------------------------------------------------------------------------
(* Occurrences of recurring commitments *)

CheckOccurrence(r, o, t) ==
  /\ Starts(r)
  /\ t \notin deleted /\ Considered(t)
  /\ Goes(r, [at |-> "reconcile", t |-> t, o |-> o])
  /\ UNCHANGED <<obligationVars, inclusionVars>>

\* PutOverride, RealizeEvent: the occurrence's row is replaced, unless the
\* transaction realizes another complete event (unique index).
PutOverride(r) ==
  /\ At(r, "reconcile")
  /\ LET t == req[r].t
         o == req[r].o
     IN carried' = IF carried[t] \notin {None, o} THEN carried
                   ELSE [x \in Transactions |->
                          IF x = t THEN o ELSE IF carried[x] = o THEN None ELSE carried[x]]
  /\ Goes(r, Idle)
  /\ UNCHANGED <<payables, link, plan, accounting, allocated, inclusionVars>>

\* DeleteOverride, a detached occurrence, the commitment's deletion.
ReleaseOccurrence(o) ==
  /\ \E t \in Transactions : carried[t] = o
  /\ carried' = [t \in Transactions |-> IF carried[t] = o THEN None ELSE carried[t]]
  /\ UNCHANGED <<payables, link, plan, accounting, allocated, inclusionVars, req>>

-----------------------------------------------------------------------------
Step(r) ==
  \/ UpsertInclusionDecision(r) \/ InsertInclusionEvent(r) \/ OnIgnored(r)
  \/ InsertLink(r) \/ DeleteLink(r)
  \/ InsertPlan(r) \/ ReadSeeds(r) \/ NextSeed(r) \/ SettleSeed(r)
  \/ Allocate(r) \/ PutOverride(r)

Arrives(r) ==
  \/ \E t \in Transactions : SetInclusion(r, t) \/ ApplyRetroactively(r, t) \/ ReadLink(r, t)
  \/ \E p \in Payables : CountPlans(r, p) \/ \E t \in Transactions : CheckLink(r, p, t)
  \/ \E s \in Plans, t \in Transactions : CheckAllocation(r, s, t)
  \/ \E o \in Occurrences, t \in Transactions : CheckOccurrence(r, o, t)

Edits ==
  \/ \E p \in Payables : CreatePayable(p) \/ DeletePayable(p)
  \/ \E s \in Plans : DeletePlan(s) \/ Deallocate(s)
  \/ \E o \in Occurrences : ReleaseOccurrence(o)

Next ==
  \/ \E r \in Requests : (Step(r) \/ Arrives(r)) /\ Watch({}) /\ UNCHANGED torn
  \/ \E r \in Requests : Break(r) /\ Watch({})
  \/ \E t \in Transactions : (RuleIgnores(t) \/ DeleteManual(t)) /\ Watch({t}) /\ UNCHANGED torn
  \/ Edits /\ Watch({}) /\ UNCHANGED torn

Spec == Init /\ [][Next]_vars

-----------------------------------------------------------------------------
(* Properties *)

PaysNothing(t) ==
  /\ link[t] = NoLink /\ carried[t] \notin Plans
  /\ \A s \in Plans : <<s, t>> \notin allocated

\* A transaction excluded from the totals neither pays down a payable nor
\* funds an installment (payables.UnlinkIfPresent, inclusion.go:37).
IgnoredPaysNothing ==
  Quiet => \A t \in Transactions : decision[t].state = "ignored" => PaysNothing(t)

\* The transactions of which the tables must be in order: no request is taking
\* from them, nothing was taken while another was at work on them.
Settled == {t \in Transactions \ contested : \A r \in Requests : t \notin Taking(req[r])}

\* The same of every settled transaction, whatever else is in flight and
\* whatever failed before, unless the change that ignored it was torn.
ClearedPaysNothing ==
  \A t \in Settled :
    /\ decision[t].state = "ignored"
    /\ \A stage \in Tearing : <<t, decision[t].revision, stage>> \notin torn
    => PaysNothing(t)

\* A transaction deleted by hand carries no occurrence (DeleteManual,
\* manual.go:171).
DeletedCarriesNothing == \A t \in deleted \ contested : carried[t] \notin Occurrences

\* A settlement or an allocation in a payable's plan is of a transaction that
\* is linked to that payable; the settlement is in its accounting plan.  A
\* change torn after its link was deleted leaves them behind.
LinkDied(t) ==
  \E n \in 0 .. MaxRevision : <<t, n, "unsettle">> \in torn \/ <<t, n, "unallocate">> \in torn
Follow(t) ==
  \A s \in Plans :
    /\ <<s, t>> \in allocated => plan[s] # None /\ link[t].payable = plan[s]
    /\ carried[t] = s => s \in accounting /\ link[t].payable = plan[s]
RealizationsFollowLinks == \A t \in Settled : ~LinkDied(t) => Follow(t)

\* Every change of a decision left its event but the one whose request died
\* between the two writes, and no event is of a change that is not there
\* (transaction_inclusion_events, append-only).
TrailMatches ==
  \A t \in Settled : trail[t] = {n \in 1 .. decision[t].revision : <<t, n, "event">> \notin torn}

=============================================================================
