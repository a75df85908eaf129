------------------------ MODULE Obligations_proofs ------------------------
(***************************************************************************)
(* Proofs about Obligations, for any transactions, payables, plans, links, *)
(* occurrences and requests, with any number of requests in flight, the    *)
(* synchronization beside them, and deaths at any statement.               *)
(***************************************************************************)
EXTENDS Obligations, TLAPS

USE DEF vars, obligationVars, inclusionVars

-----------------------------------------------------------------------------
(* Types *)

Stages == Hook \cup {"decide", "claim", "event", "link", "delete", "plan", "seeds", "seed",
                     "settle", "reconcile", "allocate"}

\* The type invariant but for the two variables that only remember.
Typed ==
  /\ payables \subseteq Payables
  /\ link \in [Transactions -> Link]
  /\ plan \in [Plans -> Payables \cup {None}]
  /\ accounting \subseteq Plans
  /\ carried \in [Transactions -> Plans \cup Occurrences \cup {None}]
  /\ allocated \subseteq Plans \X Transactions
  /\ decision \in [Transactions -> Decision]
  /\ trail \in [Transactions -> SUBSET (1 .. MaxRevision)]
  /\ deleted \subseteq Manual
  /\ req \in [Requests -> Request]

\* A change of a decision, on its way to the log of events, is never the
\* decision no row stands for.
ChangesCount ==
  \A r \in Requests : req[r].at \in {"decide", "event"} => req[r].to.revision # 0

\* What a request carries at each stage.
LEMMA Fields ==
  ASSUME NEW q \in Request
  PROVE  /\ q.at \in {"decide", "claim", "event"} =>
              /\ q = [at |-> q.at, t |-> q.t, to |-> q.to]
              /\ q.t \in Transactions /\ q.to \in Decision
         /\ q.at \in Hook =>
              q = [at |-> q.at, t |-> q.t] /\ q.t \in Transactions
         /\ q.at = "link" => q.t \in Transactions /\ q.p \in Payables
         /\ q.at = "delete" => q.t \in Transactions /\ q.p \in Payables /\ q.id \in LinkIds
         /\ q.at = "plan" => q.p \in Payables /\ q.first \in BOOLEAN
         /\ q.at = "seeds" => q.s \in Plans /\ q.p \in Payables
         /\ q.at = "seed" =>
              /\ q = [at |-> "seed", s |-> q.s, seeds |-> q.seeds]
              /\ q.s \in Plans /\ q.seeds \in SUBSET Transactions
         /\ q.at = "settle" =>
              q.s \in Plans /\ q.seeds \in SUBSET Transactions /\ q.t \in Transactions
         /\ q.at = "reconcile" => q.t \in Transactions /\ q.o \in Occurrences
         /\ q.at = "allocate" => q.t \in Transactions /\ q.s \in Plans /\ q.replaces \in BOOLEAN
         /\ q.at \in Stages \cup {"idle"}
         /\ q.at = "idle" => q = Idle
  BY DEF Request, Idle, Stages, Hook

TypeInv == Typed /\ ChangesCount

LEMMA InitTyped == Init => TypeInv
  BY ObligationsAssumption
     DEF Init, TypeInv, Typed, ChangesCount, Link, NoLink, Decision, Request, Idle

\* A request that moves on is typed again.
LEMMA GoesTyped ==
  ASSUME TypeInv, NEW r \in Requests, NEW next \in Request, Goes(r, next),
         next.at \in {"decide", "event"} => next.to.revision # 0
  PROVE  req' \in [Requests -> Request] /\ ChangesCount'
  BY DEF TypeInv, Typed, ChangesCount, Goes

\* A request that only read leaves the tables typed.
LEMMA ReadTyped ==
  ASSUME TypeInv, UNCHANGED <<obligationVars, inclusionVars>>,
         req' \in [Requests -> Request], ChangesCount'
  PROVE  TypeInv'
  BY DEF TypeInv, Typed

LEMMA IdleTyped == Idle \in Request /\ Idle.at = "idle"
  BY DEF Request, Idle

LEMMA ReadsTyped ==
  ASSUME TypeInv, NEW r \in Requests, NEW t \in Transactions,
         NEW target \in {"considered", "ignored"}, NEW origin \in {"manual", "rule"},
         Reads(r, t, target, origin)
  PROVE  TypeInv'
<1> DEFINE was == decision[t]
           now == [state |-> target, origin |-> origin, revision |-> was.revision + 1]
<1>1. was \in Decision /\ MaxRevision \in Nat
  BY ObligationsAssumption DEF TypeInv, Typed
<1>2. CASE was.revision < MaxRevision /\ Goes(r, [at |-> "decide", t |-> t, to |-> now])
  <2>1. now \in Decision /\ now.revision # 0
    BY <1>1, <1>2 DEF Decision
  <2>2. [at |-> "decide", t |-> t, to |-> now] \in Request
    BY <2>1 DEF Request
  <2>3. QED
    BY <1>2, <2>1, <2>2, GoesTyped, ReadTyped DEF Reads
<1>3. CASE Goes(r, [at |-> "claim", t |-> t, to |-> [was EXCEPT !.origin = "manual"]])
  <2>1. [was EXCEPT !.origin = "manual"] \in Decision
    BY <1>1 DEF Decision
  <2>2. [at |-> "claim", t |-> t, to |-> [was EXCEPT !.origin = "manual"]] \in Request
    BY <2>1 DEF Request
  <2>3. QED
    BY <1>3, <2>2, GoesTyped, ReadTyped DEF Reads
<1>4. QED
  BY <1>2, <1>3 DEF Reads

LEMMA ArrivesTyped ==
  ASSUME TypeInv, NEW r \in Requests, Arrives(r)
  PROVE  TypeInv'
<1>1. ASSUME NEW t \in Transactions, SetInclusion(r, t) \/ ApplyRetroactively(r, t)
      PROVE TypeInv'
  BY <1>1, ReadsTyped DEF SetInclusion, ApplyRetroactively
<1>2. ASSUME NEW t \in Transactions, ReadLink(r, t) PROVE TypeInv'
  <2>1. link[t].payable \in Payables /\ link[t].id \in LinkIds
    BY <1>2 DEF ReadLink, TypeInv, Typed, Link
  <2>2. [at |-> "delete", t |-> t, p |-> link[t].payable, id |-> link[t].id] \in Request
    BY <2>1 DEF Request
  <2>3. QED
    BY <1>2, <2>2, GoesTyped, ReadTyped DEF ReadLink
<1>3. ASSUME NEW p \in Payables, CountPlans(r, p) PROVE TypeInv'
  <2>1. [at |-> "plan", p |-> p, first |-> Settling(p) = {}] \in Request
    BY DEF Request
  <2>2. QED
    BY <1>3, <2>1, GoesTyped, ReadTyped DEF CountPlans
<1>4. ASSUME NEW p \in Payables, NEW t \in Transactions, CheckLink(r, p, t) PROVE TypeInv'
  <2>1. [at |-> "link", t |-> t, p |-> p] \in Request
    BY DEF Request
  <2>2. QED
    BY <1>4, <2>1, GoesTyped, ReadTyped DEF CheckLink
<1>5. ASSUME NEW s \in Plans, NEW t \in Transactions, CheckAllocation(r, s, t) PROVE TypeInv'
  <2>1. \A replaces \in BOOLEAN :
          [at |-> "allocate", s |-> s, t |-> t, replaces |-> replaces] \in Request
    BY DEF Request
  <2>2. QED
    BY <1>5, <2>1, GoesTyped, ReadTyped DEF CheckAllocation
<1>6. ASSUME NEW o \in Occurrences, NEW t \in Transactions, CheckOccurrence(r, o, t) PROVE TypeInv'
  <2>1. [at |-> "reconcile", t |-> t, o |-> o] \in Request
    BY DEF Request
  <2>2. QED
    BY <1>6, <2>1, GoesTyped, ReadTyped DEF CheckOccurrence
<1>7. QED
  BY <1>1, <1>2, <1>3, <1>4, <1>5, <1>6 DEF Arrives

\* The parts of the tables a hook takes away leave them typed.
LEMMA HookTyped ==
  ASSUME TypeInv, NEW t \in Transactions
  PROVE  /\ Unlinked(t) \in [Transactions -> Link]
         /\ \A events : WithoutEvent(t, events) \in [Transactions -> Plans \cup Occurrences \cup {None}]
         /\ \A plans : WithoutAllocations(t, plans) \subseteq Plans \X Transactions
  BY DEF TypeInv, Typed, Link, Unlinked, WithoutEvent, WithoutAllocations

LEMMA DroppedTyped ==
  ASSUME TypeInv, NEW plans, Dropped(plans)
  PROVE  /\ plan' \in [Plans -> Payables \cup {None}]
         /\ accounting' \subseteq Plans
         /\ carried' \in [Transactions -> Plans \cup Occurrences \cup {None}]
         /\ allocated' \subseteq Plans \X Transactions
  BY DEF TypeInv, Typed, Dropped

\* A new link has an identity of its own.
LEMMA FreshLinkNew ==
  ASSUME FreshLinks # {}
  PROVE  FreshLink \in LinkIds /\ \A t \in Transactions : link[t].id # FreshLink
<1>1. FreshLink \in FreshLinks
  BY DEF FreshLink
<1>2. QED
  BY <1>1 DEF FreshLinks

LEMMA StepTyped ==
  ASSUME TypeInv, NEW r \in Requests, Step(r)
  PROVE  TypeInv'
<1> DEFINE q == req[r]
<1>0. q \in Request /\ (q.at \in {"decide", "event"} => q.to.revision # 0)
  BY DEF TypeInv, Typed, ChangesCount
<1>1. CASE UpsertInclusionDecision(r)
  <2>1. q.at \in {"decide", "claim"}
    BY <1>1 DEF UpsertInclusionDecision, At
  <2>2. q.t \in Transactions /\ q.to \in Decision /\ q = [at |-> q.at, t |-> q.t, to |-> q.to]
    BY <1>0, <2>1, Fields
  <2>3. decision' \in [Transactions -> Decision]
    BY <1>1, <2>2 DEF UpsertInclusionDecision, TypeInv, Typed
  <2>4. CASE q.at = "claim"
    BY <1>1, <2>3, <2>4, IdleTyped, GoesTyped DEF UpsertInclusionDecision, At, TypeInv, Typed
  <2>5. CASE q.at = "decide"
    <3>1. [q EXCEPT !.at = "event"] = [at |-> "event", t |-> q.t, to |-> q.to]
      BY <2>2
    <3>2. [q EXCEPT !.at = "event"] \in Request
      BY <2>2, <3>1 DEF Request
    <3>3. Goes(r, [q EXCEPT !.at = "event"])
      BY <1>1, <2>5 DEF UpsertInclusionDecision, At
    <3>4. req' \in [Requests -> Request] /\ ChangesCount'
      BY <1>0, <2>5, <3>1, <3>2, <3>3, GoesTyped
    <3>5. QED
      BY <1>1, <2>3, <3>4 DEF UpsertInclusionDecision, TypeInv, Typed
  <2>6. QED
    BY <2>1, <2>4, <2>5
<1>2. CASE InsertInclusionEvent(r)
  <2>1. q.t \in Transactions /\ q.to \in Decision /\ q.to.revision # 0
    BY <1>0, <1>2, Fields DEF InsertInclusionEvent, At
  <2>2. q.to.revision \in 1 .. MaxRevision
    BY <2>1, ObligationsAssumption DEF Decision
  <2>3. trail' \in [Transactions -> SUBSET (1 .. MaxRevision)]
    BY <1>2, <2>1, <2>2 DEF InsertInclusionEvent, TypeInv, Typed
  <2>4. [at |-> "unlink", t |-> q.t] \in Request
    BY <2>1 DEF Request, Hook
  <2>5. req' \in [Requests -> Request] /\ ChangesCount'
    <3>1. Goes(r, [at |-> "unlink", t |-> q.t]) \/ Goes(r, Idle)
      BY <1>2 DEF InsertInclusionEvent
    <3>2. QED
      BY <3>1, <2>4, IdleTyped, GoesTyped
  <2>6. QED
    BY <1>2, <2>3, <2>5 DEF InsertInclusionEvent, TypeInv, Typed
<1>3. CASE OnIgnored(r)
  <2>1. q.at \in Hook
    BY <1>3 DEF OnIgnored, At, Hook
  <2>2. q.t \in Transactions /\ q = [at |-> q.at, t |-> q.t]
    BY <1>0, <2>1, Fields
  <2>3. [q EXCEPT !.at = "unsettle"] \in Request /\ [q EXCEPT !.at = "unallocate"] \in Request
        /\ [q EXCEPT !.at = "unreconcile"] \in Request
    <3>1. \A stage : [q EXCEPT !.at = stage] = [at |-> stage, t |-> q.t]
      BY <2>2
    <3>2. QED
      BY <2>2, <3>1 DEF Request, Hook
  <2>4. \A stage : [q EXCEPT !.at = stage].at = stage
    BY <2>2
  <2>5. req' \in [Requests -> Request] /\ ChangesCount'
    <3>1. \/ Goes(r, [q EXCEPT !.at = "unsettle"]) \/ Goes(r, [q EXCEPT !.at = "unallocate"])
          \/ Goes(r, [q EXCEPT !.at = "unreconcile"]) \/ Goes(r, Idle)
      BY <1>3 DEF OnIgnored
    <3>2. QED
      BY <3>1, <2>3, <2>4, IdleTyped, GoesTyped
  <2>6. /\ link' \in [Transactions -> Link]
        /\ carried' \in [Transactions -> Plans \cup Occurrences \cup {None}]
        /\ allocated' \subseteq Plans \X Transactions
    <3>1. link' = Unlinked(q.t) \/ link' = link
      BY <1>3 DEF OnIgnored
    <3>2. carried' = WithoutEvent(q.t, Plans) \/ carried' = WithoutEvent(q.t, Occurrences) \/ carried' = carried
      BY <1>3 DEF OnIgnored
    <3>3. allocated' = WithoutAllocations(q.t, Plans) \/ allocated' = allocated
      BY <1>3 DEF OnIgnored
    <3>4. QED
      BY <3>1, <3>2, <3>3, <2>2, HookTyped DEF TypeInv, Typed
  <2>7. QED
    BY <1>3, <2>5, <2>6 DEF OnIgnored, TypeInv, Typed
<1>4. CASE InsertLink(r)
  <2>1. q.t \in Transactions /\ q.p \in Payables
    BY <1>0, <1>4, Fields DEF InsertLink, At
  <2>2. req' \in [Requests -> Request] /\ ChangesCount'
    BY <1>4, IdleTyped, GoesTyped DEF InsertLink
  <2>3. link' \in [Transactions -> Link] /\ carried' \in [Transactions -> Plans \cup Occurrences \cup {None}]
    <3>1. CASE LinkConflict(q.p, q.t)
      BY <1>4, <3>1 DEF InsertLink, TypeInv, Typed
    <3>2. CASE ~LinkConflict(q.p, q.t)
      <4>1. FreshLink \in LinkIds
        BY <1>4, <3>2, FreshLinkNew DEF InsertLink
      <4>2. [id |-> FreshLink, payable |-> q.p] \in Link
        BY <2>1, <4>1 DEF Link
      <4>3. Settling(q.p) # {} => (CHOOSE s \in Settling(q.p) : TRUE) \in Plans
        BY DEF Settling, PlansOf
      <4>4. QED
        BY <1>4, <3>2, <2>1, <4>2, <4>3 DEF InsertLink, TypeInv, Typed
    <3>3. QED
      BY <3>1, <3>2
  <2>4. QED
    BY <1>4, <2>2, <2>3 DEF InsertLink, TypeInv, Typed
<1>5. CASE DeleteLink(r)
  <2>1. q.t \in Transactions
    BY <1>0, <1>5, Fields DEF DeleteLink, At
  <2>2. req' \in [Requests -> Request] /\ ChangesCount'
    BY <1>5, IdleTyped, GoesTyped DEF DeleteLink
  <2>3. QED
    BY <1>5, <2>1, <2>2, HookTyped DEF DeleteLink, TypeInv, Typed
<1>6. CASE InsertPlan(r)
  <2>1. q.p \in Payables /\ q.first \in BOOLEAN
    BY <1>0, <1>6, Fields DEF InsertPlan, At
  <2>2. CASE Goes(r, Idle) /\ UNCHANGED <<plan, accounting>>
    BY <1>6, <2>2, IdleTyped, GoesTyped, ReadTyped DEF InsertPlan
  <2>3. CASE \E s \in Plans :
               /\ plan' = [plan EXCEPT ![s] = q.p]
               /\ accounting' = IF q.first THEN accounting \cup {s} ELSE accounting
               /\ Goes(r, IF q.first THEN [at |-> "seeds", s |-> s, p |-> q.p] ELSE Idle)
    <3>1. PICK s \in Plans :
               /\ plan' = [plan EXCEPT ![s] = q.p]
               /\ accounting' = IF q.first THEN accounting \cup {s} ELSE accounting
               /\ Goes(r, IF q.first THEN [at |-> "seeds", s |-> s, p |-> q.p] ELSE Idle)
      BY <2>3
    <3>2. [at |-> "seeds", s |-> s, p |-> q.p] \in Request
      BY <2>1 DEF Request
    <3>3. req' \in [Requests -> Request] /\ ChangesCount'
      BY <3>1, <3>2, IdleTyped, GoesTyped
    <3>4. QED
      BY <1>6, <2>1, <3>1, <3>3 DEF InsertPlan, TypeInv, Typed
  <2>4. QED
    BY <1>6, <2>2, <2>3 DEF InsertPlan
<1>7. CASE ReadSeeds(r)
  <2>1. q.s \in Plans
    BY <1>0, <1>7, Fields DEF ReadSeeds, At
  <2>2. [at |-> "seed", s |-> q.s, seeds |-> LinkedTo(q.p)] \in Request
    BY <2>1 DEF Request, LinkedTo
  <2>3. QED
    BY <1>7, <2>2, GoesTyped, ReadTyped DEF ReadSeeds
<1>8. CASE NextSeed(r)
  <2>1. /\ q = [at |-> "seed", s |-> q.s, seeds |-> q.seeds]
        /\ q.s \in Plans /\ q.seeds \in SUBSET Transactions
    BY <1>0, <1>8, Fields DEF NextSeed, At
  <2>2. CASE Goes(r, Idle)
    BY <1>8, <2>2, IdleTyped, GoesTyped, ReadTyped DEF NextSeed
  <2>3. ASSUME NEW t \in q.seeds,
               Goes(r, IF carried[t] = q.s THEN [q EXCEPT !.seeds = q.seeds \ {t}]
                       ELSE [at |-> "settle", s |-> q.s, seeds |-> q.seeds \ {t}, t |-> t])
        PROVE TypeInv'
    <3>1. [q EXCEPT !.seeds = q.seeds \ {t}] = [at |-> "seed", s |-> q.s, seeds |-> q.seeds \ {t}]
      BY <2>1
    <3>2. [q EXCEPT !.seeds = q.seeds \ {t}] \in Request
      BY <2>1, <3>1 DEF Request
    <3>3. [at |-> "settle", s |-> q.s, seeds |-> q.seeds \ {t}, t |-> t] \in Request
      BY <2>1 DEF Request
    <3>4. req' \in [Requests -> Request] /\ ChangesCount'
      BY <2>3, <3>1, <3>2, <3>3, GoesTyped
    <3>5. QED
      BY <1>8, <3>4, ReadTyped DEF NextSeed
  <2>4. QED
    BY <1>8, <2>2, <2>3 DEF NextSeed
<1>9. CASE SettleSeed(r)
  <2>1. q.s \in Plans /\ q.seeds \in SUBSET Transactions /\ q.t \in Transactions
    BY <1>0, <1>9, Fields DEF SettleSeed, At
  <2>2. [at |-> "seed", s |-> q.s, seeds |-> q.seeds] \in Request
    BY <2>1 DEF Request
  <2>3. req' \in [Requests -> Request] /\ ChangesCount'
    <3>1. Goes(r, Idle) \/ Goes(r, [at |-> "seed", s |-> q.s, seeds |-> q.seeds])
      BY <1>9 DEF SettleSeed
    <3>2. QED
      BY <3>1, <2>2, IdleTyped, GoesTyped
  <2>4. carried' \in [Transactions -> Plans \cup Occurrences \cup {None}]
    BY <1>9, <2>1 DEF SettleSeed, TypeInv, Typed
  <2>5. QED
    BY <1>9, <2>3, <2>4 DEF SettleSeed, TypeInv, Typed
<1>10. CASE Allocate(r)
  <2>1. q.s \in Plans /\ q.t \in Transactions
    BY <1>0, <1>10, Fields DEF Allocate, At
  <2>2. req' \in [Requests -> Request] /\ ChangesCount'
    BY <1>10, IdleTyped, GoesTyped DEF Allocate
  <2>3. allocated' \subseteq Plans \X Transactions
    BY <1>10, <2>1 DEF Allocate, TypeInv, Typed
  <2>4. QED
    BY <1>10, <2>2, <2>3 DEF Allocate, TypeInv, Typed
<1>11. CASE PutOverride(r)
  <2>1. q.t \in Transactions /\ q.o \in Occurrences
    BY <1>0, <1>11, Fields DEF PutOverride, At
  <2>2. req' \in [Requests -> Request] /\ ChangesCount'
    BY <1>11, IdleTyped, GoesTyped DEF PutOverride
  <2>3. carried' \in [Transactions -> Plans \cup Occurrences \cup {None}]
    BY <1>11, <2>1 DEF PutOverride, TypeInv, Typed
  <2>4. QED
    BY <1>11, <2>2, <2>3 DEF PutOverride, TypeInv, Typed
<1>12. QED
  BY <1>1, <1>2, <1>3, <1>4, <1>5, <1>6, <1>7, <1>8, <1>9, <1>10, <1>11 DEF Step

LEMMA NextTyped ==
  ASSUME TypeInv, [Next]_vars
  PROVE  TypeInv'
<1>1. ASSUME NEW r \in Requests, Step(r) \/ Arrives(r) PROVE TypeInv'
  BY <1>1, StepTyped, ArrivesTyped
<1>2. ASSUME NEW t \in Transactions, RuleIgnores(t) PROVE TypeInv'
  <2>1. decision[t] \in Decision /\ decision[t].revision < MaxRevision /\ MaxRevision \in Nat
    BY <1>2, ObligationsAssumption DEF RuleIgnores, TypeInv, Typed
  <2>2. /\ [state |-> "ignored", origin |-> "rule", revision |-> decision[t].revision + 1] \in Decision
        /\ decision[t].revision + 1 \in 1 .. MaxRevision
    BY <2>1 DEF Decision
  <2>3. /\ decision' \in [Transactions -> Decision]
        /\ trail' \in [Transactions -> SUBSET (1 .. MaxRevision)]
    BY <1>2, <2>2 DEF RuleIgnores, TypeInv, Typed
  <2>4. /\ link' \in [Transactions -> Link]
        /\ carried' \in [Transactions -> Plans \cup Occurrences \cup {None}]
        /\ allocated' \subseteq Plans \X Transactions
    BY <1>2, HookTyped DEF RuleIgnores, UnlinkIfPresent
  <2>5. QED
    BY <1>2, <2>3, <2>4 DEF RuleIgnores, TypeInv, Typed, ChangesCount
<1>3. ASSUME NEW t \in Transactions, DeleteManual(t) PROVE TypeInv'
  BY <1>3, HookTyped DEF DeleteManual, OnIgnoredHook, TypeInv, Typed, ChangesCount
<1>4. ASSUME NEW p \in Payables, CreatePayable(p) PROVE TypeInv'
  BY <1>4 DEF CreatePayable, TypeInv, Typed, ChangesCount
<1>5. ASSUME NEW p \in Payables, DeletePayable(p) PROVE TypeInv'
  <2>1. link' \in [Transactions -> Link]
    BY <1>5 DEF DeletePayable, TypeInv, Typed, Link
  <2>2. QED
    BY <1>5, <2>1, DroppedTyped DEF DeletePayable, TypeInv, Typed, ChangesCount
<1>6. ASSUME NEW s \in Plans, DeletePlan(s) PROVE TypeInv'
  BY <1>6, DroppedTyped DEF DeletePlan, TypeInv, Typed, ChangesCount
<1>7. ASSUME NEW s \in Plans, Deallocate(s) PROVE TypeInv'
  BY <1>7 DEF Deallocate, TypeInv, Typed, ChangesCount
<1>8. ASSUME NEW o \in Occurrences, ReleaseOccurrence(o) PROVE TypeInv'
  BY <1>8 DEF ReleaseOccurrence, TypeInv, Typed, ChangesCount
<1>9. ASSUME NEW r \in Requests, Break(r) PROVE TypeInv'
  BY <1>9, IdleTyped, GoesTyped, ReadTyped DEF Break
<1>10. CASE UNCHANGED vars
  BY <1>10 DEF TypeInv, Typed, ChangesCount
<1>11. QED
  BY <1>1, <1>2, <1>3, <1>4, <1>5, <1>6, <1>7, <1>8, <1>9, <1>10 DEF Next, Edits

\* The variables that remember.
Remembered ==
  /\ torn \subseteq Transactions \X (0 .. MaxRevision) \X Tearing
  /\ contested \subseteq Transactions

LEMMA NextRemembered ==
  ASSUME TypeInv, Remembered, [Next]_vars
  PROVE  Remembered'
<1>1. ASSUME NEW taken \in SUBSET Transactions, Watch(taken) PROVE contested' \subseteq Transactions
  BY <1>1 DEF Watch, Clashes, Remembered
<1>2. contested' \subseteq Transactions
  BY <1>1 DEF Next, Remembered
<1>3. ASSUME NEW r \in Requests, Break(r) PROVE torn' \subseteq Transactions \X (0 .. MaxRevision) \X Tearing
  <2>1. CASE req[r].at \in Tearing
    <3>1. req[r] \in Request /\ req[r].at \in Hook \cup {"event"}
      BY <2>1 DEF TypeInv, Typed, Tearing, Hook
    <3>2. req[r].t \in Transactions
      BY <3>1, Fields
    <3>3. decision[req[r].t].revision \in 0 .. MaxRevision
      BY <3>2 DEF TypeInv, Typed, Decision
    <3>4. QED
      BY <1>3, <2>1, <3>2, <3>3 DEF Break, Remembered
  <2>2. CASE req[r].at \notin Tearing
    BY <1>3, <2>2 DEF Break, Remembered
  <2>3. QED
    BY <2>1, <2>2
<1>4. torn' \subseteq Transactions \X (0 .. MaxRevision) \X Tearing
  BY <1>3 DEF Next, Remembered
<1>5. QED
  BY <1>2, <1>4 DEF Remembered

\* Every variable keeps its type, whatever interleaves and wherever requests die.
THEOREM TypeCorrect == Spec => []TypeOK
<1>1. Init => TypeInv /\ Remembered
  BY InitTyped DEF Init, Remembered
<1>2. TypeInv /\ Remembered /\ [Next]_vars => (TypeInv /\ Remembered)'
  BY NextTyped, NextRemembered
<1>3. TypeInv /\ Remembered => TypeOK
  BY DEF TypeInv, Typed, Remembered, TypeOK
<1>4. QED
  BY <1>1, <1>2, <1>3, PTL DEF Spec

-----------------------------------------------------------------------------
(* The inductive invariant.  It speaks of one transaction at a time: what  *)
(* a request about it read and still holds when it writes, and what the    *)
(* tables say of it, unless it is contested.  Requests that only add to a  *)
(* transaction may be many; one that takes from it is alone with it.       *)

\* A request is at one of these stages with this transaction.
Doing(t, stages) == \E r \in Requests : t \in Taking(req[r]) /\ req[r].at \in stages

\* The change that wrote t's decision left every trace and did its hook.
Whole(t) == \A k \in Tearing : <<t, decision[t].revision, k>> \notin torn

\* What a request that takes from t holds of it ...
TakerFacts(q, t) ==
  /\ q.at = "decide" => q.to.revision = decision[t].revision + 1
  /\ q.at = "claim" => q.to.revision = decision[t].revision /\ q.to.state = decision[t].state
  /\ q.at = "event" => q.to = decision[t]
  /\ q.at \in Tearing => Whole(t)
  /\ q.at \in {"unsettle", "unallocate", "unreconcile"} => link[t] = NoLink
  /\ q.at \in {"unallocate", "unreconcile"} => carried[t] \notin Plans
  /\ q.at = "unreconcile" => PaysNothing(t)
  /\ q.at = "delete" => link[t] \in {NoLink, [id |-> q.id, payable |-> q.p]}

\* ... one that adds to it ...
Backed(s, t) == plan[s] \in {None, link[t].payable}
AdderFacts(q, t) ==
  /\ q.at = "link" => Considered(t)
  /\ q.at = "reconcile" => t \notin deleted
  /\ q.at \in {"allocate", "seed", "settle"} => Backed(q.s, t)

\* ... and one about a plan, of the plan.
PlanFacts(q) ==
  /\ q.at = "seeds" => plan[q.s] \in {None, q.p}
  /\ q.at \in {"seeds", "seed", "settle"} => plan[q.s] = None \/ q.s \in accounting

Holds(q, t) ==
  /\ t \in Taking(q) => TakerFacts(q, t)
  /\ t \in Adding(q) => AdderFacts(q, t)

\* What the tables say of t.
Logged(t) ==
  trail[t] = {n \in 1 .. decision[t].revision :
                <<t, n, "event">> \notin torn /\ ~(n = decision[t].revision /\ Doing(t, {"event"}))}
Good(t) ==
  /\ ~Doing(t, {"unsettle", "unallocate"}) /\ ~LinkDied(t) => Follow(t)
  /\ decision[t].state = "ignored" /\ ~Doing(t, Tearing) /\ Whole(t) => PaysNothing(t)
  /\ t \in deleted => carried[t] \notin Occurrences
  /\ Logged(t)
  /\ \A n \in 0 .. MaxRevision, k \in Tearing : <<t, n, k>> \in torn => n <= decision[t].revision

InOrder(t) == Good(t) /\ \A x \in Requests : Holds(req[x], t)

PlansInOrder ==
  /\ \A s \in accounting : plan[s] # None
  /\ \A x \in Requests : PlanFacts(req[x])

IInv ==
  /\ TypeInv
  /\ Remembered
  /\ PlansInOrder
  /\ Clashes \subseteq contested
  /\ \A t \in Transactions \ contested : InOrder(t)

\* A request that goes on leaves the others where they are.
LEMMA GoesOnly ==
  ASSUME TypeInv, NEW r \in Requests, NEW next, Goes(r, next)
  PROVE  /\ req'[r] = next
         /\ \A x \in Requests \ {r} : req'[x] = req[x]
  BY DEF Goes, TypeInv, Typed

\* A transaction that does not become contested is at no request's hands but
\* the one that takes from it, before or after the step.
LEMMA Unshared ==
  ASSUME IInv, NEW taken, Watch(taken), NEW t \in Transactions \ contested', NEW r \in Requests,
         NEW x \in Requests \ {r}
  PROVE  /\ t \notin contested
         /\ t \in Taking(req[r]) => t \notin Taking(req[x]) \cup Adding(req[x])
         /\ t \in Taking(req'[r]) => t \notin Taking(req'[x]) \cup Adding(req'[x])
<1>1. t \notin contested /\ t \notin Clashes /\ t \notin Clashes'
  BY DEF Watch, IInv
<1>2. QED
  BY <1>1 DEF Clashes

\* A transaction a step takes nothing but what goes with a row, and adds
\* nothing to.
Fades(t) ==
  /\ decision'[t] = decision[t] /\ trail'[t] = trail[t] /\ (t \in deleted' <=> t \in deleted)
  /\ \A n, k : <<t, n, k>> \in torn' <=> <<t, n, k>> \in torn
  /\ link'[t] \in {link[t], NoLink}
  /\ carried'[t] \in {carried[t], None}
  /\ \A s \in Plans : <<s, t>> \in allocated' => <<s, t>> \in allocated
  /\ Follow(t) => Follow(t)'

\* Such a transaction stays in order, if the requests about it do.
LEMMA Bystander ==
  ASSUME NEW t \in Transactions, InOrder(t), Fades(t),
         \A x \in Requests : req[x].at \in {"allocate", "seed", "settle"} =>
            (Backed(req[x].s, t) => (plan'[req[x].s] \in {None, link'[t].payable})),
         \A x \in Requests :
           \/ req'[x] = req[x]
           \/ /\ t \notin Taking(req[x]) \cup Taking(req'[x])
              /\ t \in Adding(req'[x]) => AdderFacts(req[x], t)'
  PROVE  InOrder(t)'
<1>1. \A stages : Doing(t, stages)' <=> Doing(t, stages)
  BY DEF Doing
<1>2. Whole(t)' <=> Whole(t)
  BY DEF Whole, Fades
<1>3. PaysNothing(t) => PaysNothing(t)'
  BY ObligationsAssumption DEF PaysNothing, Fades
<1>4. LinkDied(t)' <=> LinkDied(t)
  BY DEF LinkDied, Fades
<1>5. Good(t)'
  <2>1. ~Doing(t, {"unsettle", "unallocate"})' /\ ~LinkDied(t)' => Follow(t)'
    BY <1>1, <1>4 DEF InOrder, Good, Fades
  <2>2. decision'[t].state = "ignored" /\ ~Doing(t, Tearing)' /\ Whole(t)' => PaysNothing(t)'
    BY <1>1, <1>2, <1>3 DEF InOrder, Good, Fades
  <2>3. t \in deleted' => carried'[t] \notin Occurrences
    BY ObligationsAssumption DEF InOrder, Good, Fades
  <2>4. Logged(t)'
    BY <1>1 DEF InOrder, Good, Logged, Fades
  <2>5. \A n \in 0 .. MaxRevision, k \in Tearing : <<t, n, k>> \in torn' => n <= decision'[t].revision
    BY DEF InOrder, Good, Fades
  <2>6. QED
    BY <2>1, <2>2, <2>3, <2>4, <2>5 DEF Good
<1>6. ASSUME NEW x \in Requests PROVE Holds(req[x], t)'
  <2>1. CASE req'[x] = req[x]
    <3>1. Holds(req[x], t)
      BY DEF InOrder
    <3>2. ASSUME t \in Taking(req[x]) PROVE TakerFacts(req[x], t)'
      <4>1. TakerFacts(req[x], t)
        BY <3>1, <3>2 DEF Holds
      <4>2. (req[x].at \in Tearing => Whole(t)') /\ (req[x].at = "unreconcile" => PaysNothing(t)')
        BY <4>1, <1>2, <1>3 DEF TakerFacts
      <4>3. QED
        BY <4>1, <4>2, <2>1, ObligationsAssumption DEF TakerFacts, Fades
    <3>3. ASSUME t \in Adding(req[x]) PROVE AdderFacts(req[x], t)'
      <4>1. AdderFacts(req[x], t)
        BY <3>1, <3>3 DEF Holds
      <4>2. QED
        BY <4>1, <2>1 DEF AdderFacts, Backed, Considered, Fades
    <3>4. QED
      BY <3>2, <3>3, <2>1 DEF Holds, Taking, Adding
  <2>2. CASE t \notin Taking(req'[x]) /\ (t \in Adding(req'[x]) => AdderFacts(req[x], t)')
    BY <2>2 DEF Holds, Taking, Adding
  <2>3. QED
    BY <2>1, <2>2
<1>7. QED
  BY <1>5, <1>6 DEF InOrder

-----------------------------------------------------------------------------
(* The steps of requests that only read                                    *)

Untouched(t) ==
  /\ decision'[t] = decision[t] /\ trail'[t] = trail[t] /\ (t \in deleted' <=> t \in deleted)
  /\ link'[t] = link[t] /\ carried'[t] = carried[t]
  /\ \A s \in Plans : <<s, t>> \in allocated' <=> <<s, t>> \in allocated

\* A request that adds to t, or does not touch it, leaves the rest to Bystander.
LEMMA Adder ==
  ASSUME IInv, NEW t \in Transactions \ contested, NEW r \in Requests, NEW next, Goes(r, next),
         plan' = plan, link'[t] = link[t], Fades(t),
         t \notin Taking(req[r]) \cup Taking(next),
         t \in Adding(next) => AdderFacts(req[r], t)'
  PROVE  InOrder(t)'
<1>1. InOrder(t) /\ t \in Transactions
  BY DEF IInv
<1>2. req'[r] = next /\ \A x \in Requests \ {r} : req'[x] = req[x]
  BY GoesOnly DEF IInv
<1>3. \A x \in Requests :
           \/ req'[x] = req[x]
           \/ /\ t \notin Taking(req[x]) \cup Taking(req'[x])
              /\ t \in Adding(req'[x]) => AdderFacts(req[x], t)'
  BY <1>2
<1>4. \A x \in Requests : req[x].at \in {"allocate", "seed", "settle"} =>
            (Backed(req[x].s, t) => (plan'[req[x].s] \in {None, link'[t].payable}))
  BY DEF Backed
<1>5. QED
  BY <1>1, <1>3, <1>4, Bystander

LEMMA ReadFades ==
  ASSUME UNCHANGED <<obligationVars, inclusionVars, torn>>, NEW t \in Transactions
  PROVE  Fades(t) /\ Untouched(t)
  BY DEF Fades, Untouched, Follow

\* A request about plans stays in order with them.
LEMMA PlansKept ==
  ASSUME IInv, NEW r \in Requests, NEW next, Goes(r, next), UNCHANGED <<plan, accounting>>,
         PlanFacts(next)
  PROVE  PlansInOrder'
<1>1. req'[r] = next /\ \A x \in Requests \ {r} : req'[x] = req[x]
  BY GoesOnly DEF IInv
<1>2. ASSUME NEW x \in Requests PROVE PlanFacts(req[x])'
  BY <1>1 DEF IInv, PlansInOrder, PlanFacts
<1>3. QED
  BY <1>2 DEF IInv, PlansInOrder

\* What a step must do for the invariant.
Preserved == PlansInOrder' /\ \A t \in Transactions \ contested' : InOrder(t)'

\* The transaction a request takes from is its alone.
LEMMA Sole ==
  ASSUME IInv, NEW taken, Watch(taken), NEW t \in Transactions \ contested', NEW r \in Requests,
         NEW next, Goes(r, next), t \in Taking(req[r]) \cup Taking(next), t \notin Adding(next)
  PROVE  /\ InOrder(t)
         /\ \A stages : Doing(t, stages) <=> t \in Taking(req[r]) /\ req[r].at \in stages
         /\ \A stages : Doing(t, stages)' <=> t \in Taking(next) /\ next.at \in stages
         /\ Good(t)' /\ (t \in Taking(next) => TakerFacts(req[r], t)') => InOrder(t)'
<1>1. req'[r] = next /\ \A x \in Requests \ {r} : req'[x] = req[x]
  BY GoesOnly DEF IInv
<1>2. \A x \in Requests \ {r} : t \notin Taking(req[x]) \cup Adding(req[x])
  BY <1>1, Unshared
<1>3. t \notin contested /\ InOrder(t)
  BY DEF Watch, IInv
<1>4. \A stages : Doing(t, stages) <=> t \in Taking(req[r]) /\ req[r].at \in stages
  BY <1>2 DEF Doing
<1>5. \A stages : Doing(t, stages)' <=> t \in Taking(next) /\ next.at \in stages
  BY <1>1, <1>2 DEF Doing
<1>6. ASSUME Good(t)', t \in Taking(next) => TakerFacts(req[r], t)' PROVE InOrder(t)'
  <2>1. \A x \in Requests \ {r} : Holds(req[x], t)'
    BY <1>1, <1>2 DEF Holds
  <2>2. Holds(req[r], t)'
    BY <1>1, <1>6 DEF Holds
  <2>3. QED
    BY <1>6, <2>1, <2>2 DEF InOrder
<1>7. QED
  BY <1>3, <1>4, <1>5, <1>6

\* The tables say the same of t, and requests are where they were but for
\* stages at which nothing is excused.
LEMMA GoodKept ==
  ASSUME NEW t \in Transactions, Good(t), Untouched(t), UNCHANGED <<plan, accounting, torn>>,
         Doing(t, Tearing)' <=> Doing(t, Tearing),
         Doing(t, {"event"})' <=> Doing(t, {"event"}),
         Doing(t, {"unsettle", "unallocate"})' <=> Doing(t, {"unsettle", "unallocate"})
  PROVE  Good(t)'
<1>1. Follow(t)' <=> Follow(t)
  BY DEF Follow, Untouched
<1>2. PaysNothing(t)' <=> PaysNothing(t)
  BY DEF PaysNothing, Untouched
<1>3. (LinkDied(t)' <=> LinkDied(t)) /\ (Whole(t)' <=> Whole(t))
  BY DEF LinkDied, Whole, Untouched
<1>4. Logged(t)'
  BY DEF Good, Logged, Untouched
<1>5. QED
  BY <1>1, <1>2, <1>3, <1>4 DEF Good, Untouched

LEMMA IdleFacts == Taking(Idle) = {} /\ Adding(Idle) = {} /\ PlanFacts(Idle)
  BY DEF Taking, Adding, Idle, PlanFacts, Hook

LEMMA ReadsInOrder ==
  ASSUME IInv, NEW r \in Requests, NEW u \in Transactions,
         NEW target \in {"considered", "ignored"}, NEW origin \in {"manual", "rule"},
         Reads(r, u, target, origin), Watch({}), UNCHANGED torn
  PROVE  Preserved
<1> DEFINE was == decision[u]
           now == [state |-> target, origin |-> origin, revision |-> was.revision + 1]
<1>1. UNCHANGED <<obligationVars, inclusionVars, torn>>
  BY DEF Reads
<1>2. PICK next : /\ Goes(r, next)
                  /\ \/ next = [at |-> "decide", t |-> u, to |-> now]
                     \/ /\ next = [at |-> "claim", t |-> u, to |-> [was EXCEPT !.origin = "manual"]]
  BY DEF Reads
<1>3. req'[r] = next
  BY <1>2, GoesOnly DEF IInv
<1>4. Taking(next) = {u} /\ Adding(next) = {} /\ PlanFacts(next) /\ next.at \notin Tearing
  BY <1>2 DEF Taking, Adding, PlanFacts, Tearing
<1>5. Taking(req[r]) = {}
  BY IdleFacts DEF Reads, Starts
<1>6. PlansInOrder'
  BY <1>1, <1>2, <1>4, PlansKept
<1>7. ASSUME NEW t \in Transactions \ contested' PROVE InOrder(t)'
  <2>0. t \notin contested
    BY DEF Watch
  <2>1. CASE t # u
    BY <1>1, <1>2, <1>4, <1>5, <2>0, <2>1, ReadFades, Adder
  <2>2. CASE t = u
    <3>1. /\ InOrder(t)
          /\ \A stages : Doing(t, stages) <=> t \in Taking(req[r]) /\ req[r].at \in stages
          /\ \A stages : Doing(t, stages)' <=> t \in Taking(next) /\ next.at \in stages
          /\ Good(t)' /\ (t \in Taking(next) => TakerFacts(req[r], t)') => InOrder(t)'
      BY <1>2, <1>4, <2>2, Sole
    <3>2. Good(t)'
      BY <1>1, <1>4, <1>5, <3>1, ReadFades, GoodKept DEF InOrder, Tearing
    <3>3. TakerFacts(req[r], t)'
      <4>1. was \in Decision /\ decision' = decision
        BY <1>1 DEF IInv, TypeInv, Typed
      <4>2. [was EXCEPT !.origin = "manual"].state = was.state
            /\ [was EXCEPT !.origin = "manual"].revision = was.revision
        BY <4>1 DEF Decision
      <4>3. CASE next = [at |-> "decide", t |-> u, to |-> now]
        <5>1. next.at = "decide" /\ next.to.revision = decision[t].revision + 1
          BY <4>3, <2>2
        <5>2. QED
          BY <1>3, <4>1, <5>1 DEF TakerFacts, Tearing
      <4>4. CASE next = [at |-> "claim", t |-> u, to |-> [was EXCEPT !.origin = "manual"]]
        <5>1. /\ next.at = "claim"
              /\ next.to.revision = decision[t].revision /\ next.to.state = decision[t].state
          BY <4>4, <4>2, <2>2
        <5>2. QED
          BY <1>3, <4>1, <5>1 DEF TakerFacts, Tearing
      <4>5. QED
        BY <1>2, <4>3, <4>4
    <3>4. QED
      BY <3>1, <3>2, <3>3
  <2>3. QED
    BY <2>1, <2>2
<1>8. QED
  BY <1>6, <1>7 DEF Preserved

\* A request that only read and goes on to something that takes nothing.
LEMMA ReaderInOrder ==
  ASSUME IInv, NEW r \in Requests, NEW next, Goes(r, next), Watch({}),
         UNCHANGED <<obligationVars, inclusionVars, torn>>,
         PlanFacts(next), Taking(req[r]) = {}, Taking(next) = {},
         \A t \in Adding(next) \ contested : AdderFacts(next, t)
  PROVE  Preserved
<1>1. PlansInOrder'
  BY PlansKept
<1>2. ASSUME NEW t \in Transactions \ contested' PROVE InOrder(t)'
  <2>1. t \notin contested
    BY DEF Watch
  <2>2. req'[r] = next
    BY GoesOnly DEF IInv
  <2>3. t \in Adding(next) => AdderFacts(req[r], t)'
    BY <2>1, <2>2 DEF AdderFacts, Considered, Backed
  <2>4. QED
    BY <2>1, <2>3, ReadFades, Adder
<1>3. QED
  BY <1>1, <1>2 DEF Preserved

LEMMA CheckLinkInOrder ==
  ASSUME IInv, NEW r \in Requests, NEW p \in Payables, NEW u \in Transactions,
         CheckLink(r, p, u), Watch({}), UNCHANGED torn
  PROVE  Preserved
<1> DEFINE next == [at |-> "link", t |-> u, p |-> p]
<1>1. Taking(next) = {} /\ Adding(next) = {u} /\ PlanFacts(next) /\ Taking(req[r]) = {}
  BY IdleFacts DEF CheckLink, Starts, Taking, Adding, PlanFacts, Hook
<1>2. AdderFacts(next, u)
  BY DEF CheckLink, AdderFacts
<1>3. QED
  BY <1>1, <1>2, ReaderInOrder DEF CheckLink

LEMMA CheckAllocationInOrder ==
  ASSUME IInv, NEW r \in Requests, NEW s \in Plans, NEW u \in Transactions,
         CheckAllocation(r, s, u), Watch({}), UNCHANGED torn
  PROVE  Preserved
<1>1. PICK replaces \in BOOLEAN : Goes(r, [at |-> "allocate", s |-> s, t |-> u, replaces |-> replaces])
  BY DEF CheckAllocation
<1> DEFINE next == [at |-> "allocate", s |-> s, t |-> u, replaces |-> replaces]
<1>2. Taking(next) = {} /\ Adding(next) = {u} /\ PlanFacts(next) /\ Taking(req[r]) = {}
  BY IdleFacts DEF CheckAllocation, Starts, Taking, Adding, PlanFacts, Hook
<1>3. AdderFacts(next, u)
  BY DEF CheckAllocation, AdderFacts, Backed
<1>4. QED
  BY <1>1, <1>2, <1>3, ReaderInOrder DEF CheckAllocation

LEMMA CheckOccurrenceInOrder ==
  ASSUME IInv, NEW r \in Requests, NEW o \in Occurrences, NEW u \in Transactions,
         CheckOccurrence(r, o, u), Watch({}), UNCHANGED torn
  PROVE  Preserved
<1> DEFINE next == [at |-> "reconcile", t |-> u, o |-> o]
<1>1. Taking(next) = {} /\ Adding(next) = {u} /\ PlanFacts(next) /\ Taking(req[r]) = {}
  BY IdleFacts DEF CheckOccurrence, Starts, Taking, Adding, PlanFacts, Hook
<1>2. AdderFacts(next, u)
  BY DEF CheckOccurrence, AdderFacts
<1>3. QED
  BY <1>1, <1>2, ReaderInOrder DEF CheckOccurrence

LEMMA CountPlansInOrder ==
  ASSUME IInv, NEW r \in Requests, NEW p \in Payables, CountPlans(r, p), Watch({}), UNCHANGED torn
  PROVE  Preserved
<1> DEFINE next == [at |-> "plan", p |-> p, first |-> Settling(p) = {}]
<1>1. Taking(next) = {} /\ Adding(next) = {} /\ PlanFacts(next) /\ Taking(req[r]) = {}
  BY IdleFacts DEF CountPlans, Starts, Taking, Adding, PlanFacts, Hook
<1>2. QED
  BY <1>1, ReaderInOrder DEF CountPlans

LEMMA ReadSeedsInOrder ==
  ASSUME IInv, NEW r \in Requests, ReadSeeds(r), Watch({}), UNCHANGED torn
  PROVE  Preserved
<1> DEFINE q == req[r]
           next == [at |-> "seed", s |-> q.s, seeds |-> LinkedTo(q.p)]
<1>1. q.at = "seeds" /\ PlanFacts(q)
  BY DEF ReadSeeds, At, IInv, PlansInOrder
<1>2. Taking(next) = {} /\ Adding(next) = LinkedTo(q.p) /\ PlanFacts(next) /\ Taking(q) = {}
  BY <1>1 DEF Taking, Adding, PlanFacts, Hook
<1>3. \A t \in LinkedTo(q.p) : AdderFacts(next, t)
  BY <1>1 DEF LinkedTo, AdderFacts, Backed, PlanFacts
<1>4. QED
  BY <1>2, <1>3, ReaderInOrder DEF ReadSeeds

LEMMA NextSeedInOrder ==
  ASSUME IInv, NEW r \in Requests, NextSeed(r), Watch({}), UNCHANGED torn
  PROVE  Preserved
<1> DEFINE q == req[r]
<1>1. q.at = "seed" /\ PlanFacts(q) /\ q \in Request
  BY DEF NextSeed, At, IInv, PlansInOrder, TypeInv, Typed
<1>2. q = [at |-> "seed", s |-> q.s, seeds |-> q.seeds] /\ q.seeds \subseteq Transactions
  BY <1>1, Fields
<1>3. Taking(q) = {} /\ Adding(q) = q.seeds
  BY <1>1 DEF Taking, Adding, Hook
<1>4. \A t \in q.seeds \ contested : Backed(q.s, t)
  BY <1>1, <1>2, <1>3 DEF IInv, InOrder, Holds, AdderFacts
<1>5. CASE Goes(r, Idle)
  BY <1>3, <1>5, IdleFacts, ReaderInOrder DEF NextSeed
<1>6. ASSUME NEW t \in q.seeds,
             Goes(r, IF carried[t] = q.s THEN [q EXCEPT !.seeds = q.seeds \ {t}]
                     ELSE [at |-> "settle", s |-> q.s, seeds |-> q.seeds \ {t}, t |-> t])
      PROVE Preserved
  <2>1. PICK next : /\ Goes(r, next)
                    /\ \/ next = [at |-> "seed", s |-> q.s, seeds |-> q.seeds \ {t}]
                       \/ next = [at |-> "settle", s |-> q.s, seeds |-> q.seeds \ {t}, t |-> t]
    BY <1>2, <1>6
  <2>2. Taking(next) = {} /\ Adding(next) \subseteq q.seeds /\ PlanFacts(next)
    BY <1>1, <1>6, <2>1 DEF Taking, Adding, PlanFacts, Hook
  <2>3. \A x \in Adding(next) \ contested : AdderFacts(next, x)
    BY <1>4, <2>1, <2>2 DEF AdderFacts
  <2>4. QED
    BY <1>3, <2>1, <2>2, <2>3, ReaderInOrder DEF NextSeed
<1>7. QED
  BY <1>5, <1>6 DEF NextSeed

LEMMA ReadLinkInOrder ==
  ASSUME IInv, NEW r \in Requests, NEW u \in Transactions, ReadLink(r, u), Watch({}), UNCHANGED torn
  PROVE  Preserved
<1> DEFINE next == [at |-> "delete", t |-> u, p |-> link[u].payable, id |-> link[u].id]
<1>1. UNCHANGED <<obligationVars, inclusionVars, torn>> /\ Goes(r, next)
  BY DEF ReadLink
<1>2. req'[r] = next
  BY <1>1, GoesOnly DEF IInv
<1>3. Taking(next) = {u} /\ Adding(next) = {} /\ PlanFacts(next) /\ next.at \notin Tearing
  BY DEF Taking, Adding, PlanFacts, Tearing
<1>4. Taking(req[r]) = {}
  BY IdleFacts DEF ReadLink, Starts
<1>5. PlansInOrder'
  BY <1>1, <1>3, PlansKept
<1>6. ASSUME NEW t \in Transactions \ contested' PROVE InOrder(t)'
  <2>0. t \notin contested
    BY DEF Watch
  <2>1. CASE t # u
    BY <1>1, <1>3, <1>4, <2>0, <2>1, ReadFades, Adder
  <2>2. CASE t = u
    <3>1. /\ InOrder(t)
          /\ \A stages : Doing(t, stages) <=> t \in Taking(req[r]) /\ req[r].at \in stages
          /\ \A stages : Doing(t, stages)' <=> t \in Taking(next) /\ next.at \in stages
          /\ Good(t)' /\ (t \in Taking(next) => TakerFacts(req[r], t)') => InOrder(t)'
      BY <1>1, <1>3, <2>2, Sole
    <3>2. Good(t)'
      BY <1>1, <1>3, <1>4, <3>1, ReadFades, GoodKept DEF InOrder, Tearing
    <3>3. link[u] \in Link
      BY DEF IInv, TypeInv, Typed
    <3>4. TakerFacts(req[r], t)'
      BY <1>1, <1>2, <2>2, <3>3 DEF TakerFacts, Tearing, Link, NoLink
    <3>5. QED
      BY <3>1, <3>2, <3>4
  <2>3. QED
    BY <2>1, <2>2
<1>7. QED
  BY <1>5, <1>6 DEF Preserved

-----------------------------------------------------------------------------
(* The steps of requests that take from a transaction                      *)

LEMMA UntouchedFades ==
  ASSUME NEW t \in Transactions, Untouched(t), UNCHANGED <<plan, accounting>>,
         \A n, k : <<t, n, k>> \in torn' <=> <<t, n, k>> \in torn
  PROVE  Fades(t)
  BY DEF Untouched, Fades, Follow

\* Such a step is about one transaction, and has to leave that one in order.
LEMMA TakerInOrder ==
  ASSUME IInv, NEW r \in Requests, NEW next, Goes(r, next), Watch({}), NEW u \in Transactions,
         UNCHANGED <<plan, accounting>>,
         Taking(req[r]) = {u}, Taking(next) \subseteq {u}, Adding(next) = {}, PlanFacts(next),
         \A t \in Transactions \ {u} :
           Untouched(t) /\ \A n, k : <<t, n, k>> \in torn' <=> <<t, n, k>> \in torn,
         u \notin contested' => Good(u)' /\ (u \in Taking(next) => TakerFacts(req[r], u)')
  PROVE  Preserved
<1>1. PlansInOrder'
  BY PlansKept
<1>2. ASSUME NEW t \in Transactions \ contested' PROVE InOrder(t)'
  <2>1. t \notin contested
    BY DEF Watch
  <2>2. CASE t # u
    <3>1. Fades(t) /\ link'[t] = link[t]
      BY <2>2, UntouchedFades DEF Untouched
    <3>2. QED
      BY <2>1, <2>2, <3>1, Adder
  <2>3. CASE t = u
    BY <2>3, Sole
  <2>4. QED
    BY <2>2, <2>3
<1>3. QED
  BY <1>1, <1>2 DEF Preserved

\* What is known of the transaction it is about.
LEMMA TakerKnows ==
  ASSUME IInv, NEW r \in Requests, NEW next, Goes(r, next), Watch({}), NEW u \in Transactions,
         Taking(req[r]) = {u}, Adding(next) = {}, u \notin contested'
  PROVE  /\ Good(u) /\ TakerFacts(req[r], u)
         /\ \A stages : Doing(u, stages) <=> req[r].at \in stages
         /\ \A stages : Doing(u, stages)' <=> u \in Taking(next) /\ next.at \in stages
  BY Sole DEF InOrder, Holds

LEMMA UpsertInOrder ==
  ASSUME IInv, NEW r \in Requests, UpsertInclusionDecision(r), Watch({}), UNCHANGED torn
  PROVE  Preserved
<1> DEFINE q == req[r]
           next == IF q.at = "claim" THEN Idle ELSE [q EXCEPT !.at = "event"]
<1>1. q.at \in {"decide", "claim"} /\ q \in Request
  BY DEF UpsertInclusionDecision, At, IInv, TypeInv, Typed
<1>2. PICK u \in Transactions : u = q.t /\ q = [at |-> q.at, t |-> u, to |-> q.to] /\ q.to \in Decision
  BY <1>1, Fields
<1>3. Taking(q) = {u}
  BY <1>1, <1>2 DEF Taking
<1>4. [q EXCEPT !.at = "event"] = [at |-> "event", t |-> u, to |-> q.to]
  BY <1>2
<1>5. Goes(r, next) /\ req'[r] = next
  BY GoesOnly DEF UpsertInclusionDecision, At, IInv
<1>6. Taking(next) \subseteq {u} /\ Adding(next) = {} /\ PlanFacts(next)
  BY <1>2, <1>4, IdleFacts DEF Taking, Adding, PlanFacts
<1>7. /\ decision' = [decision EXCEPT ![u] = q.to]
      /\ UNCHANGED <<obligationVars, trail, deleted>>
  BY <1>2 DEF UpsertInclusionDecision
<1>8. /\ decision'[u] = q.to
      /\ \A t \in Transactions \ {u} : Untouched(t)
  BY <1>2, <1>7 DEF Untouched, IInv, TypeInv, Typed
<1>9. ASSUME u \notin contested' PROVE Good(u)' /\ (u \in Taking(next) => TakerFacts(q, u)')
  <2>1. /\ Good(u) /\ TakerFacts(q, u)
        /\ \A stages : Doing(u, stages) <=> q.at \in stages
        /\ \A stages : Doing(u, stages)' <=> u \in Taking(next) /\ next.at \in stages
    BY <1>2, <1>3, <1>5, <1>6, <1>9, TakerKnows
  <2>2. ~Doing(u, Tearing) /\ ~Doing(u, {"event"}) /\ ~Doing(u, {"unsettle", "unallocate"})
    BY <1>1, <2>1 DEF Tearing
  <2>3. (LinkDied(u)' <=> LinkDied(u)) /\ (Follow(u)' <=> Follow(u)) /\ (PaysNothing(u)' <=> PaysNothing(u))
    BY <1>7 DEF LinkDied, Follow, PaysNothing
  <2>4. CASE q.at = "claim"
    <3>1. next = Idle /\ \A stages : ~Doing(u, stages)'
      BY <2>1, <2>4, IdleFacts
    <3>2. decision'[u].state = decision[u].state /\ decision'[u].revision = decision[u].revision
      BY <1>8, <2>1, <2>4 DEF TakerFacts
    <3>3. Whole(u)' <=> Whole(u)
      BY <3>2 DEF Whole
    <3>4. Logged(u)'
      BY <1>7, <2>1, <2>2, <3>1, <3>2 DEF Good, Logged
    <3>5. Good(u)'
      BY <1>7, <2>1, <2>2, <2>3, <3>1, <3>2, <3>3, <3>4 DEF Good
    <3>6. QED
      BY <3>1, <3>5, IdleFacts
  <2>5. CASE q.at = "decide"
    <3>1. next = [at |-> "event", t |-> u, to |-> q.to] /\ Taking(next) = {u}
      BY <1>4, <2>5 DEF Taking
    <3>2. Doing(u, Tearing)' /\ Doing(u, {"event"})' /\ ~Doing(u, {"unsettle", "unallocate"})'
      BY <2>1, <3>1 DEF Tearing
    <3>3. decision'[u].revision = decision[u].revision + 1
      BY <1>8, <2>1, <2>5 DEF TakerFacts
    <3>4. decision[u].revision \in Nat /\ decision'[u].revision \in 0 .. MaxRevision
      BY <1>2, <1>8, ObligationsAssumption DEF IInv, TypeInv, Typed, Decision
    <3>5. \A n \in 0 .. MaxRevision, k \in Tearing : <<u, n, k>> \in torn' => n <= decision[u].revision
      BY <2>1 DEF Good
    <3>6. Whole(u)'
      BY <3>3, <3>4, <3>5 DEF Whole
    <3>7. Logged(u)'
      <4>1. trail[u] = {n \in 1 .. decision[u].revision : <<u, n, "event">> \notin torn}
        BY <2>1, <2>2 DEF Good, Logged
      <4>2. {n \in 1 .. decision[u].revision : <<u, n, "event">> \notin torn}
            = {n \in 1 .. decision'[u].revision : <<u, n, "event">> \notin torn /\ ~(n = decision'[u].revision)}
        BY <3>3, <3>4
      <4>3. QED
        BY <1>7, <3>2, <4>1, <4>2 DEF Logged
    <3>8. Good(u)'
      BY <1>7, <2>1, <2>2, <2>3, <3>2, <3>3, <3>4, <3>5, <3>7 DEF Good
    <3>9. TakerFacts(q, u)'
      BY <1>5, <1>8, <3>1, <3>6 DEF TakerFacts
    <3>10. QED
      BY <3>8, <3>9
  <2>6. QED
    BY <1>1, <2>4, <2>5
<1>10. QED
  BY <1>2, <1>3, <1>5, <1>6, <1>7, <1>8, <1>9, TakerInOrder

LEMMA EventInOrder ==
  ASSUME IInv, NEW r \in Requests, InsertInclusionEvent(r), Watch({}), UNCHANGED torn
  PROVE  Preserved
<1> DEFINE q == req[r]
           n == q.to.revision
           next == IF n \notin trail[q.t] /\ q.to.state = "ignored" THEN [at |-> "unlink", t |-> q.t] ELSE Idle
<1>1. q.at = "event" /\ q \in Request /\ n # 0
  BY DEF InsertInclusionEvent, At, IInv, TypeInv, Typed, ChangesCount
<1>2. PICK u \in Transactions : u = q.t /\ q.to \in Decision
  BY <1>1, Fields
<1>3. Taking(q) = {u}
  BY <1>1, <1>2 DEF Taking
<1>4. Goes(r, next) /\ req'[r] = next
  BY GoesOnly DEF InsertInclusionEvent, IInv
<1>5. Taking(next) \subseteq {u} /\ Adding(next) = {} /\ PlanFacts(next)
  BY <1>2, IdleFacts DEF Taking, Adding, PlanFacts
<1>6. /\ trail' = [trail EXCEPT ![u] = @ \cup {n}]
      /\ UNCHANGED <<obligationVars, decision, deleted>>
  BY <1>2 DEF InsertInclusionEvent
<1>7. /\ trail'[u] = trail[u] \cup {n}
      /\ \A t \in Transactions \ {u} : Untouched(t)
  BY <1>2, <1>6 DEF Untouched, IInv, TypeInv, Typed
<1>8. ASSUME u \notin contested' PROVE Good(u)' /\ (u \in Taking(next) => TakerFacts(q, u)')
  <2>1. /\ Good(u) /\ TakerFacts(q, u)
        /\ \A stages : Doing(u, stages) <=> q.at \in stages
        /\ \A stages : Doing(u, stages)' <=> u \in Taking(next) /\ next.at \in stages
    BY <1>2, <1>3, <1>4, <1>5, <1>8, TakerKnows
  <2>2. decision[u] = q.to /\ Whole(u)
    BY <1>1, <2>1 DEF TakerFacts, Tearing
  <2>3. Doing(u, {"event"}) /\ ~Doing(u, {"event"})' /\ ~Doing(u, {"unsettle", "unallocate"})'
        /\ ~Doing(u, {"unsettle", "unallocate"})
    BY <1>1, <2>1, IdleFacts
  <2>4. trail[u] = {m \in 1 .. n : <<u, m, "event">> \notin torn /\ m # n}
    BY <2>1, <2>2, <2>3 DEF Good, Logged
  <2>5. n \in 1 .. MaxRevision /\ <<u, n, "event">> \notin torn
    BY <1>1, <1>2, <2>2, ObligationsAssumption DEF Decision, Whole, Tearing
  <2>6. trail'[u] = {m \in 1 .. n : <<u, m, "event">> \notin torn}
    BY <1>7, <2>4, <2>5
  <2>7. Logged(u)'
    BY <1>6, <2>2, <2>3, <2>6 DEF Logged
  <2>8. (LinkDied(u)' <=> LinkDied(u)) /\ (Follow(u)' <=> Follow(u)) /\ (Whole(u)' <=> Whole(u))
    BY <1>6 DEF LinkDied, Follow, Whole
  <2>9. n \notin trail[u]
    BY <2>4
  <2>10. decision[u].state = "ignored" => next = [at |-> "unlink", t |-> u]
    BY <1>2, <2>2, <2>9
  <2>11. decision'[u].state = "ignored" => Doing(u, Tearing)'
    BY <1>6, <2>1, <2>10 DEF Taking, Hook, Tearing
  <2>12. Good(u)'
    BY <1>6, <2>1, <2>3, <2>7, <2>8, <2>11 DEF Good
  <2>13. TakerFacts(q, u)'
    BY <1>4, <2>2, <2>8 DEF TakerFacts, Idle
  <2>14. QED
    BY <2>12, <2>13
<1>9. QED
  BY <1>2, <1>3, <1>4, <1>5, <1>6, <1>7, <1>8, TakerInOrder

LEMMA OnIgnoredInOrder ==
  ASSUME IInv, NEW r \in Requests, OnIgnored(r), Watch({}), UNCHANGED torn
  PROVE  Preserved
<1> DEFINE q == req[r]
<1>1. q.at \in Hook /\ q \in Request
  BY DEF OnIgnored, At, Hook, IInv, TypeInv, Typed
<1>2. PICK u \in Transactions : u = q.t /\ q = [at |-> q.at, t |-> u]
  BY <1>1, Fields
<1>3. Taking(q) = {u}
  BY <1>1, <1>2 DEF Taking
<1>4. UNCHANGED <<plan, accounting, decision, trail, deleted>>
  BY DEF OnIgnored
<1>5. PICK next :
        /\ Goes(r, next)
        /\ \/ /\ q.at = "unlink" /\ next = [at |-> "unsettle", t |-> u]
              /\ link' = Unlinked(u) /\ UNCHANGED <<carried, allocated>>
           \/ /\ q.at = "unsettle" /\ next = [at |-> "unallocate", t |-> u]
              /\ carried' = WithoutEvent(u, Plans) /\ UNCHANGED <<link, allocated>>
           \/ /\ q.at = "unallocate" /\ next = [at |-> "unreconcile", t |-> u]
              /\ allocated' = WithoutAllocations(u, Plans) /\ UNCHANGED <<link, carried>>
           \/ /\ q.at = "unreconcile" /\ next = Idle
              /\ carried' = WithoutEvent(u, Occurrences) /\ UNCHANGED <<link, allocated>>
  <2>1. \A stage : [q EXCEPT !.at = stage] = [at |-> stage, t |-> u]
    BY <1>2
  <2>2. QED
    BY <1>2, <2>1 DEF OnIgnored, At
<1>6. req'[r] = next
  BY <1>5, GoesOnly DEF IInv
<1>7. Taking(next) \subseteq {u} /\ Adding(next) = {} /\ PlanFacts(next)
  BY <1>5, IdleFacts DEF Taking, Adding, PlanFacts
<1>8. /\ link' = link \/ link' = Unlinked(u)
      /\ \/ carried' = carried
         \/ \E events : carried' = WithoutEvent(u, events)
      /\ allocated' = allocated \/ allocated' = WithoutAllocations(u, Plans)
  BY <1>5
<1>9. \A t \in Transactions \ {u} : Untouched(t)
  BY <1>4, <1>8 DEF Untouched, Unlinked, WithoutEvent, WithoutAllocations, IInv, TypeInv, Typed
<1>10. carried'[u] \in {carried[u], None}
  BY <1>8 DEF WithoutEvent, IInv, TypeInv, Typed
<1>11. ASSUME u \notin contested' PROVE Good(u)' /\ (u \in Taking(next) => TakerFacts(q, u)')
  <2>1. /\ Good(u) /\ TakerFacts(q, u)
        /\ \A stages : Doing(u, stages) <=> q.at \in stages
        /\ \A stages : Doing(u, stages)' <=> u \in Taking(next) /\ next.at \in stages
    BY <1>3, <1>5, <1>7, <1>11, TakerKnows
  <2>2. (LinkDied(u)' <=> LinkDied(u)) /\ (Whole(u)' <=> Whole(u))
    BY <1>4 DEF LinkDied, Whole
  <2>3. ~Doing(u, {"event"}) /\ ~Doing(u, {"event"})'
    BY <1>5, <2>1, IdleFacts
  <2>4. Logged(u)'
    BY <1>4, <2>1, <2>3 DEF Good, Logged
  <2>5. u \in deleted' => carried'[u] \notin Occurrences
    BY <1>4, <1>10, <2>1, ObligationsAssumption DEF Good
  <2>6. ASSUME q.at \in Tearing PROVE Whole(u)'
    BY <2>1, <2>2, <2>6 DEF TakerFacts
  <2>7. CASE q.at = "unlink"
    <3>1. next = [at |-> "unsettle", t |-> u] /\ Taking(next) = {u} /\ link'[u] = NoLink
      BY <1>5, <2>7 DEF Taking, Hook, Unlinked, IInv, TypeInv, Typed
    <3>2. Doing(u, {"unsettle", "unallocate"})' /\ Doing(u, Tearing)'
      BY <2>1, <3>1 DEF Tearing
    <3>3. QED
      BY <1>4, <1>6, <2>1, <2>2, <2>4, <2>5, <2>6, <2>7, <3>1, <3>2 DEF Good, TakerFacts, Tearing
  <2>8. CASE q.at = "unsettle"
    <3>1. next = [at |-> "unallocate", t |-> u] /\ Taking(next) = {u} /\ link'[u] = NoLink
      BY <1>5, <2>1, <2>8 DEF Taking, Hook, TakerFacts
    <3>2. carried'[u] \notin Plans
      BY <1>5, <2>8, ObligationsAssumption DEF WithoutEvent, IInv, TypeInv, Typed
    <3>3. Doing(u, {"unsettle", "unallocate"})' /\ Doing(u, Tearing)'
      BY <2>1, <3>1 DEF Tearing
    <3>4. QED
      BY <1>4, <1>6, <2>1, <2>2, <2>4, <2>5, <2>6, <2>8, <3>1, <3>2, <3>3 DEF Good, TakerFacts, Tearing
  <2>9. CASE q.at = "unallocate"
    <3>1. next = [at |-> "unreconcile", t |-> u] /\ link'[u] = NoLink /\ carried'[u] \notin Plans
      BY <1>5, <2>1, <2>9 DEF TakerFacts
    <3>2. PaysNothing(u)'
      BY <1>5, <2>9, <3>1 DEF PaysNothing, WithoutAllocations
    <3>3. Follow(u)'
      BY <3>2 DEF PaysNothing, Follow
    <3>4. QED
      BY <1>4, <1>6, <2>1, <2>4, <2>5, <3>1, <3>2, <3>3 DEF Good, TakerFacts, PaysNothing, Tearing
  <2>10. CASE q.at = "unreconcile"
    <3>1. next = Idle
      BY <1>5, <2>10
    <3>2. PaysNothing(u)'
      BY <1>5, <1>10, <2>1, <2>10, ObligationsAssumption DEF TakerFacts, PaysNothing
    <3>3. Follow(u)'
      BY <3>2 DEF PaysNothing, Follow
    <3>4. QED
      BY <1>4, <2>1, <2>4, <2>5, <3>1, <3>2, <3>3, IdleFacts DEF Good
  <2>11. QED
    BY <1>5, <2>7, <2>8, <2>9, <2>10
<1>12. QED
  BY <1>3, <1>4, <1>5, <1>7, <1>9, <1>11, TakerInOrder

LEMMA DeleteLinkInOrder ==
  ASSUME IInv, NEW r \in Requests, DeleteLink(r), Watch({}), UNCHANGED torn
  PROVE  Preserved
<1> DEFINE q == req[r]
<1>1. q.at = "delete" /\ q \in Request
  BY DEF DeleteLink, At, IInv, TypeInv, Typed
<1>2. PICK u \in Transactions : u = q.t /\ q.p \in Payables /\ q.id \in LinkIds
  BY <1>1, Fields
<1>3. Taking(q) = {u}
  BY <1>1, <1>2 DEF Taking
<1>4. /\ Goes(r, Idle) /\ UNCHANGED <<plan, accounting, decision, trail, deleted>>
      /\ link' = IF link[u].id = q.id THEN Unlinked(u) ELSE link
      /\ carried' = WithoutEvent(u, Plans)
      /\ allocated' = WithoutAllocations(u, PlansOf(q.p))
  BY <1>2 DEF DeleteLink
<1>5. \A t \in Transactions \ {u} : Untouched(t)
  BY <1>4 DEF Untouched, Unlinked, WithoutEvent, WithoutAllocations, IInv, TypeInv, Typed
<1>6. carried'[u] \in {carried[u], None} /\ carried'[u] \notin Plans
  BY <1>4, ObligationsAssumption DEF WithoutEvent, IInv, TypeInv, Typed
<1>7. ASSUME u \notin contested' PROVE Good(u)'
  <2>1. /\ Good(u) /\ TakerFacts(q, u)
        /\ \A stages : Doing(u, stages) <=> q.at \in stages
        /\ \A stages : Doing(u, stages)' <=> u \in Taking(Idle) /\ Idle.at \in stages
    BY <1>3, <1>4, <1>7, IdleFacts, TakerKnows
  <2>2. (LinkDied(u)' <=> LinkDied(u)) /\ (Whole(u)' <=> Whole(u))
    BY <1>4 DEF LinkDied, Whole
  <2>3. \A stages : ~Doing(u, stages)'
    BY <2>1, IdleFacts
  <2>4. ~Doing(u, {"event"}) /\ ~Doing(u, Tearing) /\ ~Doing(u, {"unsettle", "unallocate"})
    BY <1>1, <2>1 DEF Tearing
  <2>5. Logged(u)'
    BY <1>4, <2>1, <2>3, <2>4 DEF Good, Logged
  <2>6. link'[u] = NoLink
    <3>1. link[u] \in {NoLink, [id |-> q.id, payable |-> q.p]}
      BY <1>1, <2>1 DEF TakerFacts
    <3>2. QED
      BY <1>4, <3>1, <1>2 DEF Unlinked, IInv, TypeInv, Typed
  <2>7. Follow(u) => Follow(u)'
    <3>1. link[u] \in {NoLink, [id |-> q.id, payable |-> q.p]}
      BY <1>1, <2>1 DEF TakerFacts
    <3>2. link[u].payable \in {None, q.p}
      BY <3>1 DEF NoLink
    <3>3. ASSUME Follow(u), NEW s \in Plans PROVE <<s, u>> \notin allocated'
      BY <1>4, <3>2, <3>3 DEF Follow, WithoutAllocations, PlansOf
    <3>4. QED
      BY <1>6, <3>3 DEF Follow
  <2>8. PaysNothing(u) => PaysNothing(u)'
    BY <1>4, <1>6, <2>6 DEF PaysNothing, WithoutAllocations
  <2>9. u \in deleted' => carried'[u] \notin Occurrences
    BY <1>4, <1>6, <2>1, ObligationsAssumption DEF Good
  <2>10. QED
    BY <1>4, <2>1, <2>2, <2>3, <2>4, <2>5, <2>7, <2>8, <2>9 DEF Good
<1>8. QED
  BY <1>3, <1>4, <1>5, <1>7, IdleFacts, TakerInOrder

\* A request that adds, or is about a plan, dies without a trace.
LEMMA BreakInOrder ==
  ASSUME IInv, NEW r \in Requests, Break(r), Watch({})
  PROVE  Preserved
<1> DEFINE q == req[r]
<1>1. q \in Request /\ Goes(r, Idle) /\ UNCHANGED <<obligationVars, inclusionVars>>
  BY DEF Break, IInv, TypeInv, Typed
<1>2. CASE Taking(q) = {}
  <2>1. UNCHANGED torn
    BY <1>2 DEF Break, Taking, Tearing, Hook
  <2>2. QED
    BY <1>1, <1>2, <2>1, IdleFacts, ReaderInOrder
<1>3. CASE Taking(q) # {}
  <2>1. q.at \in Hook \cup {"decide", "claim", "event", "delete"}
    BY <1>3 DEF Taking
  <2>2. PICK u \in Transactions : u = q.t
    BY <1>1, <2>1, Fields
  <2>3. Taking(q) = {u}
    BY <2>1, <2>2 DEF Taking
  <2>4. torn' = IF q.at \in Tearing THEN torn \cup {<<u, decision[u].revision, q.at>>} ELSE torn
    BY <2>2 DEF Break
  <2>5. \A t \in Transactions \ {u} : Untouched(t) /\ \A n, k : <<t, n, k>> \in torn' <=> <<t, n, k>> \in torn
    BY <1>1, <2>4 DEF Untouched
  <2>6. ASSUME u \notin contested' PROVE Good(u)'
    <3>1. /\ Good(u) /\ TakerFacts(q, u)
          /\ \A stages : Doing(u, stages) <=> q.at \in stages
          /\ \A stages : Doing(u, stages)' <=> u \in Taking(Idle) /\ Idle.at \in stages
      BY <1>1, <2>3, <2>6, IdleFacts, TakerKnows
    <3>2. \A stages : ~Doing(u, stages)'
      BY <3>1, IdleFacts
    <3>3. (Follow(u)' <=> Follow(u)) /\ (PaysNothing(u)' <=> PaysNothing(u)) /\ decision' = decision
          /\ trail' = trail /\ deleted' = deleted /\ carried' = carried
      BY <1>1 DEF Follow, PaysNothing
    <3>4. decision[u].revision \in 0 .. MaxRevision
      BY DEF IInv, TypeInv, Typed, Decision
    <3>5. CASE q.at \notin Tearing
      <4>1. torn' = torn /\ ~Doing(u, Tearing) /\ ~Doing(u, {"event"}) /\ ~Doing(u, {"unsettle", "unallocate"})
        BY <2>4, <3>1, <3>5 DEF Tearing
      <4>2. (LinkDied(u)' <=> LinkDied(u)) /\ (Whole(u)' <=> Whole(u))
        BY <3>3, <4>1 DEF LinkDied, Whole
      <4>3. Logged(u)'
        BY <3>1, <3>2, <3>3, <4>1 DEF Good, Logged
      <4>4. QED
        BY <3>1, <3>2, <3>3, <4>1, <4>2, <4>3 DEF Good
    <3>6. CASE q.at \in Tearing
      <4>1. torn' = torn \cup {<<u, decision[u].revision, q.at>>}
        BY <2>4, <3>6
      <4>2. ~Whole(u)'
        BY <3>3, <3>6, <4>1 DEF Whole
      <4>3. ~LinkDied(u)' => ~LinkDied(u) /\ q.at \notin {"unsettle", "unallocate"}
        BY <3>4, <4>1 DEF LinkDied
      <4>4. Logged(u)'
        <5>1. CASE q.at = "event"
          <6>1. Doing(u, {"event"})
            BY <3>1, <5>1
          <6>2. \A n : <<u, n, "event">> \notin torn' <=> <<u, n, "event">> \notin torn /\ n # decision[u].revision
            BY <4>1, <5>1
          <6>3. QED
            BY <3>1, <3>2, <3>3, <6>1, <6>2 DEF Good, Logged
        <5>2. CASE q.at # "event"
          <6>1. ~Doing(u, {"event"})
            BY <3>1, <5>2
          <6>2. \A n : <<u, n, "event">> \notin torn' <=> <<u, n, "event">> \notin torn
            BY <4>1, <5>2
          <6>3. QED
            BY <3>1, <3>2, <3>3, <6>1, <6>2 DEF Good, Logged
        <5>3. QED
          BY <5>1, <5>2
      <4>5. \A n \in 0 .. MaxRevision, k \in Tearing : <<u, n, k>> \in torn' => n <= decision'[u].revision
        BY <3>1, <3>3, <3>4, <4>1 DEF Good
      <4>6. QED
        BY <3>1, <3>2, <3>3, <4>2, <4>3, <4>4, <4>5 DEF Good
    <3>7. QED
      BY <3>5, <3>6
  <2>7. QED
    BY <1>1, <2>3, <2>5, <2>6, IdleFacts, TakerInOrder
<1>4. QED
  BY <1>2, <1>3

-----------------------------------------------------------------------------
(* The steps of requests that add to a transaction                         *)

LEMMA AdderInOrder ==
  ASSUME IInv, NEW r \in Requests, NEW next, Goes(r, next), Watch({}), NEW u \in Transactions,
         UNCHANGED <<plan, accounting, decision, trail, deleted, torn>>,
         Taking(req[r]) = {}, u \in Adding(req[r]), Taking(next) = {}, PlanFacts(next),
         \A t \in Adding(next) \ contested : AdderFacts(req[r], t)',
         \A t \in Transactions \ {u} : link'[t] = link[t] /\ Fades(t),
         link'[u] = link[u] \/ link[u] = NoLink,
         u \notin contested => /\ Follow(u) => Follow(u)'
                               /\ PaysNothing(u) => PaysNothing(u)' \/ Considered(u)
                               /\ u \in deleted => carried'[u] \notin Occurrences
  PROVE  Preserved
<1>1. PlansInOrder'
  BY PlansKept
<1>2. req'[r] = next /\ \A x \in Requests \ {r} : req'[x] = req[x]
  BY GoesOnly DEF IInv
<1>3. ASSUME NEW t \in Transactions \ contested' PROVE InOrder(t)'
  <2>1. t \notin contested /\ InOrder(t)
    BY DEF Watch, IInv
  <2>2. CASE t # u
    BY <2>1, <2>2, Adder
  <2>3. CASE t = u
    <3>1. \A x \in Requests : t \notin Taking(req[x]) /\ t \notin Taking(req'[x])
      <4>1. ASSUME NEW x \in Requests \ {r} PROVE t \notin Taking(req[x])
        BY <2>3, <4>1, Unshared
      <4>2. QED
        BY <1>2, <4>1
    <3>2. \A stages : ~Doing(t, stages) /\ ~Doing(t, stages)'
      BY <3>1 DEF Doing
    <3>3. (LinkDied(t)' <=> LinkDied(t)) /\ (Whole(t)' <=> Whole(t))
      BY DEF LinkDied, Whole
    <3>4. Logged(t)'
      BY <2>1, <3>2 DEF InOrder, Good, Logged
    <3>5. Good(t)'
      BY <2>1, <2>3, <3>2, <3>3, <3>4 DEF InOrder, Good, Considered
    <3>6. ASSUME NEW x \in Requests \ {r}, t \in Adding(req[x]) PROVE AdderFacts(req[x], t)'
      <4>1. AdderFacts(req[x], t) /\ req'[x] = req[x]
        BY <1>2, <2>1, <3>6 DEF InOrder, Holds
      <4>2. \A s : Backed(s, t) => plan'[s] \in {None, link'[t].payable}
        BY <2>3 DEF Backed, NoLink
      <4>3. QED
        BY <4>1, <4>2 DEF AdderFacts, Considered, Backed
    <3>7. \A x \in Requests : Holds(req[x], t)'
      BY <1>2, <2>1, <3>1, <3>6 DEF Holds
    <3>8. QED
      BY <3>5, <3>7 DEF InOrder
  <2>4. QED
    BY <2>2, <2>3
<1>4. QED
  BY <1>1, <1>3 DEF Preserved

LEMMA InsertLinkInOrder ==
  ASSUME IInv, NEW r \in Requests, InsertLink(r), Watch({}), UNCHANGED torn
  PROVE  Preserved
<1> DEFINE q == req[r]
<1>1. q.at = "link" /\ q \in Request
  BY DEF InsertLink, At, IInv, TypeInv, Typed
<1>2. PICK u \in Transactions : u = q.t /\ q.p \in Payables
  BY <1>1, Fields
<1>3. PICK p \in Payables : p = q.p
  BY <1>2
<1>4. Taking(q) = {} /\ Adding(q) = {u} /\ Goes(r, Idle)
  BY <1>1, <1>2 DEF Taking, Adding, Hook, InsertLink
<1>5. UNCHANGED <<payables, plan, accounting, allocated, inclusionVars>>
  BY DEF InsertLink
<1>6. CASE UNCHANGED <<link, carried>>
  <2>1. \A t \in Transactions : link'[t] = link[t] /\ Fades(t)
    BY <1>5, <1>6, ReadFades
  <2>2. u \notin contested => (u \in deleted => carried'[u] \notin Occurrences)
    BY <1>6 DEF IInv, InOrder, Good
  <2>3. (Follow(u) => Follow(u)') /\ (PaysNothing(u) => PaysNothing(u)')
    BY <1>5, <1>6 DEF Follow, PaysNothing
  <2>4. QED
    BY <1>4, <1>5, <2>1, <2>2, <2>3, IdleFacts, AdderInOrder
<1>7. CASE ~LinkConflict(p, u) /\ FreshLinks # {}
           /\ link' = [link EXCEPT ![u] = [id |-> FreshLink, payable |-> p]]
           /\ carried' = [carried EXCEPT ![u] =
                  IF Settling(p) # {} THEN CHOOSE s \in Settling(p) : TRUE ELSE @]
  <2>1. link[u] = NoLink /\ (Settling(p) # {} => carried[u] = None)
    BY <1>7 DEF LinkConflict
  <2>2. link'[u].payable = p
    BY <1>7 DEF IInv, TypeInv, Typed
  <2>3. \A t \in Transactions \ {u} : link'[t] = link[t] /\ Fades(t)
    <3>1. \A t \in Transactions \ {u} : Untouched(t)
      BY <1>5, <1>7 DEF Untouched
    <3>2. QED
      BY <1>5, <3>1, UntouchedFades DEF Untouched
  <2>4. \/ Settling(p) = {} /\ carried'[u] = carried[u]
        \/ carried'[u] \in Settling(p)
    BY <1>7 DEF IInv, TypeInv, Typed
  <2>5. \A s \in Settling(p) : s \in Plans /\ plan[s] = p /\ s \in accounting
    BY DEF Settling, PlansOf
  <2>6. Follow(u) => Follow(u)'
    <3>1. ASSUME Follow(u), NEW s \in Plans, <<s, u>> \in allocated' PROVE FALSE
      BY <1>5, <2>1, <3>1 DEF Follow, NoLink
    <3>2. ASSUME Follow(u), NEW s \in Plans, carried'[u] = s
          PROVE  s \in accounting' /\ link'[u].payable = plan'[s]
      <4>1. CASE Settling(p) = {} /\ carried'[u] = carried[u]
        <5>1. s \in accounting /\ plan[s] = None
          <6>1. carried[u] = s
            BY <3>2, <4>1
          <6>2. s \in accounting /\ link[u].payable = plan[s]
            BY <3>2, <6>1 DEF Follow
          <6>3. link[u].payable = None
            BY <2>1 DEF NoLink
          <6>4. QED
            BY <6>2, <6>3
        <5>2. QED
          BY <5>1 DEF IInv, PlansInOrder
      <4>2. CASE carried'[u] \in Settling(p)
        BY <1>5, <2>2, <2>5, <3>2, <4>2
      <4>3. QED
        BY <2>4, <4>1, <4>2
    <3>3. QED
      BY <3>1, <3>2 DEF Follow
  <2>7. u \notin contested => Considered(u) /\ (u \in deleted => carried[u] \notin Occurrences)
    BY <1>1, <1>4 DEF IInv, InOrder, Good, Holds, AdderFacts
  <2>8. u \notin contested => (u \in deleted => carried'[u] \notin Occurrences)
    BY <2>4, <2>5, <2>7, ObligationsAssumption
  <2>9. QED
    BY <1>4, <1>5, <2>1, <2>3, <2>6, <2>7, <2>8, IdleFacts, AdderInOrder
<1>8. QED
  BY <1>2, <1>3, <1>6, <1>7 DEF InsertLink

LEMMA SettleSeedInOrder ==
  ASSUME IInv, NEW r \in Requests, SettleSeed(r), Watch({}), UNCHANGED torn
  PROVE  Preserved
<1> DEFINE q == req[r]
<1>1. q.at = "settle" /\ q \in Request /\ PlanFacts(q)
  BY DEF SettleSeed, At, IInv, PlansInOrder, TypeInv, Typed
<1>2. PICK u \in Transactions, s \in Plans : u = q.t /\ s = q.s
  BY <1>1, Fields
<1>3. Taking(q) = {} /\ Adding(q) = q.seeds \cup {u}
  BY <1>1, <1>2 DEF Taking, Adding, Hook
<1>4. UNCHANGED <<payables, link, plan, accounting, allocated, inclusionVars>>
  BY DEF SettleSeed
<1>5. \A t \in Transactions \ contested : t \in Adding(q) => Backed(s, t)
  BY <1>1, <1>2 DEF IInv, InOrder, Holds, AdderFacts
<1>6. CASE Goes(r, Idle) /\ UNCHANGED carried
  <2>1. UNCHANGED <<obligationVars, inclusionVars, torn>>
    BY <1>4, <1>6
  <2>2. QED
    BY <1>3, <1>6, <2>1, IdleFacts, ReaderInOrder
<1>7. CASE /\ plan[s] # None /\ carried[u] = None
           /\ carried' = [carried EXCEPT ![u] = s]
           /\ Goes(r, [at |-> "seed", s |-> s, seeds |-> q.seeds])
  <2> DEFINE next == [at |-> "seed", s |-> s, seeds |-> q.seeds]
  <2>1. req'[r] = next
    BY <1>7, GoesOnly DEF IInv
  <2>2. Taking(next) = {} /\ Adding(next) = q.seeds /\ PlanFacts(next)
    BY <1>1, <1>2 DEF Taking, Adding, Hook, PlanFacts
  <2>3. q.seeds \subseteq Transactions
    BY <1>1, Fields
  <2>4. \A t \in Adding(next) \ contested : AdderFacts(req[r], t)'
    BY <1>3, <1>4, <1>5, <2>1, <2>2, <2>3 DEF AdderFacts, Backed
  <2>5. \A t \in Transactions \ {u} : link'[t] = link[t] /\ Fades(t)
    <3>1. \A t \in Transactions \ {u} : Untouched(t)
      BY <1>4, <1>7 DEF Untouched
    <3>2. QED
      BY <1>4, <3>1, UntouchedFades DEF Untouched
  <2>6. carried'[u] = s /\ s \in accounting
    BY <1>1, <1>2, <1>7 DEF PlanFacts, IInv, TypeInv, Typed
  <2>7. u \notin contested => link[u].payable = plan[s] /\ link[u] # NoLink
    BY <1>3, <1>5, <1>7 DEF Backed, NoLink
  <2>8. u \notin contested => (Follow(u) => Follow(u)')
    BY <1>4, <2>6, <2>7 DEF Follow
  <2>9. u \notin contested => ~PaysNothing(u)
    BY <2>7 DEF PaysNothing
  <2>10. carried'[u] \notin Occurrences
    BY <2>6, ObligationsAssumption
  <2>11. u \in Adding(q) /\ Goes(r, next)
    BY <1>3, <1>7
  <2>12. QED
    BY <1>3, <1>4, <2>2, <2>4, <2>5, <2>8, <2>9, <2>10, <2>11, AdderInOrder
<1>8. QED
  BY <1>2, <1>6, <1>7 DEF SettleSeed

LEMMA AllocateInOrder ==
  ASSUME IInv, NEW r \in Requests, Allocate(r), Watch({}), UNCHANGED torn
  PROVE  Preserved
<1> DEFINE q == req[r]
<1>1. q.at = "allocate" /\ q \in Request
  BY DEF Allocate, At, IInv, TypeInv, Typed
<1>2. PICK u \in Transactions, s \in Plans : u = q.t /\ s = q.s
  BY <1>1, Fields
<1>3. Taking(q) = {} /\ Adding(q) = {u} /\ Goes(r, Idle)
  BY <1>1, <1>2 DEF Taking, Adding, Hook, Allocate
<1>4. UNCHANGED <<payables, link, plan, accounting, carried, inclusionVars>>
  BY DEF Allocate
<1>5. u \notin contested => Backed(s, u)
  BY <1>1, <1>2, <1>3 DEF IInv, InOrder, Holds, AdderFacts
<1>6. CASE plan[s] = None
  <2>1. allocated' = allocated
    BY <1>2, <1>6 DEF Allocate
  <2>2. QED
    BY <1>3, <1>4, <2>1, IdleFacts, ReaderInOrder
<1>7. CASE plan[s] # None
  <2>1. PICK kept \in SUBSET allocated : allocated' = kept \cup {<<s, u>>}
    BY <1>2, <1>7 DEF Allocate
  <2>2. \A t \in Transactions \ {u} : link'[t] = link[t] /\ Fades(t)
    BY <1>4, <2>1 DEF Fades, Follow
  <2>3. u \notin contested => link[u].payable = plan[s] /\ link[u] # NoLink
    BY <1>5, <1>7 DEF Backed, NoLink
  <2>4. u \notin contested => (Follow(u) => Follow(u)')
    BY <1>4, <1>7, <2>1, <2>3 DEF Follow
  <2>5. u \notin contested => ~PaysNothing(u)
    BY <2>3 DEF PaysNothing
  <2>6. u \notin contested => (u \in deleted => carried'[u] \notin Occurrences)
    BY <1>4 DEF IInv, InOrder, Good
  <2>7. QED
    BY <1>3, <1>4, <2>2, <2>4, <2>5, <2>6, IdleFacts, AdderInOrder
<1>8. QED
  BY <1>6, <1>7

LEMMA PutOverrideInOrder ==
  ASSUME IInv, NEW r \in Requests, PutOverride(r), Watch({}), UNCHANGED torn
  PROVE  Preserved
<1> DEFINE q == req[r]
<1>1. q.at = "reconcile" /\ q \in Request
  BY DEF PutOverride, At, IInv, TypeInv, Typed
<1>2. PICK u \in Transactions, o \in Occurrences : u = q.t /\ o = q.o
  BY <1>1, Fields
<1>3. Taking(q) = {} /\ Adding(q) = {u} /\ Goes(r, Idle)
  BY <1>1, <1>2 DEF Taking, Adding, Hook, PutOverride
<1>4. UNCHANGED <<payables, link, plan, accounting, allocated, inclusionVars>>
  BY DEF PutOverride
<1>5. carried' = IF carried[u] \notin {None, o} THEN carried
                 ELSE [x \in Transactions |->
                        IF x = u THEN o ELSE IF carried[x] = o THEN None ELSE carried[x]]
  BY <1>2 DEF PutOverride
<1>6. \A t \in Transactions \ {u} : link'[t] = link[t] /\ Fades(t)
  <2>1. \A t \in Transactions \ {u} : carried'[t] \in {carried[t], None}
    BY <1>5
  <2>2. QED
    BY <1>4, <2>1, ObligationsAssumption DEF Fades, Follow
<1>7. carried'[u] = carried[u] \/ carried'[u] \in Occurrences
  BY <1>5
<1>8. (Follow(u) => Follow(u)') /\ (PaysNothing(u) => PaysNothing(u)')
  BY <1>4, <1>7, ObligationsAssumption DEF Follow, PaysNothing
<1>9. u \notin contested => (u \in deleted => carried'[u] \notin Occurrences)
  <2>1. u \notin contested => u \notin deleted
    BY <1>1, <1>3 DEF IInv, InOrder, Holds, AdderFacts
  <2>2. QED
    BY <2>1
<1>10. QED
  BY <1>3, <1>4, <1>6, <1>8, <1>9, IdleFacts, AdderInOrder

-----------------------------------------------------------------------------
(* Plans, and the steps of no request                                      *)

\* No request holds the identity of the plan another one inserts.
LEMMA InsertPlanInOrder ==
  ASSUME IInv, NEW r \in Requests, InsertPlan(r), Watch({}), UNCHANGED torn
  PROVE  Preserved
<1> DEFINE q == req[r]
<1>1. q.at = "plan" /\ q \in Request
  BY DEF InsertPlan, At, IInv, TypeInv, Typed
<1>2. PICK p \in Payables : p = q.p
  BY <1>1, Fields
<1>3. Taking(q) = {} /\ Adding(q) = {}
  BY <1>1 DEF Taking, Adding, Hook
<1>4. UNCHANGED <<payables, link, carried, allocated, inclusionVars>>
  BY DEF InsertPlan
<1>5. CASE Goes(r, Idle) /\ UNCHANGED <<plan, accounting>>
  BY <1>3, <1>4, <1>5, IdleFacts, ReaderInOrder
<1>6. ASSUME NEW s \in Plans, NEW next, Goes(r, next), plan[s] = None, s \notin Held("s"),
             plan' = [plan EXCEPT ![s] = p],
             \/ accounting' = accounting /\ next = Idle
             \/ accounting' = accounting \cup {s} /\ next = [at |-> "seeds", s |-> s, p |-> p]
      PROVE Preserved
  <2>1. req'[r] = next /\ \A x \in Requests \ {r} : req'[x] = req[x]
    BY <1>6, GoesOnly DEF IInv
  <2>2. plan'[s] = p /\ p # None /\ \A x \in Plans \ {s} : plan'[x] = plan[x]
    BY <1>6, ObligationsAssumption DEF IInv, TypeInv, Typed
  <2>3. Taking(next) = {} /\ Adding(next) = {}
    BY <1>6, IdleFacts DEF Taking, Adding, Hook
  <2>4. ASSUME NEW x \in Requests, req[x].at \in {"seeds", "seed", "settle", "allocate"}
        PROVE req[x].s \in Plans \ {s}
    <3>1. req[x] \in Request
      BY DEF IInv, TypeInv, Typed
    <3>2. req[x].s \in Plans /\ "s" \in DOMAIN req[x]
      BY <2>4, <3>1, SMTT(30) DEF Request, Idle, Hook
    <3>3. QED
      BY <1>6, <3>2 DEF Held
  <2>5. ASSUME NEW x \in Requests PROVE PlanFacts(req[x])'
    <3>1. CASE x # r
      BY <1>6, <2>1, <2>2, <2>4, <3>1 DEF IInv, PlansInOrder, PlanFacts
    <3>2. CASE x = r
      BY <1>6, <2>1, <2>2, <3>2 DEF PlanFacts, Idle
    <3>3. QED
      BY <3>1, <3>2
  <2>6. \A x \in accounting' : plan'[x] # None
    BY <1>6, <2>2 DEF IInv, PlansInOrder, TypeInv, Typed
  <2>7. ASSUME NEW t \in Transactions \ contested' PROVE InOrder(t)'
    <3>1. t \notin contested /\ InOrder(t)
      BY DEF Watch, IInv
    <3>2. s \notin accounting
      BY <1>6 DEF IInv, PlansInOrder
    <3>3. Follow(t) => Follow(t)'
      BY <1>4, <1>6, <2>2, <3>2 DEF Follow
    <3>4. Fades(t)
      BY <1>4, <3>3 DEF Fades
    <3>5. \A x \in Requests : req[x].at \in {"allocate", "seed", "settle"} =>
            (Backed(req[x].s, t) => (plan'[req[x].s] \in {None, link'[t].payable}))
      BY <1>4, <2>2, <2>4 DEF Backed
    <3>6. \A x \in Requests :
           \/ req'[x] = req[x]
           \/ /\ t \notin Taking(req[x]) \cup Taking(req'[x])
              /\ t \in Adding(req'[x]) => AdderFacts(req[x], t)'
      BY <1>3, <2>1, <2>3
    <3>7. QED
      BY <3>1, <3>4, <3>5, <3>6, Bystander
  <2>8. QED
    BY <2>5, <2>6, <2>7 DEF Preserved, PlansInOrder
<1>7. \/ Goes(r, Idle) /\ UNCHANGED <<plan, accounting>>
      \/ \E s \in Plans :
           /\ plan[s] = None /\ s \notin Held("s")
           /\ plan' = [plan EXCEPT ![s] = p]
           /\ accounting' = IF q.first THEN accounting \cup {s} ELSE accounting
           /\ Goes(r, IF q.first THEN [at |-> "seeds", s |-> s, p |-> p] ELSE Idle)
  BY <1>2 DEF InsertPlan
<1>8. ASSUME NEW s \in Plans,
             /\ plan[s] = None /\ s \notin Held("s")
             /\ plan' = [plan EXCEPT ![s] = p]
             /\ accounting' = IF q.first THEN accounting \cup {s} ELSE accounting
             /\ Goes(r, IF q.first THEN [at |-> "seeds", s |-> s, p |-> p] ELSE Idle)
      PROVE Preserved
  <2>1. CASE q.first
    BY <1>6, <1>8, <2>1
  <2>2. CASE ~q.first
    BY <1>6, <1>8, <2>2
  <2>3. QED
    BY <2>1, <2>2
<1>9. QED
  BY <1>5, <1>7, <1>8

\* A step of no request that takes no more than goes with its rows.
LEMMA FadingInOrder ==
  ASSUME IInv, Watch({}), req' = req, \A t \in Transactions : Fades(t),
         \A s \in Plans : plan'[s] \in {plan[s], None},
         \A s \in Plans, t \in Transactions : Backed(s, t) => plan'[s] \in {None, link'[t].payable},
         accounting' = {s \in accounting : plan'[s] # None}
  PROVE  Preserved
<1>1. ASSUME NEW x \in Requests, req[x].at \in {"seeds", "seed", "settle", "allocate"}
      PROVE req[x].s \in Plans
  <2>1. req[x] \in Request
    BY DEF IInv, TypeInv, Typed
  <2>2. QED
    BY <1>1, <2>1, Fields
<1>2. ASSUME NEW x \in Requests PROVE PlanFacts(req[x])'
  <2>1. PlanFacts(req[x])
    BY DEF IInv, PlansInOrder
  <2>2. QED
    BY <1>1, <2>1 DEF PlanFacts
<1>3. PlansInOrder'
  BY <1>2 DEF PlansInOrder
<1>4. ASSUME NEW t \in Transactions \ contested' PROVE InOrder(t)'
  <2>1. t \notin contested /\ InOrder(t)
    BY DEF Watch, IInv
  <2>2. \A x \in Requests : req[x].at \in {"allocate", "seed", "settle"} =>
            (Backed(req[x].s, t) => (plan'[req[x].s] \in {None, link'[t].payable}))
    BY <1>1
  <2>3. QED
    BY <2>1, <2>2, Bystander
<1>5. QED
  BY <1>3, <1>4 DEF Preserved

LEMMA EditsInOrder ==
  ASSUME IInv, Edits, Watch({}), UNCHANGED torn
  PROVE  Preserved
<1>0. accounting = {s \in accounting : plan[s] # None} /\ accounting \subseteq Plans
  BY DEF IInv, PlansInOrder, TypeInv, Typed
<1>1. ASSUME NEW p \in Payables, CreatePayable(p) PROVE Preserved
  BY <1>0, <1>1, FadingInOrder DEF CreatePayable, Fades, Follow, Backed
<1>2. ASSUME NEW p \in Payables, DeletePayable(p) PROVE Preserved
  <2>1. \A s \in Plans : plan'[s] = IF plan[s] = p THEN None ELSE plan[s]
    BY <1>2 DEF DeletePayable, Dropped, PlansOf
  <2>2. \A t \in Transactions :
          /\ link'[t] = IF link[t].payable = p THEN NoLink ELSE link[t]
          /\ carried'[t] \in {carried[t], None}
          /\ \A s \in Plans : carried'[t] = s => carried[t] = s /\ plan[s] # p
    BY <1>2, ObligationsAssumption DEF DeletePayable, Dropped, PlansOf
  <2>3. /\ accounting' = {s \in accounting : plan[s] # p}
        /\ \A a \in allocated' : a \in allocated
        /\ \A s \in Plans, t \in Transactions : <<s, t>> \in allocated' => plan[s] # p
    BY <1>0, <1>2 DEF DeletePayable, Dropped, PlansOf
  <2>4. accounting' = {s \in accounting : plan'[s] # None}
    BY <1>0, <2>1, <2>3
  <2>5. p # None
    BY ObligationsAssumption
  <2>6. \A s \in Plans, t \in Transactions : Backed(s, t) => plan'[s] \in {None, link'[t].payable}
    BY <2>1, <2>2, <2>5 DEF Backed
  <2>7. ASSUME NEW t \in Transactions PROVE Fades(t)
    <3>1. ASSUME Follow(t) PROVE Follow(t)'
      <4>1. ASSUME NEW s \in Plans, <<s, t>> \in allocated' PROVE plan'[s] # None /\ link'[t].payable = plan'[s]
        BY <2>1, <2>2, <2>3, <3>1, <4>1 DEF Follow
      <4>2. ASSUME NEW s \in Plans, carried'[t] = s PROVE s \in accounting' /\ link'[t].payable = plan'[s]
        BY <2>1, <2>2, <2>3, <3>1, <4>2 DEF Follow
      <4>3. QED
        BY <4>1, <4>2 DEF Follow
    <3>2. QED
      BY <1>2, <2>2, <2>3, <3>1 DEF Fades, DeletePayable
  <2>8. QED
    BY <1>2, <2>1, <2>4, <2>6, <2>7, FadingInOrder DEF DeletePayable
<1>3. ASSUME NEW d \in Plans, DeletePlan(d) PROVE Preserved
  <2>1. /\ link' = link /\ \A s \in Plans : plan'[s] = IF s = d THEN None ELSE plan[s]
        /\ accounting' = accounting \ {d}
        /\ allocated' = {a \in allocated : a[1] # d}
        /\ \A t \in Transactions : carried'[t] = IF carried[t] = d THEN None ELSE carried[t]
    BY <1>3 DEF DeletePlan, Dropped
  <2>2. accounting' = {s \in accounting : plan'[s] # None}
    BY <1>0, <2>1
  <2>3. \A s \in Plans, t \in Transactions : Backed(s, t) => plan'[s] \in {None, link'[t].payable}
    BY <2>1 DEF Backed
  <2>4. \A t \in Transactions : Fades(t)
    BY <1>3, <2>1, ObligationsAssumption DEF Fades, Follow, DeletePlan
  <2>5. QED
    BY <1>3, <2>1, <2>2, <2>3, <2>4, FadingInOrder DEF DeletePlan
<1>4. ASSUME NEW s \in Plans, Deallocate(s) PROVE Preserved
  BY <1>0, <1>4, FadingInOrder DEF Deallocate, Fades, Follow, Backed
<1>5. ASSUME NEW o \in Occurrences, ReleaseOccurrence(o) PROVE Preserved
  <2>1. \A t \in Transactions : Fades(t)
    BY <1>5, ObligationsAssumption DEF ReleaseOccurrence, Fades, Follow
  <2>2. QED
    BY <1>0, <1>5, <2>1, FadingInOrder DEF ReleaseOccurrence, Backed
<1>6. QED
  BY <1>1, <1>2, <1>3, <1>4, <1>5 DEF Edits

\* A step of no request about one transaction, at work on which there is none.
LEMMA OutsideInOrder ==
  ASSUME IInv, NEW u \in Transactions, Watch({u}), UNCHANGED <<plan, accounting, req, torn>>,
         \A t \in Transactions \ {u} : Untouched(t),
         Good(u) /\ (\A stages : ~Doing(u, stages)) => Good(u)'
  PROVE  Preserved
<1>1. PlansInOrder'
  BY DEF IInv, PlansInOrder, PlanFacts
<1>2. ASSUME NEW t \in Transactions \ contested' PROVE InOrder(t)'
  <2>1. t \notin contested /\ InOrder(t)
    BY DEF Watch, IInv
  <2>2. CASE t # u
    <3>1. Fades(t) /\ link'[t] = link[t]
      BY <2>2, UntouchedFades DEF Untouched
    <3>2. \A x \in Requests : req[x].at \in {"allocate", "seed", "settle"} =>
            (Backed(req[x].s, t) => (plan'[req[x].s] \in {None, link'[t].payable}))
      BY <3>1 DEF Backed
    <3>3. QED
      BY <2>1, <3>1, <3>2, Bystander
  <2>3. CASE t = u
    <3>1. \A x \in Requests : t \notin Taking(req[x]) \cup Adding(req[x])
      BY <2>3 DEF Watch, InHand
    <3>2. Good(t)'
      BY <2>1, <2>3, <3>1 DEF InOrder, Doing
    <3>3. \A x \in Requests : Holds(req[x], t)'
      BY <3>1 DEF Holds
    <3>4. QED
      BY <3>2, <3>3 DEF InOrder
  <2>4. QED
    BY <2>2, <2>3
<1>3. QED
  BY <1>1, <1>2 DEF Preserved

LEMMA RuleIgnoresInOrder ==
  ASSUME IInv, NEW u \in Transactions, RuleIgnores(u), Watch({u}), UNCHANGED torn
  PROVE  Preserved
<1>1. /\ decision' = [decision EXCEPT ![u] = [state |-> "ignored", origin |-> "rule", revision |-> @.revision + 1]]
      /\ trail' = [trail EXCEPT ![u] = @ \cup {decision[u].revision + 1}]
      /\ link' = Unlinked(u) /\ carried' = WithoutEvent(u, Plans) /\ allocated' = WithoutAllocations(u, Plans)
      /\ UNCHANGED <<payables, plan, accounting, deleted, req>>
  BY DEF RuleIgnores, UnlinkIfPresent
<1>2. \A t \in Transactions \ {u} : Untouched(t)
  BY <1>1 DEF Untouched, Unlinked, WithoutEvent, WithoutAllocations, IInv, TypeInv, Typed
<1>3. ASSUME Good(u), \A stages : ~Doing(u, stages) PROVE Good(u)'
  <2>1. link'[u] = NoLink /\ carried'[u] \in {carried[u], None} /\ carried'[u] \notin Plans
    BY <1>1, ObligationsAssumption DEF Unlinked, WithoutEvent, IInv, TypeInv, Typed
  <2>2. PaysNothing(u)'
    BY <1>1, <2>1 DEF PaysNothing, WithoutAllocations
  <2>3. Follow(u)'
    BY <2>2 DEF PaysNothing, Follow
  <2>4. u \in deleted' => carried'[u] \notin Occurrences
    BY <1>1, <1>3, <2>1, ObligationsAssumption DEF Good
  <2>5. \A stages : ~Doing(u, stages)'
    BY <1>1, <1>3 DEF Doing
  <2>6. decision[u].revision \in Nat /\ decision'[u].revision = decision[u].revision + 1
        /\ trail'[u] = trail[u] \cup {decision[u].revision + 1}
        /\ decision[u].revision + 1 \in 0 .. MaxRevision
    BY <1>1, ObligationsAssumption DEF RuleIgnores, IInv, TypeInv, Typed, Decision
  <2>7. \A n \in 0 .. MaxRevision, k \in Tearing : <<u, n, k>> \in torn => n <= decision[u].revision
    BY <1>3 DEF Good
  <2>8. <<u, decision[u].revision + 1, "event">> \notin torn
    <3>1. PICK m \in 0 .. MaxRevision : m = decision[u].revision + 1
      BY <2>6
    <3>2. <<u, m, "event">> \in torn => m <= decision[u].revision
      BY <2>7 DEF Tearing
    <3>3. ~(m <= decision[u].revision)
      BY <2>6, <3>1
    <3>4. QED
      BY <3>1, <3>2, <3>3
  <2>9. trail[u] = {n \in 1 .. decision[u].revision : <<u, n, "event">> \notin torn}
    BY <1>3 DEF Good, Logged
  <2>10. trail'[u] = {n \in 1 .. decision'[u].revision : <<u, n, "event">> \notin torn}
    BY <2>6, <2>8, <2>9
  <2>11. Logged(u)'
    BY <2>5, <2>10 DEF Logged
  <2>12. \A n \in 0 .. MaxRevision, k \in Tearing : <<u, n, k>> \in torn' => n <= decision'[u].revision
    BY <2>6, <2>7
  <2>13. QED
    BY <2>2, <2>3, <2>4, <2>11, <2>12 DEF Good
<1>4. QED
  BY <1>1, <1>2, <1>3, OutsideInOrder

LEMMA DeleteManualInOrder ==
  ASSUME IInv, NEW u \in Transactions, DeleteManual(u), Watch({u}), UNCHANGED torn
  PROVE  Preserved
<1>1. /\ link' = Unlinked(u) /\ carried' = WithoutEvent(u, Plans \cup Occurrences)
      /\ allocated' = WithoutAllocations(u, Plans) /\ deleted' = deleted \cup {u}
      /\ UNCHANGED <<payables, plan, accounting, decision, trail, req>>
  BY DEF DeleteManual, OnIgnoredHook
<1>2. \A t \in Transactions \ {u} : Untouched(t)
  BY <1>1 DEF Untouched, Unlinked, WithoutEvent, WithoutAllocations, IInv, TypeInv, Typed
<1>3. ASSUME Good(u), \A stages : ~Doing(u, stages) PROVE Good(u)'
  <2>1. link'[u] = NoLink /\ carried'[u] \notin Plans \cup Occurrences
    BY <1>1, ObligationsAssumption DEF Unlinked, WithoutEvent, IInv, TypeInv, Typed
  <2>2. PaysNothing(u)'
    BY <1>1, <2>1 DEF PaysNothing, WithoutAllocations
  <2>3. Follow(u)'
    BY <2>2 DEF PaysNothing, Follow
  <2>4. \A stages : ~Doing(u, stages)'
    BY <1>1, <1>3 DEF Doing
  <2>5. Logged(u)'
    BY <1>1, <1>3, <2>4 DEF Good, Logged
  <2>6. QED
    BY <1>1, <1>3, <2>1, <2>2, <2>3, <2>5 DEF Good
<1>4. QED
  BY <1>1, <1>2, <1>3, OutsideInOrder

-----------------------------------------------------------------------------
(* The theorems                                                            *)

LEMMA ArrivesInOrder ==
  ASSUME IInv, NEW r \in Requests, Arrives(r), Watch({}), UNCHANGED torn
  PROVE  Preserved
<1>1. ASSUME NEW t \in Transactions, SetInclusion(r, t) \/ ApplyRetroactively(r, t) PROVE Preserved
  BY <1>1, ReadsInOrder DEF SetInclusion, ApplyRetroactively
<1>2. QED
  BY <1>1, ReadLinkInOrder, CountPlansInOrder, CheckLinkInOrder, CheckAllocationInOrder,
     CheckOccurrenceInOrder DEF Arrives

LEMMA StepInOrder ==
  ASSUME IInv, NEW r \in Requests, Step(r), Watch({}), UNCHANGED torn
  PROVE  Preserved
  BY UpsertInOrder, EventInOrder, OnIgnoredInOrder, InsertLinkInOrder, DeleteLinkInOrder,
     InsertPlanInOrder, ReadSeedsInOrder, NextSeedInOrder, SettleSeedInOrder, AllocateInOrder,
     PutOverrideInOrder DEF Step

LEMMA NextInOrder ==
  ASSUME IInv, Next
  PROVE  IInv'
<1>1. Preserved
  <2>1. ASSUME NEW r \in Requests, Step(r) \/ Arrives(r), Watch({}), UNCHANGED torn PROVE Preserved
    BY <2>1, StepInOrder, ArrivesInOrder
  <2>2. ASSUME NEW r \in Requests, Break(r), Watch({}) PROVE Preserved
    BY <2>2, BreakInOrder
  <2>3. ASSUME NEW t \in Transactions, RuleIgnores(t) \/ DeleteManual(t), Watch({t}), UNCHANGED torn
        PROVE Preserved
    BY <2>3, RuleIgnoresInOrder, DeleteManualInOrder
  <2>4. CASE Edits /\ Watch({}) /\ UNCHANGED torn
    BY <2>4, EditsInOrder
  <2>5. QED
    BY <2>1, <2>2, <2>3, <2>4 DEF Next
<1>2. TypeInv' /\ Remembered'
  BY NextTyped, NextRemembered DEF IInv
<1>3. (Clashes \subseteq contested)'
  BY DEF Next, Watch
<1>4. QED
  BY <1>1, <1>2, <1>3 DEF IInv, Preserved

LEMMA IdleInOrder ==
  ASSUME IInv, UNCHANGED vars
  PROVE  IInv'
<1>1. TypeInv' /\ Remembered'
  BY NextTyped, NextRemembered DEF IInv
<1>2. (Clashes \subseteq contested)'
  BY DEF IInv, Clashes
<1>3. PlansInOrder'
  BY DEF IInv, PlansInOrder, PlanFacts
<1>4. ASSUME NEW t \in Transactions \ contested' PROVE InOrder(t)'
  <2>1. InOrder(t) /\ Fades(t)
    BY ReadFades DEF IInv
  <2>2. \A x \in Requests : req[x].at \in {"allocate", "seed", "settle"} =>
            (Backed(req[x].s, t) => (plan'[req[x].s] \in {None, link'[t].payable}))
    BY DEF Backed
  <2>3. QED
    BY <2>1, <2>2, Bystander
<1>5. QED
  BY <1>1, <1>2, <1>3, <1>4 DEF IInv

LEMMA InitInOrder == Init => IInv
<1> SUFFICES ASSUME Init PROVE IInv
  OBVIOUS
<1>1. TypeInv /\ Remembered
  BY InitTyped DEF Init, Remembered
<1>2. \A x \in Requests : req[x] = Idle /\ Taking(req[x]) = {} /\ Adding(req[x]) = {} /\ PlanFacts(req[x])
  BY IdleFacts DEF Init
<1>3. PlansInOrder /\ Clashes = {}
  BY <1>2 DEF Init, PlansInOrder, Clashes
<1>4. ASSUME NEW t \in Transactions PROVE InOrder(t)
  <2>1. \A stages : ~Doing(t, stages)
    BY <1>2 DEF Doing
  <2>2. PaysNothing(t)
    BY ObligationsAssumption DEF Init, PaysNothing
  <2>3. Follow(t)
    BY <2>2 DEF PaysNothing, Follow
  <2>4. trail[t] = {} /\ decision[t].revision = 0 /\ deleted = {} /\ torn = {}
    BY DEF Init
  <2>5. Logged(t)
    BY <2>4 DEF Logged
  <2>6. Good(t)
    BY <2>2, <2>3, <2>4, <2>5 DEF Good
  <2>7. QED
    BY <1>2, <2>6 DEF InOrder, Holds
<1>5. QED
  BY <1>1, <1>3, <1>4 DEF IInv

\* What each request read still holds when it writes and the tables are in
\* order, of every transaction that is not contested.
THEOREM Inductive == Spec => []IInv
<1>1. IInv /\ [Next]_vars => IInv'
  BY NextInOrder, IdleInOrder
<1>2. QED
  BY InitInOrder, <1>1, PTL DEF Spec

\* Nobody is taking from a settled transaction.
LEMMA AtRest ==
  ASSUME NEW t \in Settled
  PROVE  /\ t \in Transactions \ contested
         /\ \A stages : ~Doing(t, stages)
  BY DEF Settled, Doing

\* An ignored transaction pays nothing, whatever else is in flight, unless the
\* change that ignored it died before its last DELETE.
THEOREM IgnoredTransactions == Spec => []ClearedPaysNothing
<1>1. IInv => ClearedPaysNothing
  BY AtRest DEF IInv, InOrder, Good, Whole, ClearedPaysNothing
<1>2. QED
  BY Inductive, <1>1, PTL

\* A transaction deleted by hand carries no occurrence.
THEOREM DeletedTransactions == Spec => []DeletedCarriesNothing
<1>1. IInv => DeletedCarriesNothing
  BY ObligationsAssumption DEF IInv, TypeInv, Typed, InOrder, Good, DeletedCarriesNothing
<1>2. QED
  BY Inductive, <1>1, PTL

\* A settlement or an allocation is of a transaction linked to the plan's
\* payable, whatever else is in flight.
THEOREM RealizationsAndLinks == Spec => []RealizationsFollowLinks
<1>1. IInv => RealizationsFollowLinks
  BY AtRest DEF IInv, InOrder, Good, RealizationsFollowLinks
<1>2. QED
  BY Inductive, <1>1, PTL

\* The log holds every change of the decision but those that died between
\* their two writes.
THEOREM EveryChangeLogged == Spec => []TrailMatches
<1>1. IInv => TrailMatches
  <2>1. ASSUME IInv, NEW t \in Settled
        PROVE  trail[t] = {n \in 1 .. decision[t].revision : <<t, n, "event">> \notin torn}
    BY <2>1, AtRest DEF IInv, InOrder, Good, Logged
  <2>2. QED
    BY <2>1 DEF TrailMatches
<1>2. QED
  BY Inductive, <1>1, PTL
=============================================================================
