------------------------- MODULE Decisions_proofs --------------------------
(***************************************************************************)
(* Proofs about Decisions, for any transactions, names, purchases, labels, *)
(* categories and keys, and any number of rules and requests.              *)
(***************************************************************************)
EXTENDS Decisions, WellFoundedInduction, TLAPS

USE DEF vars, books

-----------------------------------------------------------------------------
(* The rules in turn *)

LEMMA LeastOf ==
  ASSUME NEW S, S \subseteq Nat, S # {}
  PROVE  \E x \in S : \A y \in S : x <= y
<1>1. PICK x \in S : \A y \in S : ~ (<<y, x>> \in OpToRel(<, Nat))
  BY NatLessThanWellFounded, WFMin
<1>2. \A y \in S : x <= y
  <2> SUFFICES ASSUME NEW y \in S PROVE x <= y
    OBVIOUS
  <2>1. ~(y < x)
    BY <1>1 DEF OpToRel
  <2>2. QED
    BY <2>1
<1>3. QED
  BY <1>2

Categorizes(b, t, i) == i \in Firing(b.row[t].name) /\ rules[i].cat # None

\* The recursion is well defined: each rule starts from what the one before
\* left.
LEMMA RulesInTurn ==
  ASSUME NEW b, NEW t
  PROVE  \A n \in 0 .. MaxRules :
           AfterRules(b, t)[n] =
             IF n = 0 THEN b
             ELSE IF Categorizes(b, t, n)
                  THEN ApplyRule(AfterRules(b, t)[n - 1], t, rules[n].cat)
                  ELSE AfterRules(b, t)[n - 1]
<1> DEFINE Turn(a, n) == IF Categorizes(b, t, n) THEN ApplyRule(a, t, rules[n].cat) ELSE a
           Upto(f, m) == f = [n \in 0 .. m |-> IF n = 0 THEN b ELSE Turn(f[n - 1], n)]
           Stuck == {m \in Nat : \A f : ~Upto(f, m)}
<1>1. MaxRules \in Nat
  BY DecisionsAssumption
<1>0. \A m \in Nat : m \notin Stuck => \E f : Upto(f, m)
  <2> HIDE DEF Upto
  <2>1. QED
    OBVIOUS
<1>2. Stuck = {}
  <2>1. SUFFICES ASSUME Stuck # {} PROVE FALSE
    OBVIOUS
  <2>2. PICK m \in Stuck : \A y \in Stuck : m <= y
    <3>1. Stuck \subseteq Nat
      OBVIOUS
    <3>2. QED
      BY <2>1, <3>1, LeastOf
  <2> HIDE DEF Turn
  <2>3. CASE m = 0
    <3>1. PICK f : f = [n \in 0 .. 0 |-> b]
      OBVIOUS
    <3>2. Upto(f, 0)
      BY <3>1
    <3>3. QED
      BY <2>2, <2>3, <3>2
  <2>4. CASE m # 0
    <3>1. m - 1 \in Nat /\ m - 1 \notin Stuck
      <4>1. m \in Nat
        BY <2>2
      <4> HIDE DEF Stuck
      <4>2. QED
        BY <2>2, <2>4, <4>1
    <3>2. PICK g : Upto(g, m - 1)
      <4> HIDE DEF Stuck, Upto
      <4>1. QED
        BY <1>0, <3>1
    <3>3. PICK f : f = [n \in 0 .. m |-> IF n = m THEN Turn(g[m - 1], m) ELSE g[n]]
      OBVIOUS
    <3>4. \A n \in 0 .. m : f[n] = IF n = 0 THEN b ELSE Turn(f[n - 1], n)
      <4> SUFFICES ASSUME NEW n \in 0 .. m
                   PROVE  f[n] = IF n = 0 THEN b ELSE Turn(f[n - 1], n)
        OBVIOUS
      <4>1. CASE n = m
        <5>1. f[n - 1] = g[m - 1]
          BY <2>4, <3>1, <3>3, <4>1
        <5>2. QED
          BY <2>4, <3>3, <4>1, <5>1
      <4>2. CASE n # m /\ n # 0
        <5>1. n \in 0 .. (m - 1) /\ f[n] = g[n] /\ f[n - 1] = g[n - 1]
          BY <3>1, <3>3, <4>2
        <5>2. g[n] = Turn(g[n - 1], n)
          BY <3>2, <4>2, <5>1
        <5>3. QED
          BY <4>2, <5>1, <5>2
      <4>3. CASE n # m /\ n = 0
        BY <3>1, <3>2, <3>3, <4>3
      <4>4. QED
        BY <4>1, <4>2, <4>3
    <3>5. Upto(f, m)
      BY <3>3, <3>4
    <3>6. QED
      BY <2>2, <3>5
  <2>5. QED
    BY <2>3, <2>4
<1>3. \E f : Upto(f, MaxRules)
  <2> HIDE DEF Stuck, Upto
  <2>1. QED
    BY <1>1, <1>2, <1>0
<1>4. AfterRules(b, t) = CHOOSE f : Upto(f, MaxRules)
  BY DEF AfterRules, Categorizes
<1>5. Upto(AfterRules(b, t), MaxRules)
  <2> HIDE DEF Upto
  <2>1. QED
    BY <1>3, <1>4
<1>6. QED
  BY <1>5

-----------------------------------------------------------------------------
(* What one write does to the books *)

\* The decision of every transaction is told by the last of its events; the
\* passes at the start may die between the two.
Told(b) ==
  /\ b.dec = [t \in Transactions |-> b.dec[t]]
  /\ b.trail = [t \in Transactions |-> b.trail[t]]
  /\ \A t \in Transactions :
       /\ \/ b.trail[t] = b.dec[t]
          \/ b.dec[t].origin = "automatic" /\ b.trail[t] = Undecided
       /\ b.dec[t].origin = "none" => b.dec[t] = Undecided

\* From b to w the transactions of S were given the decision d.
Writes(b, w, S, d) ==
  /\ w.row = b.row
  /\ w.dec = [u \in Transactions |-> IF u \in S THEN d ELSE b.dec[u]]
  /\ w.trail = [u \in Transactions |-> IF u \in S /\ b.dec[u] # d THEN d ELSE b.trail[u]]

LEMMA WrittenDecisions ==
  ASSUME NEW b, NEW S, NEW c, NEW origin
  PROVE  Writes(b, WriteDecision(b, S, c, origin), S, [cat |-> c, origin |-> origin])
<1>1. PICK d : d = [cat |-> c, origin |-> origin]
  OBVIOUS
<1>2. PICK W : W = {u \in S : b.dec[u] # d}
  OBVIOUS
<1>3. PICK w : w = WriteDecision(b, S, c, origin)
  OBVIOUS
<1>4. w = [row |-> b.row, dec |-> [u \in Transactions |-> IF u \in W THEN d ELSE b.dec[u]],
           trail |-> [u \in Transactions |-> IF u \in W THEN d ELSE b.trail[u]],
           taught |-> Remembered(b.taught, W, origin)]
  BY <1>1, <1>2, <1>3 DEF WriteDecision
<1>5. \A u \in Transactions : u \in W <=> u \in S /\ b.dec[u] # d
  BY <1>2
<1>6. Writes(b, w, S, d)
  <2>1. w.row = b.row
    BY <1>4
  <2>2. w.dec = [u \in Transactions |-> IF u \in S THEN d ELSE b.dec[u]]
    <3>1. w.dec = [u \in Transactions |-> IF u \in W THEN d ELSE b.dec[u]]
      BY <1>4
    <3>2. QED
      BY <1>5, <3>1
  <2>3. w.trail = [u \in Transactions |-> IF u \in S /\ b.dec[u] # d THEN d ELSE b.trail[u]]
    <3>1. w.trail = [u \in Transactions |-> IF u \in W THEN d ELSE b.trail[u]]
      BY <1>4
    <3>2. QED
      BY <1>5, <3>1
  <2>4. QED
    BY <2>1, <2>2, <2>3 DEF Writes
<1>7. QED
  BY <1>1, <1>3, <1>6

LEMMA WritesTold ==
  ASSUME NEW b, NEW w, NEW S, NEW d, Writes(b, w, S, d), Told(b), d.origin # "none"
  PROVE  Told(w)
<1>1. ASSUME NEW t \in Transactions
      PROVE  /\ \/ w.trail[t] = w.dec[t]
                \/ w.dec[t].origin = "automatic" /\ w.trail[t] = Undecided
             /\ w.dec[t].origin = "none" => w.dec[t] = Undecided
  <2>1. /\ \/ b.trail[t] = b.dec[t]
           \/ b.dec[t].origin = "automatic" /\ b.trail[t] = Undecided
        /\ b.dec[t].origin = "none" => b.dec[t] = Undecided
    BY DEF Told
  <2>2. /\ w.dec[t] = IF t \in S THEN d ELSE b.dec[t]
        /\ w.trail[t] = IF t \in S /\ b.dec[t] # d THEN d ELSE b.trail[t]
    BY DEF Writes
  <2>3. QED
    BY <2>1, <2>2
<1>2. w.dec = [u \in Transactions |-> w.dec[u]] /\ w.trail = [u \in Transactions |-> w.trail[u]]
  BY DEF Writes
<1>3. QED
  BY <1>1, <1>2 DEF Told

\* The automatic passes leave what was decided by hand, and decide nothing by
\* hand.
Aside(b, a) ==
  /\ Told(a) /\ a.row = b.row
  /\ \A v \in Transactions :
       \/ a.dec[v] = b.dec[v]
       \/ b.dec[v].origin # "manual" /\ a.dec[v].origin # "manual"

\* A rule reaches the whole group of a transaction nobody decided by hand.
Ruled(b, a, t) ==
  /\ Told(a) /\ a.row = b.row
  /\ \/ a = b
     \/ /\ b.dec[t].origin # "manual"
        /\ \A v \in Transactions : IF v \in Group(b, t) THEN a.dec[v].origin = "rule"
                                   ELSE a.dec[v] = b.dec[v]

LEMMA GroupAgrees ==
  ASSUME NEW b, NEW a, a.row = b.row, NEW t \in Transactions
  PROVE  /\ Group(a, t) = Group(b, t) /\ t \in Group(b, t) /\ Group(b, t) \subseteq Transactions
         /\ \A v \in Group(b, t) : t \in Group(b, v)
BY DEF Group

LEMMA OneWriteAside ==
  ASSUME NEW b, NEW a, NEW S, NEW d, Told(b), Writes(b, a, S, d),
         d.origin \in {"automatic", "learned"}, \A u \in S : b.dec[u].origin # "manual"
  PROVE  Aside(b, a)
<1>1. Told(a)
  BY WritesTold
<1>2. a.row = b.row /\ \A v \in Transactions : a.dec[v] = IF v \in S THEN d ELSE b.dec[v]
  BY DEF Writes
<1>3. QED
  BY <1>1, <1>2 DEF Aside

LEMMA AutomaticAside ==
  ASSUME NEW b, Told(b), NEW t \in Transactions, NEW label
  PROVE  Aside(b, ApplyAutomatic(b, t, label))
<1>1. PICK a : a = ApplyAutomatic(b, t, label)
  OBVIOUS
<1>2. CASE label \in b.row[t].labels \cap boot.known /\ b.dec[t].origin = "none"
  <2>1. a = WriteDecision(b, {t}, Autos[label], "automatic")
    BY <1>1, <1>2 DEF ApplyAutomatic
  <2>2. PICK d : d = [cat |-> Autos[label], origin |-> "automatic"]
    OBVIOUS
  <2>3. Writes(b, a, {t}, d)
    BY <2>1, <2>2, WrittenDecisions
  <2>4. Aside(b, a)
    BY <1>2, <2>2, <2>3, OneWriteAside
  <2>5. QED
    BY <1>1, <2>4
<1>3. CASE ~(label \in b.row[t].labels \cap boot.known /\ b.dec[t].origin = "none")
  <2>1. ApplyAutomatic(b, t, label) = b
    BY <1>3 DEF ApplyAutomatic
  <2>2. QED
    BY <2>1 DEF Aside
<1>4. QED
  BY <1>2, <1>3

LEMMA LearnedAside ==
  ASSUME NEW b, Told(b), NEW t \in Transactions
  PROVE  Aside(b, ApplyLearned(b, t))
<1>1. PICK a : a = ApplyLearned(b, t)
  OBVIOUS
<1>2. CASE ~Learnable(b, t) \/ References(b, t) = {}
  <2>1. ApplyLearned(b, t) = b
    BY <1>2 DEF ApplyLearned
  <2>2. QED
    BY <2>1 DEF Aside
<1>3. CASE ~(~Learnable(b, t) \/ References(b, t) = {})
  <2>1. PICK S, c : S = {u \in Group(b, t) : Learnable(b, u)} /\ c = b.dec[Newest(b, References(b, t))].cat
    OBVIOUS
  <2>2. a = WriteDecision(b, S, c, "learned")
    BY <1>1, <1>3, <2>1 DEF ApplyLearned
  <2>3. PICK d : d = [cat |-> c, origin |-> "learned"]
    OBVIOUS
  <2>4. Writes(b, a, S, d)
    BY <2>2, <2>3, WrittenDecisions
  <2>5. \A u \in S : b.dec[u].origin # "manual"
    BY <2>1 DEF Learnable
  <2>6. Aside(b, a)
    BY <2>3, <2>4, <2>5, OneWriteAside
  <2>7. QED
    BY <1>1, <2>6
<1>4. QED
  BY <1>2, <1>3

LEMMA AsideTwice ==
  ASSUME NEW b, NEW a, NEW d, Aside(b, a), Aside(a, d)
  PROVE  Aside(b, d)
BY DEF Aside

LEMMA TwoPassesAside ==
  ASSUME NEW b, Told(b), NEW t \in Transactions
  PROVE  Aside(b, ApplyAutomaticPasses(b, t))
<1>1. PICK card : card = ApplyAutomatic(b, t, "card")
  OBVIOUS
<1>2. PICK both : both = ApplyAutomaticPasses(b, t)
  OBVIOUS
<1>3. Aside(b, card) /\ Told(card)
  BY <1>1, AutomaticAside DEF Aside
<1>4. Aside(card, both)
  <2>1. both = ApplyAutomatic(card, t, "source")
    BY <1>1, <1>2 DEF ApplyAutomaticPasses
  <2>2. QED
    BY <1>3, <2>1, AutomaticAside
<1>5. QED
  BY <1>2, <1>3, <1>4, AsideTwice

LEMMA PassesAside ==
  ASSUME NEW b, Told(b), NEW t \in Transactions
  PROVE  Aside(b, ApplyLearned(ApplyAutomaticPasses(b, t), t))
<1>1. PICK both : both = ApplyAutomaticPasses(b, t)
  OBVIOUS
<1>2. Aside(b, both) /\ Told(both)
  BY <1>1, TwoPassesAside DEF Aside
<1>3. Aside(both, ApplyLearned(both, t))
  BY <1>2, LearnedAside
<1>4. QED
  BY <1>1, <1>2, <1>3, AsideTwice

LEMMA RuleRules ==
  ASSUME NEW b, Told(b), NEW t \in Transactions, NEW c
  PROVE  Ruled(b, ApplyRule(b, t, c), t)
<1>1. PICK a : a = ApplyRule(b, t, c)
  OBVIOUS
<1>2. CASE b.dec[t].origin = "manual"
  BY <1>2 DEF ApplyRule, Ruled
<1>3. CASE b.dec[t].origin # "manual"
  <2>1. a = WriteDecision(b, Group(b, t), c, "rule")
    BY <1>1, <1>3 DEF ApplyRule
  <2>2. PICK d : d = [cat |-> c, origin |-> "rule"]
    OBVIOUS
  <2>3. Writes(b, a, Group(b, t), d)
    BY <2>1, <2>2, WrittenDecisions
  <2>4. Told(a)
    BY <2>2, <2>3, WritesTold
  <2>5. a.row = b.row /\ \A v \in Transactions : a.dec[v] = IF v \in Group(b, t) THEN d ELSE b.dec[v]
    BY <2>3 DEF Writes
  <2>6. Ruled(b, a, t)
    BY <1>3, <2>2, <2>4, <2>5 DEF Ruled
  <2>7. QED
    BY <1>1, <2>6
<1>4. QED
  BY <1>2, <1>3

LEMMA RuledTwice ==
  ASSUME NEW b, NEW a, NEW d, NEW t \in Transactions, Ruled(b, a, t), Ruled(a, d, t)
  PROVE  Ruled(b, d, t)
<1>1. a.row = b.row /\ Group(a, t) = Group(b, t)
  BY GroupAgrees DEF Ruled
<1>2. CASE a = b \/ d = a
  BY <1>2 DEF Ruled
<1>3. CASE a # b /\ d # a
  BY <1>1, <1>3 DEF Ruled
<1>4. QED
  BY <1>2, <1>3

LEMMA RulesRule ==
  ASSUME NEW b, Told(b), NEW t \in Transactions
  PROVE  Ruled(b, ApplyToNewTransaction(b, t), t)
<1> DEFINE Bad == {n \in 0 .. MaxRules : ~Ruled(b, AfterRules(b, t)[n], t)}
<1>1. Bad \subseteq Nat
  OBVIOUS
<1>2. Bad = {}
  <2>1. SUFFICES ASSUME Bad # {} PROVE FALSE
    OBVIOUS
  <2>2. PICK n \in Bad : \A m \in Bad : n <= m
    BY <1>1, <2>1, LeastOf
  <2>3. n \in 0 .. MaxRules /\ ~Ruled(b, AfterRules(b, t)[n], t)
    OBVIOUS
  <2>4. PICK here : here = AfterRules(b, t)[n]
    OBVIOUS
  <2>5. CASE n = 0
    <3>1. here = b
      BY <2>3, <2>4, <2>5, RulesInTurn
    <3>2. QED
      BY <2>3, <2>4, <3>1 DEF Ruled
  <2>6. CASE n # 0
    <3>1. PICK before : before = AfterRules(b, t)[n - 1]
      OBVIOUS
    <3>2. Ruled(b, before, t) /\ Told(before)
      <4>1. n - 1 \in 0 .. MaxRules /\ n - 1 \notin Bad
        <5>1. n - 1 \in 0 .. MaxRules /\ ~(n <= n - 1)
          BY <2>3, <2>6, DecisionsAssumption
        <5> HIDE DEF Bad
        <5>2. QED
          BY <2>2, <5>1
      <4>2. QED
        BY <3>1, <4>1 DEF Ruled
    <3>3. here = before \/ here = ApplyRule(before, t, rules[n].cat)
      BY <2>3, <2>4, <2>6, <3>1, RulesInTurn
    <3>4. Ruled(before, here, t)
      BY <3>2, <3>3, RuleRules DEF Ruled
    <3>5. QED
      BY <2>3, <2>4, <3>2, <3>4, RuledTwice
  <2>7. QED
    BY <2>5, <2>6
<1>3. MaxRules \in 0 .. MaxRules
  BY DecisionsAssumption
<1>4. QED
  BY <1>2, <1>3 DEF ApplyToNewTransaction

-----------------------------------------------------------------------------
(* What the user decided *)

\* ManualStands, from books to books.
Kept(b, a) ==
  \A v \in Transactions :
    b.dec[v].origin = "manual" /\ a.dec[v] # b.dec[v] =>
      \/ a.dec[v].origin = "manual"
      \/ \E u \in Group(a, v) : b.dec[u].origin # "manual" /\ a.dec[u].origin = "rule"

LEMMA GroupTransitive ==
  ASSUME NEW b, NEW t \in Transactions, NEW v \in Transactions, NEW u \in Transactions,
         u \in Group(b, v), u \in Group(b, t)
  PROVE  v \in Group(b, t)
BY DEF Group

LEMMA RulesKeep ==
  ASSUME NEW b, NEW i, NEW a, NEW t \in Transactions, Aside(b, i), Ruled(i, a, t)
  PROVE  Kept(b, a)
<1> SUFFICES ASSUME NEW v \in Transactions, b.dec[v].origin = "manual", a.dec[v] # b.dec[v]
             PROVE  \E u \in Group(a, v) : b.dec[u].origin # "manual" /\ a.dec[u].origin = "rule"
  BY DEF Kept
<1>1. i.dec[v] = b.dec[v]
  BY DEF Aside
<1>2. /\ i.dec[t].origin # "manual" /\ a.row = i.row
      /\ \A w \in Transactions : IF w \in Group(i, t) THEN a.dec[w].origin = "rule"
                                 ELSE a.dec[w] = i.dec[w]
  BY <1>1 DEF Ruled
<1>3. v \in Group(i, t)
  BY <1>1, <1>2
<1>4. t \in Group(i, t) /\ t \in Group(i, v) /\ Group(a, v) = Group(i, v)
  BY <1>2, <1>3, GroupAgrees
<1>5. b.dec[t].origin # "manual"
  BY <1>2 DEF Aside
<1>6. QED
  BY <1>2, <1>4, <1>5

LEMMA HandKeeps ==
  ASSUME NEW b, NEW i, NEW t \in Transactions, NEW c, Kept(b, i), Told(i)
  PROVE  Kept(b, AssignManual(i, t, c)) /\ Told(AssignManual(i, t, c))
         /\ AssignManual(i, t, c).row = i.row
<1>1. PICK a : a = AssignManual(i, t, c)
  OBVIOUS
<1>2. PICK d : d = [cat |-> c, origin |-> "manual"]
  OBVIOUS
<1>3. Writes(i, a, Group(i, t), d)
  BY <1>1, <1>2, WrittenDecisions DEF AssignManual
<1>4. Told(a)
  BY <1>2, <1>3, WritesTold
<1>5. a.row = i.row /\ \A w \in Transactions : a.dec[w] = IF w \in Group(i, t) THEN d ELSE i.dec[w]
  BY <1>3 DEF Writes
<1>6. Kept(b, a)
  <2> SUFFICES ASSUME NEW v \in Transactions, b.dec[v].origin = "manual", a.dec[v] # b.dec[v],
                      a.dec[v].origin # "manual"
               PROVE  \E u \in Group(a, v) : b.dec[u].origin # "manual" /\ a.dec[u].origin = "rule"
    BY DEF Kept
  <2>1. v \notin Group(i, t) /\ a.dec[v] = i.dec[v]
    BY <1>2, <1>5
  <2>2. PICK u \in Group(i, v) : b.dec[u].origin # "manual" /\ i.dec[u].origin = "rule"
    BY <2>1 DEF Kept
  <2>3. u \in Transactions /\ Group(a, v) = Group(i, v)
    BY <1>5, GroupAgrees
  <2>4. u \notin Group(i, t)
    BY <2>1, <2>3, GroupTransitive
  <2>5. QED
    BY <1>5, <2>2, <2>3, <2>4
<1>7. QED
  BY <1>1, <1>4, <1>5, <1>6

\* A step that leaves the books as a has them, where b had the decisions of
\* before.
LEMMA StepKeeps ==
  ASSUME NEW b, NEW a, b.dec = dec, Becomes(a), Kept(b, a)
  PROVE  \A t \in Transactions : dec[t].origin = "manual" /\ dec'[t] # dec[t] =>
           \/ dec'[t].origin = "manual"
           \/ \E u \in Group(Books, t)' : dec[u].origin # "manual" /\ dec'[u].origin = "rule"
<1>1. a.row = row' /\ a.dec = dec'
  BY DEF Becomes
<1>2. \A t \in Transactions : Group(Books, t)' = Group(a, t)
  BY <1>1 DEF Group, Books
<1>3. QED
  BY <1>1, <1>2 DEF Kept

-----------------------------------------------------------------------------
(* The inductive invariant *)

Rows == [state : {"none", "live", "deleted"}, origin : {"none", "synced", "manual"},
         name : Names \cup {None}, purchase : Purchases \cup {None},
         labels : SUBSET Labels, key : Keys \cup {None}]

\* What has no row yet, and what the provider sends, has no key.
KeysOfManual ==
  \A t \in Transactions :
    row[t].state = "none" \/ row[t].origin = "synced" => row[t].key = None

Inv ==
  /\ row \in [Transactions -> Rows]
  /\ bound \in [Keys -> Binding \cup {None}]
  /\ Told(Books)
  /\ KeysOfManual
  /\ OneEntryPerKey

ManualKept ==
  \A t \in Transactions :
    dec[t].origin = "manual" /\ dec'[t] # dec[t] =>
      \/ dec'[t].origin = "manual"
      \/ \E u \in Group(Books, t)' : dec[u].origin # "manual" /\ dec'[u].origin = "rule"

LEMMA BooksFields ==
  /\ Books.row = row /\ Books.dec = dec /\ Books.trail = trail
BY DEF Books

LEMMA BecomesTold ==
  ASSUME NEW a, Told(a), Becomes(a)
  PROVE  Told(Books)'
<1>1. a.dec = dec' /\ a.trail = trail'
  BY DEF Becomes
<1>2. QED
  BY <1>1 DEF Told, Books

\* The row of one transaction changes, its key does not.
LEMMA SameKeys ==
  ASSUME Inv, NEW t \in Transactions, NEW r \in Rows, r.key = row[t].key,
         r.state = "none" \/ r.origin = "synced" => r.key = None,
         row' = [row EXCEPT ![t] = r], UNCHANGED bound
  PROVE  /\ row' \in [Transactions -> Rows] /\ bound' \in [Keys -> Binding \cup {None}]
         /\ KeysOfManual' /\ OneEntryPerKey'
<1>1. row' \in [Transactions -> Rows]
  BY DEF Inv
<1>2. \A u \in Transactions : row'[u].key = row[u].key
  BY DEF Inv
<1>3. KeysOfManual'
  BY DEF Inv, KeysOfManual
<1>4. OneEntryPerKey'
  <2>1. \A k \in Keys : {u \in Transactions : row'[u].key = k} = {u \in Transactions : row[u].key = k}
    BY <1>2
  <2>2. QED
    BY <1>2, <2>1 DEF Inv, OneEntryPerKey
<1>5. QED
  BY <1>1, <1>3, <1>4 DEF Inv

LEMMA StoredRow ==
  ASSUME NEW t \in Transactions, NEW content \in Provided[t]
  PROVE  Stored(t, content) \in Rows /\ Stored(t, content).key = None
<1>1. content \in Content
  BY DecisionsAssumption
<1>2. QED
  BY <1>1 DEF Stored, Rows, Content

LEMMA SyncedStep ==
  ASSUME Inv, NEW t \in Transactions, InsertSynced(t) \/ UpdateSynced(t)
  PROVE  Inv' /\ ManualKept
<1>1. PICK content \in Provided[t] :
        /\ \/ row[t].state = "none"
           \/ row[t].origin = "synced"
        /\ LET inserted == [Books EXCEPT !.row[t] = Stored(t, content)]
           IN \/ Becomes(ApplyToNewTransaction(
                           ApplyLearned(ApplyAutomaticPasses(inserted, t), t), t))
              \/ Becomes(ApplyToNewTransaction(inserted, t))
        /\ UNCHANGED bound
  BY DEF InsertSynced, UpdateSynced
<1>2. PICK b : b = [Books EXCEPT !.row[t] = Stored(t, content)]
  OBVIOUS
<1>3. b.row = [row EXCEPT ![t] = Stored(t, content)] /\ b.dec = dec /\ b.trail = trail
  BY <1>2 DEF Books
<1>4. Told(b)
  BY <1>3 DEF Inv, Told, Books
<1>5. PICK i : /\ i = b \/ i = ApplyLearned(ApplyAutomaticPasses(b, t), t)
               /\ Becomes(ApplyToNewTransaction(i, t))
  BY <1>1, <1>2
<1>6. Aside(b, i)
  BY <1>4, <1>5, PassesAside DEF Aside
<1>7. PICK a : a = ApplyToNewTransaction(i, t)
  OBVIOUS
<1>8. Ruled(i, a, t)
  BY <1>6, <1>7, RulesRule DEF Aside
<1>9. Told(a) /\ a.row = b.row /\ Becomes(a)
  BY <1>5, <1>6, <1>7, <1>8 DEF Ruled, Aside
<1>10. ManualKept
  BY <1>3, <1>6, <1>8, <1>9, RulesKeep, StepKeeps DEF ManualKept
<1>11. row' = [row EXCEPT ![t] = Stored(t, content)]
  BY <1>3, <1>9 DEF Becomes
<1>12. row[t].key = None
  BY <1>1 DEF Inv, KeysOfManual
<1>13. Inv'
  BY <1>1, <1>9, <1>11, <1>12, StoredRow, SameKeys, BecomesTold DEF Inv
<1>14. QED
  BY <1>10, <1>13

LEMMA KeptAsIs ==
  ASSUME NEW b
  PROVE  Kept(b, b)
BY DEF Kept

LEMMA ByHandStep ==
  ASSUME Inv, NEW t \in Transactions, NEW c \in Categories, SetCategory(t, c)
  PROVE  Inv' /\ ManualKept
<1>1. PICK b : b = Books
  OBVIOUS
<1>2. b.row = row /\ b.dec = dec /\ Told(b)
  BY <1>1, BooksFields DEF Inv
<1>3. PICK a : a = AssignManual(b, t, c)
  OBVIOUS
<1>4. Becomes(a) /\ UNCHANGED bound
  BY <1>1, <1>3 DEF SetCategory
<1>5. Kept(b, a) /\ Told(a) /\ a.row = row
  BY <1>2, <1>3, HandKeeps, KeptAsIs
<1>6. ManualKept
  BY <1>2, <1>4, <1>5, StepKeeps DEF ManualKept
<1>7. row' = row
  BY <1>4, <1>5 DEF Becomes
<1>8. Inv'
  BY <1>4, <1>5, <1>7, BecomesTold DEF Inv, KeysOfManual, OneEntryPerKey
<1>9. QED
  BY <1>6, <1>8

LEMMA UpdateStep ==
  ASSUME Inv, NEW t \in Transactions, NEW name \in Names, NEW c \in Categories \cup {None},
         UpdateManual(t, name, c)
  PROVE  Inv' /\ ManualKept
<1>1. PICK b : b = Renamed(t, name)
  OBVIOUS
<1>2. PICK r : r = [row[t] EXCEPT !.name = name]
  OBVIOUS
<1>3. row[t] \in Rows
  BY DEF Inv
<1>4. r \in Rows /\ r.key = row[t].key /\ r.state = row[t].state /\ r.origin = row[t].origin
  BY <1>2, <1>3 DEF Rows
<1>5. b.row = [row EXCEPT ![t] = r] /\ b.dec = dec /\ b.trail = trail
  BY <1>1, <1>2 DEF Renamed, Books
<1>6. Told(b)
  BY <1>5 DEF Inv, Told, Books
<1>7. PICK a : /\ a = b \/ a = AssignManual(b, t, c)
               /\ Becomes(a)
  BY <1>1 DEF UpdateManual
<1>8. Kept(b, a) /\ Told(a) /\ a.row = b.row
  <2>1. CASE a = b
    BY <1>6, <2>1, KeptAsIs
  <2>2. CASE a = AssignManual(b, t, c)
    BY <1>6, <2>2, KeptAsIs, HandKeeps
  <2>3. QED
    BY <1>7, <2>1, <2>2
<1>9. ManualKept
  BY <1>5, <1>7, <1>8, StepKeeps DEF ManualKept
<1>10. row' = [row EXCEPT ![t] = r] /\ UNCHANGED bound
  BY <1>5, <1>7, <1>8 DEF Becomes, UpdateManual
<1>11. r.state = "none" \/ r.origin = "synced" => r.key = None
  BY <1>4 DEF Inv, KeysOfManual
<1>12. Inv'
  BY <1>4, <1>7, <1>8, <1>10, <1>11, SameKeys, BecomesTold DEF Inv
<1>13. QED
  BY <1>9, <1>12

\* The key, the row and the decisions of an entry made by hand.
LEMMA CreateStep ==
  ASSUME Inv, NEW t \in Transactions, NEW name \in Names, NEW c \in Categories \cup {None},
         NEW k \in Keys \cup {None}, CreateManual(t, k, name, c)
  PROVE  Inv' /\ ManualKept
<1>1. PICK b : b = [Books EXCEPT !.row[t] = Entered(name, k)]
  OBVIOUS
<1>2. b.row = [row EXCEPT ![t] = Entered(name, k)] /\ b.dec = dec /\ b.trail = trail
  BY <1>1 DEF Books
<1>3. Told(b)
  BY <1>2 DEF Inv, Told, Books
<1>4. PICK i : /\ i = b \/ i = ApplyLearned(b, t)
               /\ Becomes(NewDecisions(b, t, c))
               /\ NewDecisions(b, t, c) = ApplyToNewTransaction(i, t)
                    \/ NewDecisions(b, t, c) = AssignManual(ApplyToNewTransaction(i, t), t, c)
  BY <1>1 DEF CreateManual, NewDecisions
<1>5. Aside(b, i)
  BY <1>3, <1>4, LearnedAside DEF Aside
<1>6. PICK m : m = ApplyToNewTransaction(i, t)
  OBVIOUS
<1>7. Ruled(i, m, t)
  BY <1>5, <1>6, RulesRule DEF Aside
<1>8. Kept(b, m) /\ Told(m) /\ m.row = b.row
  BY <1>5, <1>7, RulesKeep DEF Ruled, Aside
<1>9. PICK a : a = NewDecisions(b, t, c)
  OBVIOUS
<1>10. Kept(b, a) /\ Told(a) /\ a.row = b.row
  BY <1>4, <1>6, <1>8, <1>9, HandKeeps
<1>11. Becomes(a)
  BY <1>4, <1>9
<1>12. ManualKept
  BY <1>2, <1>10, <1>11, StepKeeps DEF ManualKept
<1>13. PICK r : r = Entered(name, k)
  OBVIOUS
<1>14. r \in Rows /\ r.key = k /\ r.state = "live" /\ r.origin = "manual"
  BY <1>13 DEF Entered, Rows
<1>15. row' = [row EXCEPT ![t] = r]
  BY <1>2, <1>10, <1>11, <1>13 DEF Becomes
<1>16. row[t].key = None
  BY DEF CreateManual, Inv, KeysOfManual
<1>17. CASE k = None
  <2>1. UNCHANGED bound
    BY <1>17 DEF CreateManual
  <2>2. Inv'
    BY <1>10, <1>11, <1>14, <1>15, <1>16, <1>17, <2>1, SameKeys, BecomesTold DEF Inv
  <2>3. QED
    BY <1>12, <2>2
<1>18. CASE k # None
  <2>1. PICK new : new = [name |-> name, cat |-> c, tx |-> t]
    OBVIOUS
  <2>2. new \in Binding /\ new.tx = t /\ new # None
    BY <2>1, DecisionsAssumption DEF Binding
  <2>3. bound' = [bound EXCEPT ![k] = new] /\ bound[k] = None /\ k \in Keys
    BY <1>18, <2>1 DEF CreateManual, Reserved
  <2>4. row' \in [Transactions -> Rows] /\ bound' \in [Keys -> Binding \cup {None}]
    BY <1>14, <1>15, <2>2, <2>3 DEF Inv
  <2>5. KeysOfManual'
    BY <1>14, <1>15 DEF Inv, KeysOfManual
  <2>6. \A u \in Transactions : row'[u].key = IF u = t THEN k ELSE row[u].key
    BY <1>14, <1>15 DEF Inv
  <2>7. \A u \in Transactions : row[u].key # k
    BY <2>3 DEF Inv, OneEntryPerKey
  <2>8. ASSUME NEW j \in Keys
        PROVE  IF bound'[j] = None THEN \A u \in Transactions : row'[u].key # j
               ELSE {u \in Transactions : row'[u].key = j} = {bound'[j].tx}
    <3>1. CASE j = k
      <4>1. bound'[j] = new
        BY <2>3, <3>1 DEF Inv
      <4>2. {u \in Transactions : row'[u].key = j} = {t}
        BY <2>6, <2>7, <3>1
      <4>3. QED
        BY <2>2, <4>1, <4>2
    <3>2. CASE j # k
      <4>1. bound'[j] = bound[j]
        BY <2>3, <3>2 DEF Inv
      <4>2. j # None
        BY DecisionsAssumption
      <4>3. {u \in Transactions : row'[u].key = j} = {u \in Transactions : row[u].key = j}
        BY <1>16, <2>6, <3>2, <4>2
      <4>4. QED
        BY <4>1, <4>3 DEF Inv, OneEntryPerKey
    <3>3. QED
      BY <3>1, <3>2
  <2>9. OneEntryPerKey'
    BY <2>8 DEF OneEntryPerKey
  <2>10. Inv'
    BY <1>10, <1>11, <2>4, <2>5, <2>9, BecomesTold DEF Inv
  <2>11. QED
    BY <1>12, <2>10
<1>19. QED
  BY <1>17, <1>18

LEMMA DeleteStep ==
  ASSUME Inv, NEW t \in Transactions, DeleteManual(t)
  PROVE  Inv' /\ ManualKept
<1>1. PICK r : r = [row[t] EXCEPT !.state = "deleted"]
  OBVIOUS
<1>2. row[t] \in Rows
  BY DEF Inv
<1>3. r \in Rows /\ r.key = row[t].key /\ r.state = "deleted" /\ r.origin = "manual"
  BY <1>1, <1>2 DEF Rows, DeleteManual, ByHand
<1>4. row' = [row EXCEPT ![t] = r] /\ UNCHANGED <<dec, trail, bound>>
  BY <1>1 DEF DeleteManual
<1>5. Told(Books)'
  BY <1>4 DEF Inv, Told, Books
<1>6. QED
  BY <1>3, <1>4, <1>5, SameKeys DEF Inv, ManualKept

LEMMA CandidateStep ==
  ASSUME Inv, NEW t \in Transactions, ApplyToCandidate(t)
  PROVE  Inv' /\ ManualKept
<1>1. PICK b : b = Books
  OBVIOUS
<1>2. b.row = row /\ b.dec = dec /\ Told(b)
  BY <1>1, BooksFields DEF Inv
<1>3. PICK a : /\ a = b \/ a = ApplyRule(b, t, job.form.cat)
               /\ Becomes(a)
  BY <1>1 DEF ApplyToCandidate
<1>4. Ruled(b, a, t) /\ Aside(b, b)
  BY <1>2, <1>3, RuleRules DEF Ruled, Aside
<1>5. ManualKept
  BY <1>2, <1>3, <1>4, RulesKeep, StepKeeps DEF ManualKept
<1>6. row' = row /\ Told(a) /\ UNCHANGED bound
  BY <1>2, <1>3, <1>4 DEF Becomes, Ruled, ApplyToCandidate
<1>7. Inv'
  BY <1>3, <1>6, BecomesTold DEF Inv, KeysOfManual, OneEntryPerKey
<1>8. QED
  BY <1>5, <1>7

\* The decision without its event, and the event after it.
LEMMA BackfillStep ==
  ASSUME Inv, Backfill
  PROVE  Inv' /\ ManualKept
<1>1. dec = [t \in Transactions |-> dec[t]] /\ trail = [t \in Transactions |-> trail[t]]
  BY DEF Inv, Told, Books
<1>2. \A t \in Transactions :
        /\ trail[t] = dec[t] \/ (dec[t].origin = "automatic" /\ trail[t] = Undecided)
        /\ dec[t].origin = "none" => dec[t] = Undecided
  BY DEF Inv, Told, Books
<1>3. ASSUME UNCHANGED <<row, bound>>, Told(Books)' PROVE Inv'
  BY <1>3 DEF Inv, KeysOfManual, OneEntryPerKey
<1>4. ASSUME NEW t \in Transactions, BackfillDecision(t) PROVE Inv' /\ ManualKept
  <2>1. PICK d : d = [cat |-> Autos[Pass], origin |-> "automatic"]
    OBVIOUS
  <2>2. dec' = [dec EXCEPT ![t] = d] /\ trail' = trail /\ dec[t].origin = "none"
    BY <1>4, <2>1 DEF BackfillDecision, Uncategorized
  <2>3. trail[t] = Undecided
    BY <1>2, <2>2
  <2>4. \A u \in Transactions : dec'[u] = IF u = t THEN d ELSE dec[u]
    BY <1>1, <2>2
  <2>5. dec' = [u \in Transactions |-> dec'[u]]
    BY <1>1, <2>2
  <2>6. Told(Books)'
    BY <1>1, <1>2, <2>1, <2>2, <2>3, <2>4, <2>5 DEF Told, Books
  <2>7. ManualKept
    BY <2>2, <2>4 DEF ManualKept
  <2>8. QED
    BY <1>3, <1>4, <2>6, <2>7 DEF BackfillDecision
<1>5. CASE BackfillEvent
  <2>1. dec' = dec /\ trail' = [trail EXCEPT ![boot.event] = dec[boot.event]]
    BY <1>5 DEF BackfillEvent
  <2>2. \A u \in Transactions : trail'[u] = IF u = boot.event THEN dec[u] ELSE trail[u]
    BY <1>1, <2>1
  <2>3. trail' = [u \in Transactions |-> trail'[u]]
    BY <1>1, <2>1
  <2>4. Told(Books)'
    BY <1>1, <1>2, <2>1, <2>2, <2>3 DEF Told, Books
  <2>5. QED
    BY <1>3, <1>5, <2>1, <2>4 DEF BackfillEvent, ManualKept
<1>6. CASE BackfillDone
  <2>1. Told(Books)'
    BY <1>6 DEF BackfillDone, Inv, Told, Books
  <2>2. QED
    BY <1>3, <1>6, <2>1 DEF BackfillDone, ManualKept
<1>7. QED
  BY <1>4, <1>5, <1>6 DEF Backfill

LEMMA OtherStep ==
  ASSUME Inv, UNCHANGED <<books, bound>>
  PROVE  Inv' /\ ManualKept
BY DEF Inv, Told, Books, KeysOfManual, OneEntryPerKey, ManualKept

LEMMA NextStep == Inv /\ [Next]_vars => Inv' /\ ManualKept
<1> SUFFICES ASSUME Inv, [Next]_vars PROVE Inv' /\ ManualKept
  OBVIOUS
<1>1. ASSUME NEW t \in Transactions,
             \/ InsertSynced(t) \/ UpdateSynced(t) \/ ManualRequests(t)
             \/ \E c \in Categories : SetCategory(t, c)
      PROVE  Inv' /\ ManualKept
  BY <1>1, SyncedStep, DeleteStep, UpdateStep, CreateStep, ByHandStep DEF ManualRequests
<1>2. CASE RuleRequests
  BY <1>2, OtherStep DEF RuleRequests, CreateRule, UpdateRule, SetRuleActive, DeleteRule
<1>3. CASE ApplyRetroactively
  <2>1. CASE ReadRule \/ ReadCandidates \/ IgnoreCandidate
    BY <2>1, OtherStep DEF ReadRule, ReadCandidates, IgnoreCandidate
  <2>2. QED
    BY <1>3, <2>1, CandidateStep DEF ApplyRetroactively
<1>4. CASE Restart \/ UNCHANGED vars \/ \E c \in Categories : UpdateCategory(c)
  BY <1>4, OtherStep DEF Restart, UpdateCategory
<1>5. QED
  BY <1>1, <1>2, <1>3, <1>4, BackfillStep DEF Next

LEMMA InitInv == Init => Inv
<1> SUFFICES ASSUME Init PROVE Inv
  OBVIOUS
<1>1. NoRow \in Rows /\ NoRow.key = None
  BY DEF NoRow, Rows
<1>2. row \in [Transactions -> Rows] /\ \A t \in Transactions : row[t].key = None
  BY <1>1 DEF Init
<1>3. Told(Books)
  BY DEF Init, Told, Books
<1>4. \A k \in Keys : k # None
  BY DecisionsAssumption
<1>5. bound \in [Keys -> Binding \cup {None}]
  BY DEF Init
<1>6. OneEntryPerKey
  BY <1>2, <1>4 DEF Init, OneEntryPerKey
<1>7. QED
  BY <1>2, <1>3, <1>5, <1>6 DEF Inv, KeysOfManual

-----------------------------------------------------------------------------
(* What the user taught, and when *)

LEMMA GreatestOf ==
  ASSUME NEW q \in Nat, NEW S, S \subseteq 0 .. q, S # {}
  PROVE  \E x \in S : \A y \in S : y <= x
<1>1. PICK U : U = {n \in Nat : \A y \in S : y <= n}
  OBVIOUS
<1>2. U \subseteq Nat /\ q \in U
  BY <1>1
<1>3. PICK n \in U : \A m \in U : n <= m
  BY <1>2, LeastOf
<1>4. n \in Nat /\ \A y \in S : y <= n
  BY <1>1, <1>3
<1>5. n \in S
  <2>1. SUFFICES ASSUME n \notin S PROVE FALSE
    OBVIOUS
  <2>2. PICK z : z \in S
    OBVIOUS
  <2>3. \A y \in S : y \in Nat /\ y < n
    BY <1>4, <2>1
  <2>4. n - 1 \in Nat /\ \A y \in S : y <= n - 1
    BY <1>4, <2>2, <2>3
  <2>5. n - 1 \in U
    BY <1>1, <2>4
  <2>6. QED
    BY <1>3, <1>4, <2>5
<1>6. QED
  BY <1>4, <1>5

\* Of some transactions one was taught last.
LEMMA LastTaught ==
  ASSUME NEW q \in Nat, NEW f \in [Transactions -> 0 .. q], NEW S, S \subseteq Transactions, S # {}
  PROVE  \E u \in S : \A v \in S : f[v] <= f[u]
<1>1. PICK F : F = {f[u] : u \in S}
  OBVIOUS
<1>2. F \subseteq 0 .. q /\ F # {}
  BY <1>1
<1>3. PICK x \in F : \A y \in F : y <= x
  BY <1>2, GreatestOf
<1>4. PICK u \in S : f[u] = x
  BY <1>1, <1>3
<1>5. \A v \in S : f[v] <= f[u]
  BY <1>1, <1>3, <1>4
<1>6. QED
  BY <1>5

\* Now is after everything taught so far.
LEMMA NowIsLater ==
  ASSUME NEW q \in Nat, NEW f \in [Transactions -> 0 .. q]
  PROVE  Now(f) \in 1 .. (q + 1) /\ \A u \in Transactions : f[u] < Now(f)
<1>1. PICK F : F = {0} \cup {f[u] : u \in Transactions}
  OBVIOUS
<1>2. F \subseteq 0 .. q /\ F # {}
  BY <1>1
<1>3. PICK x : x = Max(F)
  OBVIOUS
<1>4. x \in F /\ \A y \in F : x >= y
  <2>1. \E z \in F : \A y \in F : y <= z
    BY <1>2, GreatestOf
  <2>2. \E z \in F : \A y \in F : z >= y
    BY <1>2, <2>1
  <2>3. QED
    BY <1>3, <2>2 DEF Max
<1>5. Now(f) = 1 + x
  BY <1>1, <1>3 DEF Now
<1>6. x \in 0 .. q /\ \A u \in Transactions : f[u] \in 0 .. q /\ f[u] <= x
  BY <1>1, <1>2, <1>4
<1>7. QED
  BY <1>5, <1>6

\* The memory is in order: what is not there is not decided, and what was taught
\* at one moment is one category.
Mindful(b, q) ==
  /\ b.taught \in [Transactions -> 0 .. q]
  /\ \A u, v \in Transactions :
       b.dec[u].origin = "manual" /\ b.dec[v].origin = "manual" /\ b.taught[u] = b.taught[v]
         => b.dec[u].cat = b.dec[v].cat
  /\ \A u \in Transactions : b.row[u].state = "none" => b.row[u] = NoRow /\ b.dec[u] = Undecided

\* What a write makes of the memory.
Notes(b, w, S, d) ==
  w.taught = [u \in Transactions |-> IF u \notin S \/ b.dec[u] = d THEN b.taught[u]
                                     ELSE IF d.origin = "manual" THEN Now(b.taught) ELSE 0]

LEMMA WrittenMemory ==
  ASSUME NEW b, NEW S, NEW c, NEW origin
  PROVE  Notes(b, WriteDecision(b, S, c, origin), S, [cat |-> c, origin |-> origin])
<1>1. PICK d : d = [cat |-> c, origin |-> origin]
  OBVIOUS
<1>2. PICK W : W = {u \in S : b.dec[u] # d}
  OBVIOUS
<1>3. PICK w : w = WriteDecision(b, S, c, origin)
  OBVIOUS
<1>4. w = [row |-> b.row, dec |-> [u \in Transactions |-> IF u \in W THEN d ELSE b.dec[u]],
           trail |-> [u \in Transactions |-> IF u \in W THEN d ELSE b.trail[u]],
           taught |-> Remembered(b.taught, W, origin)]
  BY <1>1, <1>2, <1>3 DEF WriteDecision
<1>5. w.taught = Remembered(b.taught, W, origin)
  BY <1>4
<1>6. \A u \in Transactions : u \notin W <=> (u \notin S \/ b.dec[u] = d)
  BY <1>2
<1>7. d.origin = origin
  BY <1>1
<1>8. Notes(b, w, S, d)
  BY <1>5, <1>6, <1>7 DEF Notes, Remembered
<1>9. QED
  BY <1>1, <1>3, <1>8

LEMMA WriteMinds ==
  ASSUME NEW q \in Nat, NEW b, NEW w, NEW S, NEW d, Mindful(b, q),
         Writes(b, w, S, d), Notes(b, w, S, d),
         \A u \in S \cap Transactions : b.row[u].state # "none"
  PROVE  /\ Mindful(w, q + 1) /\ w.row = b.row
         /\ d.origin # "manual" => Mindful(w, q)
<1>1. /\ b.taught \in [Transactions -> 0 .. q]
      /\ w.row = b.row
      /\ \A u \in Transactions : w.dec[u] = IF u \in S THEN d ELSE b.dec[u]
  BY DEF Mindful, Writes
<1>2. PICK now : now = Now(b.taught)
  OBVIOUS
<1>3. now \in 1 .. (q + 1) /\ \A u \in Transactions : b.taught[u] < now
  BY <1>1, <1>2, NowIsLater
<1>4. \A u \in Transactions :
        w.taught[u] = IF u \notin S \/ b.dec[u] = d THEN b.taught[u]
                      ELSE IF d.origin = "manual" THEN now ELSE 0
  BY <1>2 DEF Notes
<1>5. w.taught \in [Transactions -> 0 .. (q + 1)]
  <2>1. w.taught = [u \in Transactions |-> w.taught[u]]
    BY DEF Notes
  <2>2. \A u \in Transactions : w.taught[u] \in 0 .. (q + 1)
    BY <1>1, <1>3, <1>4
  <2>3. QED
    BY <2>1, <2>2
<1>6. d.origin # "manual" => w.taught \in [Transactions -> 0 .. q]
  <2>1. w.taught = [u \in Transactions |-> w.taught[u]]
    BY DEF Notes
  <2>2. d.origin # "manual" => \A u \in Transactions : w.taught[u] \in 0 .. q
    BY <1>1, <1>4
  <2>3. QED
    BY <2>1, <2>2
<1>7. ASSUME NEW u \in Transactions, NEW v \in Transactions, w.dec[u].origin = "manual",
             w.dec[v].origin = "manual", w.taught[u] = w.taught[v]
      PROVE  w.dec[u].cat = w.dec[v].cat
  <2>1. ASSUME NEW x \in Transactions, x \in S, b.dec[x] # d, w.dec[x].origin = "manual"
        PROVE  w.dec[x] = d /\ w.taught[x] = now
    BY <1>1, <1>4, <2>1
  <2>2. ASSUME NEW x \in Transactions, x \notin S \/ b.dec[x] = d
        PROVE  w.dec[x] = b.dec[x] /\ w.taught[x] = b.taught[x] /\ w.taught[x] # now
    <3>1. w.dec[x] = b.dec[x] /\ w.taught[x] = b.taught[x]
      BY <1>1, <1>4, <2>2
    <3>2. b.taught[x] < now /\ b.taught[x] \in Nat /\ now \in Nat
      BY <1>1, <1>3
    <3>3. QED
      BY <3>1, <3>2
  <2>3. CASE (u \notin S \/ b.dec[u] = d) /\ (v \notin S \/ b.dec[v] = d)
    BY <1>7, <2>2, <2>3 DEF Mindful
  <2>4. CASE ~(u \notin S \/ b.dec[u] = d) /\ ~(v \notin S \/ b.dec[v] = d)
    BY <1>7, <2>1, <2>4
  <2>5. QED
    BY <1>7, <2>1, <2>2, <2>3, <2>4
<1>8. \A u \in Transactions : w.row[u].state = "none" => w.row[u] = NoRow /\ w.dec[u] = Undecided
  BY <1>1 DEF Mindful
<1>9. QED
  BY <1>1, <1>5, <1>6, <1>7, <1>8 DEF Mindful

\* Nothing reaches a transaction that is not there through the group of one that is.
LEMMA GroupIsThere ==
  ASSUME NEW q, NEW b, Mindful(b, q), NEW t \in Transactions, b.row[t].state # "none"
  PROVE  \A u \in Group(b, t) : u \in Transactions /\ b.row[u].state # "none"
<1>1. NoRow.purchase = None
  BY DEF NoRow
<1>2. QED
  BY <1>1 DEF Group, Mindful

\* The books a pass or a rule makes of b: the same rows, and a memory in order.
Minds(b, a, q) == Mindful(a, q) /\ a.row = b.row

LEMMA AutomaticMinds ==
  ASSUME NEW q \in Nat, NEW b, Mindful(b, q), NEW t \in Transactions, NEW label,
         b.row[t].state # "none"
  PROVE  Minds(b, ApplyAutomatic(b, t, label), q)
<1>1. PICK a : a = ApplyAutomatic(b, t, label)
  OBVIOUS
<1>2. CASE a = b
  BY <1>1, <1>2 DEF Minds
<1>3. CASE a = WriteDecision(b, {t}, Autos[label], "automatic")
  <2>1. PICK d : d = [cat |-> Autos[label], origin |-> "automatic"]
    OBVIOUS
  <2>2. Writes(b, a, {t}, d) /\ Notes(b, a, {t}, d) /\ d.origin # "manual"
    BY <1>3, <2>1, WrittenDecisions, WrittenMemory
  <2>3. Mindful(a, q) /\ a.row = b.row
    BY <2>2, WriteMinds
  <2>4. QED
    BY <1>1, <2>3 DEF Minds
<1>4. QED
  BY <1>1, <1>2, <1>3 DEF ApplyAutomatic

LEMMA LearnedMinds ==
  ASSUME NEW q \in Nat, NEW b, Mindful(b, q), NEW t \in Transactions, b.row[t].state # "none"
  PROVE  Minds(b, ApplyLearned(b, t), q)
<1>1. PICK a : a = ApplyLearned(b, t)
  OBVIOUS
<1>2. PICK S, c : /\ S = {u \in Group(b, t) : Learnable(b, u)}
                  /\ c = b.dec[Newest(b, References(b, t))].cat
  OBVIOUS
<1>3. CASE a = b
  BY <1>1, <1>3 DEF Minds
<1>4. CASE a = WriteDecision(b, S, c, "learned")
  <2>1. PICK d : d = [cat |-> c, origin |-> "learned"]
    OBVIOUS
  <2>2. Writes(b, a, S, d) /\ Notes(b, a, S, d) /\ d.origin # "manual"
    BY <1>4, <2>1, WrittenDecisions, WrittenMemory
  <2>3. \A u \in S \cap Transactions : b.row[u].state # "none"
    BY <1>2, GroupIsThere
  <2>4. Mindful(a, q) /\ a.row = b.row
    BY <2>2, <2>3, WriteMinds
  <2>5. QED
    BY <1>1, <2>4 DEF Minds
<1>5. QED
  BY <1>1, <1>2, <1>3, <1>4 DEF ApplyLearned

LEMMA RuleMinds ==
  ASSUME NEW q \in Nat, NEW b, Mindful(b, q), NEW t \in Transactions, NEW c,
         b.row[t].state # "none"
  PROVE  Minds(b, ApplyRule(b, t, c), q)
<1>1. PICK a : a = ApplyRule(b, t, c)
  OBVIOUS
<1>2. CASE a = b
  BY <1>1, <1>2 DEF Minds
<1>3. CASE a = WriteDecision(b, Group(b, t), c, "rule")
  <2>1. PICK d : d = [cat |-> c, origin |-> "rule"]
    OBVIOUS
  <2>2. Writes(b, a, Group(b, t), d) /\ Notes(b, a, Group(b, t), d) /\ d.origin # "manual"
    BY <1>3, <2>1, WrittenDecisions, WrittenMemory
  <2>3. \A u \in Group(b, t) \cap Transactions : b.row[u].state # "none"
    BY GroupIsThere
  <2>4. Mindful(a, q) /\ a.row = b.row
    BY <2>2, <2>3, WriteMinds
  <2>5. QED
    BY <1>1, <2>4 DEF Minds
<1>4. QED
  BY <1>1, <1>2, <1>3 DEF ApplyRule

LEMMA HandMinds ==
  ASSUME NEW q \in Nat, NEW b, Mindful(b, q), NEW t \in Transactions, NEW c,
         b.row[t].state # "none"
  PROVE  Minds(b, AssignManual(b, t, c), q + 1)
<1>1. PICK a : a = AssignManual(b, t, c)
  OBVIOUS
<1>2. PICK d : d = [cat |-> c, origin |-> "manual"]
  OBVIOUS
<1>3. Writes(b, a, Group(b, t), d) /\ Notes(b, a, Group(b, t), d)
  BY <1>1, <1>2, WrittenDecisions, WrittenMemory DEF AssignManual
<1>4. \A u \in Group(b, t) \cap Transactions : b.row[u].state # "none"
  BY GroupIsThere
<1>5. Mindful(a, q + 1) /\ a.row = b.row
  BY <1>3, <1>4, WriteMinds
<1>6. QED
  BY <1>1, <1>5 DEF Minds

LEMMA PassesMind ==
  ASSUME NEW q \in Nat, NEW b, Mindful(b, q), NEW t \in Transactions, b.row[t].state # "none"
  PROVE  Minds(b, ApplyAutomaticPasses(b, t), q)
<1>1. PICK card : card = ApplyAutomatic(b, t, "card")
  OBVIOUS
<1>2. Mindful(card, q) /\ card.row = b.row
  BY <1>1, AutomaticMinds DEF Minds
<1>3. Minds(card, ApplyAutomatic(card, t, "source"), q)
  BY <1>2, AutomaticMinds
<1>4. QED
  BY <1>1, <1>2, <1>3 DEF Minds, ApplyAutomaticPasses

LEMMA RulesMind ==
  ASSUME NEW q \in Nat, NEW b, Mindful(b, q), NEW t \in Transactions, b.row[t].state # "none"
  PROVE  Minds(b, ApplyToNewTransaction(b, t), q)
<1> DEFINE Bad == {n \in 0 .. MaxRules : ~Minds(b, AfterRules(b, t)[n], q)}
<1>1. Bad \subseteq Nat
  OBVIOUS
<1>2. Bad = {}
  <2>1. SUFFICES ASSUME Bad # {} PROVE FALSE
    OBVIOUS
  <2>2. PICK n \in Bad : \A m \in Bad : n <= m
    BY <1>1, <2>1, LeastOf
  <2>3. n \in 0 .. MaxRules /\ ~Minds(b, AfterRules(b, t)[n], q)
    OBVIOUS
  <2>4. PICK here : here = AfterRules(b, t)[n]
    OBVIOUS
  <2>5. CASE n = 0
    <3>1. here = b
      BY <2>3, <2>4, <2>5, RulesInTurn
    <3>2. QED
      BY <2>3, <2>4, <3>1 DEF Minds
  <2>6. CASE n # 0
    <3>1. PICK before : before = AfterRules(b, t)[n - 1]
      OBVIOUS
    <3>2. Mindful(before, q) /\ before.row = b.row
      <4>1. n - 1 \in 0 .. MaxRules /\ ~(n <= n - 1)
        BY <2>3, <2>6, DecisionsAssumption
      <4>2. n - 1 \notin Bad
        <5> HIDE DEF Bad
        <5>1. QED
          BY <2>2, <4>1
      <4>3. QED
        BY <3>1, <4>1, <4>2 DEF Minds
    <3>3. here = before \/ here = ApplyRule(before, t, rules[n].cat)
      BY <2>3, <2>4, <2>6, <3>1, RulesInTurn
    <3>4. Mindful(here, q) /\ here.row = b.row
      BY <3>2, <3>3, RuleMinds DEF Minds
    <3>5. QED
      BY <2>3, <2>4, <3>4 DEF Minds
  <2>7. QED
    BY <2>5, <2>6
<1>3. MaxRules \in 0 .. MaxRules
  BY DecisionsAssumption
<1>4. QED
  BY <1>2, <1>3 DEF ApplyToNewTransaction

-----------------------------------------------------------------------------
(* What a new transaction is given *)

\* From b to a the decision and the memory of t alone may change.
OnlyAt(b, a, t) ==
  /\ a.row = b.row
  /\ \A u \in Transactions : u # t => a.dec[u] = b.dec[u] /\ a.taught[u] = b.taught[u]

\* Every transaction has a decision in b, if only that nobody decided.
Whole(b) == b.dec = [u \in Transactions |-> b.dec[u]]

LEMMA AutomaticGives ==
  ASSUME NEW b, NEW t \in Transactions, NEW label,
         Whole(b)
  PROVE  /\ OnlyAt(b, ApplyAutomatic(b, t, label), t)
         /\ Whole(ApplyAutomatic(b, t, label))
         /\ ApplyAutomatic(b, t, label).dec[t] =
              IF label \in b.row[t].labels \cap boot.known /\ b.dec[t].origin = "none"
              THEN [cat |-> Autos[label], origin |-> "automatic"] ELSE b.dec[t]
<1>1. PICK a : a = ApplyAutomatic(b, t, label)
  OBVIOUS
<1>2. PICK d : d = [cat |-> Autos[label], origin |-> "automatic"]
  OBVIOUS
<1>3. CASE label \in b.row[t].labels \cap boot.known /\ b.dec[t].origin = "none"
  <2>1. a = WriteDecision(b, {t}, Autos[label], "automatic")
    BY <1>1, <1>3 DEF ApplyAutomatic
  <2>2. Writes(b, a, {t}, d) /\ Notes(b, a, {t}, d)
    BY <1>2, <2>1, WrittenDecisions, WrittenMemory
  <2>3. OnlyAt(b, a, t)
    BY <2>2 DEF Writes, Notes, OnlyAt
  <2>4. Whole(a) /\ a.dec[t] = d
    BY <2>2 DEF Writes, Whole
  <2>5. QED
    BY <1>1, <1>2, <1>3, <2>3, <2>4
<1>4. CASE ~(label \in b.row[t].labels \cap boot.known /\ b.dec[t].origin = "none")
  <2>1. ApplyAutomatic(b, t, label) = b
    BY <1>4 DEF ApplyAutomatic
  <2>2. QED
    BY <1>4, <2>1 DEF OnlyAt
<1>5. QED
  BY <1>3, <1>4

\* The label of the card payments, or the provider's own, or nothing.
LabelGives(labels) ==
  IF "card" \in labels THEN [cat |-> Autos["card"], origin |-> "automatic"]
  ELSE IF "source" \in labels THEN [cat |-> Autos["source"], origin |-> "automatic"]
  ELSE Undecided

LEMMA PassesGive ==
  ASSUME NEW b, NEW t \in Transactions, Whole(b), b.dec[t] = Undecided
  PROVE  /\ OnlyAt(b, ApplyAutomaticPasses(b, t), t)
         /\ ApplyAutomaticPasses(b, t).dec[t] = LabelGives(b.row[t].labels \cap boot.known)
<1>1. PICK card : card = ApplyAutomatic(b, t, "card")
  OBVIOUS
<1>2. PICK both : both = ApplyAutomatic(card, t, "source")
  OBVIOUS
<1>3. both = ApplyAutomaticPasses(b, t)
  BY <1>1, <1>2 DEF ApplyAutomaticPasses
<1>4. PICK labels : labels = b.row[t].labels \cap boot.known
  OBVIOUS
<1>5. /\ OnlyAt(b, card, t) /\ Whole(card)
      /\ card.dec[t] = IF "card" \in labels /\ b.dec[t].origin = "none"
                       THEN [cat |-> Autos["card"], origin |-> "automatic"] ELSE b.dec[t]
  BY <1>1, <1>4, AutomaticGives
<1>6. card.row = b.row
  BY <1>5 DEF OnlyAt
<1>7. /\ OnlyAt(card, both, t)
      /\ both.dec[t] = IF "source" \in labels /\ card.dec[t].origin = "none"
                       THEN [cat |-> Autos["source"], origin |-> "automatic"] ELSE card.dec[t]
  BY <1>2, <1>4, <1>5, <1>6, AutomaticGives
<1>8. OnlyAt(b, both, t)
  BY <1>5, <1>7 DEF OnlyAt
<1>9. Undecided.origin = "none" /\ [cat |-> Autos["card"], origin |-> "automatic"].origin # "none"
  BY DEF Undecided
<1>10. both.dec[t] = LabelGives(labels)
  BY <1>5, <1>7, <1>9 DEF LabelGives
<1>11. QED
  BY <1>3, <1>4, <1>8, <1>10

\* Learning from the reference taught last, which there is when there is one.
LEMMA LearnedGives ==
  ASSUME NEW q \in Nat, NEW b, Mindful(b, q), NEW t \in Transactions, Learnable(b, t)
  PROVE  /\ References(b, t) = {} => ApplyLearned(b, t) = b
         /\ References(b, t) # {} =>
              \E u \in References(b, t) :
                /\ \A v \in References(b, t) : b.taught[v] <= b.taught[u]
                /\ ApplyLearned(b, t).dec[t] = [cat |-> b.dec[u].cat, origin |-> "learned"]
<1>1. References(b, t) = {} => ApplyLearned(b, t) = b
  BY DEF ApplyLearned
<1>2. ASSUME References(b, t) # {}
      PROVE  \E u \in References(b, t) :
               /\ \A v \in References(b, t) : b.taught[v] <= b.taught[u]
               /\ ApplyLearned(b, t).dec[t] = [cat |-> b.dec[u].cat, origin |-> "learned"]
  <2>1. PICK R : R = References(b, t)
    OBVIOUS
  <2>2. R \subseteq Transactions /\ R # {}
    BY <1>2, <2>1 DEF References
  <2>3. \E u \in R : \A v \in R : b.taught[v] <= b.taught[u]
    BY <2>2, LastTaught DEF Mindful
  <2>4. PICK u : u = Newest(b, R)
    OBVIOUS
  <2>5. u \in R /\ \A v \in R : b.taught[v] <= b.taught[u]
    BY <2>3, <2>4 DEF Newest
  <2>6. PICK S : S = {v \in Group(b, t) : Learnable(b, v)}
    OBVIOUS
  <2>7. t \in S
    BY <2>6 DEF Group
  <2>8. PICK d : d = [cat |-> b.dec[u].cat, origin |-> "learned"]
    OBVIOUS
  <2>9. PICK a : a = ApplyLearned(b, t)
    OBVIOUS
  <2>10. a = WriteDecision(b, S, b.dec[u].cat, "learned")
    BY <1>2, <2>1, <2>4, <2>6, <2>9 DEF ApplyLearned
  <2>11. Writes(b, a, S, d)
    BY <2>8, <2>10, WrittenDecisions
  <2>12. a.dec[t] = d
    BY <2>7, <2>11 DEF Writes
  <2>13. QED
    BY <2>1, <2>5, <2>8, <2>9, <2>12
<1>3. QED
  BY <1>1, <1>2

\* The rules that fire and categorize.
Fired(name) == {i \in Firing(name) : rules[i].cat # None}

\* The last of the rules that fired decides, if one did.
LEMMA RulesGive ==
  ASSUME NEW b, NEW t \in Transactions, Told(b), b.dec[t].origin # "manual"
  PROVE  /\ Fired(b.row[t].name) = {} => ApplyToNewTransaction(b, t).dec[t] = b.dec[t]
         /\ Fired(b.row[t].name) # {} =>
              ApplyToNewTransaction(b, t).dec[t] =
                [cat |-> rules[Max(Fired(b.row[t].name))].cat, origin |-> "rule"]
<1>1. PICK F : F = Fired(b.row[t].name)
  OBVIOUS
<1>2. F \subseteq 1 .. MaxRules
  BY <1>1 DEF Fired, Firing, Matching, ListActive
<1>3. \A i : Categorizes(b, t, i) <=> i \in F
  BY <1>1 DEF Categorizes, Fired
<1> DEFINE Given(n, e) ==
      /\ (\A i \in F : i > n) => e = b.dec[t]
      /\ \A m \in F : m <= n /\ (\A i \in F : i <= n => i <= m) => e = [cat |-> rules[m].cat, origin |-> "rule"]
           Right(n) == /\ Told(AfterRules(b, t)[n]) /\ AfterRules(b, t)[n].row = b.row
                       /\ AfterRules(b, t)[n].dec[t].origin # "manual"
                       /\ Given(n, AfterRules(b, t)[n].dec[t])
           Bad == {n \in 0 .. MaxRules : ~Right(n)}
<1>4. MaxRules \in Nat /\ Bad \subseteq Nat
  BY DecisionsAssumption
<1>5. Bad = {}
  <2>1. SUFFICES ASSUME Bad # {} PROVE FALSE
    OBVIOUS
  <2>2. PICK n \in Bad : \A m \in Bad : n <= m
    <3> HIDE DEF Bad
    <3>1. QED
      BY <1>4, <2>1, LeastOf
  <2>3. n \in 0 .. MaxRules /\ ~Right(n)
    <3> HIDE DEF Right
    <3>1. QED
      OBVIOUS
  <2>4. PICK here : here = AfterRules(b, t)[n]
    OBVIOUS
  <2>5. CASE n = 0
    <3>1. here = b
      BY <2>3, <2>4, <2>5, RulesInTurn
    <3>2. \A m \in F : ~(m <= 0)
      BY <1>2, <1>4
    <3>3. Given(n, here.dec[t])
      BY <2>5, <3>1, <3>2
    <3>4. QED
      <4> HIDE DEF Given
      <4>1. QED
        BY <2>3, <2>4, <3>1, <3>3
  <2>6. CASE n # 0
    <3>1. PICK before : before = AfterRules(b, t)[n - 1]
      OBVIOUS
    <3>2. n - 1 \in 0 .. MaxRules /\ ~(n <= n - 1)
      BY <1>4, <2>3, <2>6
    <3>3. Right(n - 1)
      <4> HIDE DEF Right
      <4>1. QED
        BY <2>2, <3>2
    <3>4. /\ Told(before) /\ before.row = b.row /\ before.dec[t].origin # "manual"
          /\ Given(n - 1, before.dec[t])
      <4> HIDE DEF Given
      <4>1. QED
        BY <3>1, <3>3
    <3>5. here = IF n \in F THEN ApplyRule(before, t, rules[n].cat) ELSE before
      BY <1>3, <2>3, <2>4, <2>6, <3>1, RulesInTurn
    <3>6. CASE n \notin F
      <4>1. here = before
        BY <3>5, <3>6
      <4>2. \A i \in F : (i > n - 1 <=> i > n) /\ (i <= n - 1 <=> i <= n)
        BY <1>2, <1>4, <2>3, <3>6
      <4>3. Given(n, here.dec[t])
        BY <3>4, <4>1, <4>2
      <4>4. QED
        <5> HIDE DEF Given
        <5>1. QED
          BY <2>3, <2>4, <3>4, <4>1, <4>3
    <3>7. CASE n \in F
      <4>1. PICK d : d = [cat |-> rules[n].cat, origin |-> "rule"]
        OBVIOUS
      <4>2. here = WriteDecision(before, Group(before, t), rules[n].cat, "rule")
        BY <3>4, <3>5, <3>7 DEF ApplyRule
      <4>3. Writes(before, here, Group(before, t), d)
        BY <4>1, <4>2, WrittenDecisions
      <4>4. Told(here)
        BY <3>4, <4>1, <4>3, WritesTold
      <4>5. here.row = b.row /\ here.dec[t] = d
        BY <3>4, <4>3 DEF Writes, Group
      <4>6. \A m \in F : m <= n /\ (\A i \in F : i <= n => i <= m) => m = n
        BY <1>2, <1>4, <2>3, <3>7
      <4>7. ~(\A i \in F : i > n)
        BY <2>3, <3>7
      <4>8. Given(n, here.dec[t])
        BY <4>1, <4>5, <4>6, <4>7
      <4>9. QED
        <5> HIDE DEF Given
        <5>1. QED
          BY <2>3, <2>4, <4>1, <4>4, <4>5, <4>8
    <3>8. QED
      BY <3>6, <3>7
  <2>7. QED
    BY <2>5, <2>6
<1>6. PICK e : e = ApplyToNewTransaction(b, t).dec[t]
  OBVIOUS
<1>7. Given(MaxRules, e)
  <2>1. MaxRules \in 0 .. MaxRules
    BY <1>4
  <2>2. Right(MaxRules)
    <3> HIDE DEF Right
    <3>1. QED
      BY <1>5, <2>1
  <2>3. e = AfterRules(b, t)[MaxRules].dec[t]
    BY <1>6 DEF ApplyToNewTransaction
  <2>4. QED
    <3> HIDE DEF Given
    <3>1. QED
      BY <2>2, <2>3
<1>8. CASE F = {}
  BY <1>1, <1>6, <1>7, <1>8
<1>9. CASE F # {}
  <2>1. PICK m : m = Max(F)
    OBVIOUS
  <2>2. F \subseteq 0 .. MaxRules
    BY <1>2, <1>4
  <2>3. \E x \in F : \A y \in F : y <= x
    BY <1>4, <1>9, <2>2, GreatestOf
  <2>4. \E x \in F : \A y \in F : x >= y
    BY <2>2, <2>3
  <2>5. m \in F /\ \A y \in F : m >= y
    BY <2>1, <2>4 DEF Max
  <2>6. m <= MaxRules /\ \A y \in F : y <= m
    BY <1>2, <1>4, <2>5
  <2>7. e = [cat |-> rules[m].cat, origin |-> "rule"]
    BY <1>7, <2>5, <2>6
  <2>8. QED
    BY <1>1, <1>6, <1>9, <2>1, <2>7
<1>10. QED
  BY <1>8, <1>9

\* What Expected says, with the label's word in one place.
LEMMA ExpectedSays ==
  ASSUME NEW t, NEW name, NEW L, L \subseteq {"card", "source"}
  PROVE  Expected(t, name, L) =
           IF Fired(name) # {} THEN <<"rule", rules[Max(Fired(name))].cat>>
           ELSE IF TaughtBy(t, name) # {} THEN <<"learned", dec[Latest(TaughtBy(t, name))].cat>>
           ELSE <<LabelGives(L).origin, LabelGives(L).cat>>
<1>1. PICK F : F = Fired(name)
  OBVIOUS
<1>2. PICK S : S = TaughtBy(t, name)
  OBVIOUS
<1>3. PICK r, l : r = rules[Max(F)].cat /\ l = dec[Latest(S)].cat
  OBVIOUS
<1>4. PICK c, o : c = Autos["card"] /\ o = Autos["source"]
  OBVIOUS
<1>5. Expected(t, name, L) =
        CASE F # {} -> <<"rule", r>>
          [] F = {} /\ S # {} -> <<"learned", l>>
          [] F = {} /\ S = {} /\ "card" \in L -> <<"automatic", c>>
          [] F = {} /\ S = {} /\ L = {"source"} -> <<"automatic", o>>
          [] OTHER -> <<"none", None>>
  BY <1>1, <1>2, <1>3, <1>4 DEF Expected, Fired
<1>6. L = {"source"} <=> "card" \notin L /\ "source" \in L
  OBVIOUS
<1>7. <<LabelGives(L).origin, LabelGives(L).cat>> =
        IF "card" \in L THEN <<"automatic", c>>
        ELSE IF "source" \in L THEN <<"automatic", o>> ELSE <<"none", None>>
  BY <1>4 DEF LabelGives, Undecided
<1>8. Expected(t, name, L) =
        IF F # {} THEN <<"rule", r>> ELSE IF S # {} THEN <<"learned", l>>
        ELSE IF "card" \in L THEN <<"automatic", c>>
        ELSE IF "source" \in L THEN <<"automatic", o>> ELSE <<"none", None>>
  BY <1>5, <1>6
<1>9. QED
  BY <1>1, <1>2, <1>3, <1>7, <1>8

\* The memory and what the user makes of it, between steps.
Memory == requests \in Nat /\ Mindful(Books, requests)

\* A new row R at t, on which the automatic passes had their word in p: what
\* learning and the rules then leave is what Expected says.
LEMMA NewlyGiven ==
  ASSUME Memory, NEW t \in Transactions, NEW R, NEW p, NEW L,
         L \subseteq {"card", "source"},
         p.row = [row EXCEPT ![t] = R], row = [u \in Transactions |-> row[u]],
         \A u \in Transactions : u # t => p.dec[u] = dec[u] /\ p.taught[u] = taught[u],
         p.dec[t] = LabelGives(L), Mindful(p, requests), Told(p)
  PROVE  LET d == ApplyToNewTransaction(ApplyLearned(p, t), t).dec[t]
         IN  <<d.origin, d.cat>> = Expected(t, R.name, L)
<1>1. PICK S : S = TaughtBy(t, R.name)
  OBVIOUS
<1>2. PICK F : F = Fired(R.name)
  OBVIOUS
<1>3. p.row[t] = R /\ \A u \in Transactions : u # t => p.row[u] = row[u]
  OBVIOUS
<1>4. References(p, t) = S
  BY <1>1, <1>3 DEF References, TaughtBy, Live, Books
<1>5. Learnable(p, t) /\ p.dec[t].origin # "manual"
  BY DEF Learnable, LabelGives, Undecided
<1>6. PICK i : i = ApplyLearned(p, t)
  OBVIOUS
<1>7. Told(i) /\ i.row = p.row /\ i.dec[t].origin # "manual"
  BY <1>5, <1>6, LearnedAside DEF Aside
<1>8. S = {} => i = p
  BY <1>4, <1>5, <1>6, LearnedGives DEF Memory
<1>9. ASSUME S # {} PROVE i.dec[t] = [cat |-> dec[Latest(S)].cat, origin |-> "learned"]
  <2>1. PICK u \in S : /\ \A v \in S : p.taught[v] <= p.taught[u]
                       /\ i.dec[t] = [cat |-> p.dec[u].cat, origin |-> "learned"]
    BY <1>4, <1>5, <1>6, <1>9, LearnedGives DEF Memory
  <2>2. \A v \in S : /\ v \in Transactions /\ v # t /\ dec[v].origin = "manual"
                     /\ p.dec[v] = dec[v] /\ p.taught[v] = taught[v]
    BY <1>1 DEF TaughtBy
  <2>3. PICK l : l = Latest(S)
    OBVIOUS
  <2>4. l \in S /\ \A v \in S : taught[v] <= taught[l]
    BY <2>1, <2>2, <2>3 DEF Latest
  <2>5. taught[l] = taught[u]
    <3>1. taught[l] \in Nat /\ taught[u] \in Nat
      BY <2>1, <2>2, <2>4 DEF Memory, Mindful, Books
    <3>2. taught[u] <= taught[l] /\ taught[l] <= taught[u]
      BY <2>1, <2>2, <2>4
    <3>3. QED
      BY <3>1, <3>2
  <2>6. dec[l].cat = dec[u].cat
    BY <2>1, <2>2, <2>4, <2>5 DEF Memory, Mindful, Books
  <2>7. QED
    BY <2>1, <2>2, <2>3, <2>6
<1>10. PICK d : d = ApplyToNewTransaction(i, t).dec[t]
  OBVIOUS
<1>11. i.row[t].name = R.name
  BY <1>3, <1>7
<1>12. /\ F = {} => d = i.dec[t]
       /\ F # {} => d = [cat |-> rules[Max(F)].cat, origin |-> "rule"]
  <2>1. /\ Fired(i.row[t].name) = {} => ApplyToNewTransaction(i, t).dec[t] = i.dec[t]
        /\ Fired(i.row[t].name) # {} =>
             ApplyToNewTransaction(i, t).dec[t] =
               [cat |-> rules[Max(Fired(i.row[t].name))].cat, origin |-> "rule"]
    BY <1>7, RulesGive
  <2>2. Fired(i.row[t].name) = F
    BY <1>2, <1>11
  <2>3. QED
    BY <1>10, <2>1, <2>2
<1>13. Expected(t, R.name, L) =
           IF F # {} THEN <<"rule", rules[Max(F)].cat>>
           ELSE IF S # {} THEN <<"learned", dec[Latest(S)].cat>>
           ELSE <<LabelGives(L).origin, LabelGives(L).cat>>
  BY <1>1, <1>2, ExpectedSays
<1>14. <<d.origin, d.cat>> = Expected(t, R.name, L)
  BY <1>8, <1>9, <1>12, <1>13
<1>15. QED
  BY <1>6, <1>10, <1>14

-----------------------------------------------------------------------------
(* Precedence, step by step *)

\* The body of Precedence.
Preceded ==
  \A t \in Transactions : row[t].state = "none" /\ row'[t].state = "live" =>
    \/ dec'[t].origin = "manual" /\ row'[t].origin = "manual"
    \/ <<dec'[t].origin, dec'[t].cat>>
         = Expected(t, row'[t].name, row'[t].labels \cap boot.known)

\* A step that makes no row has nothing to answer for.
LEMMA NothingNew ==
  ASSUME \A t \in Transactions : row[t].state = "none" => row'[t].state # "live"
  PROVE  Preceded
BY DEF Preceded

LEMMA MindfulLater ==
  ASSUME NEW q \in Nat, NEW b, Mindful(b, q)
  PROVE  Mindful(b, q + 1)
<1>1. 0 .. q \subseteq 0 .. (q + 1)
  OBVIOUS
<1>2. b.taught \in [Transactions -> 0 .. (q + 1)]
  BY <1>1 DEF Mindful
<1>3. QED
  BY <1>2 DEF Mindful

LEMMA BecomesMindful ==
  ASSUME NEW a, Becomes(a), requests' \in Nat, Mindful(a, requests')
  PROVE  Memory'
<1>1. a.row = row' /\ a.dec = dec' /\ a.taught = taught'
  BY DEF Becomes
<1>2. QED
  BY <1>1 DEF Memory, Mindful, Books

\* Books in which the row at t is another one.
Replaced(b, t, R) ==
  b.row = [row EXCEPT ![t] = R] /\ b.dec = dec /\ b.taught = taught /\ b.trail = trail

LEMMA AnotherRow ==
  ASSUME Inv, Memory, NEW t \in Transactions, NEW R, R.state # "none",
         NEW b, Replaced(b, t, R)
  PROVE  b.row[t] = R /\ Mindful(b, requests) /\ Told(b) /\ Whole(b)
<1>1. row = [u \in Transactions |-> row[u]]
  BY DEF Inv
<1>2. \A u \in Transactions : b.row[u] = IF u = t THEN R ELSE row[u]
  BY <1>1 DEF Replaced
<1>3. Told(b) /\ Whole(b)
  BY DEF Inv, Told, Books, Whole, Replaced
<1>4. Mindful(b, requests)
  BY <1>2 DEF Memory, Mindful, Books, Replaced
<1>5. QED
  BY <1>2, <1>3, <1>4

LEMMA LabelsOf ==
  ASSUME Inv, NEW L \in SUBSET Labels
  PROVE  L \cap boot.known \subseteq {"card", "source"}
BY DEF Labels

LEMMA InsertGives ==
  ASSUME Inv, Memory, NEW t \in Transactions, InsertSynced(t)
  PROVE  Memory' /\ Preceded
<1>1. PICK content \in Provided[t] :
        /\ row[t].state = "none" /\ requests' = requests
        /\ LET inserted == [Books EXCEPT !.row[t] = Stored(t, content)]
           IN Becomes(ApplyToNewTransaction(ApplyLearned(ApplyAutomaticPasses(inserted, t), t), t))
  BY DEF InsertSynced
<1>2. PICK R : R = Stored(t, content)
  OBVIOUS
<1>3. R.state = "live" /\ R.labels \in SUBSET Labels
  BY <1>2, StoredRow DEF Stored, Rows
<1>4. PICK b : b = [Books EXCEPT !.row[t] = R]
  OBVIOUS
<1>5. /\ b.row = [row EXCEPT ![t] = R] /\ b.dec = dec /\ b.taught = taught
      /\ b.row[t] = R /\ Mindful(b, requests) /\ Told(b) /\ Whole(b)
  <2>1. Replaced(b, t, R)
    BY <1>4 DEF Replaced, Books
  <2>2. QED
    BY <1>3, <2>1, AnotherRow DEF Replaced
<1>6. requests \in Nat /\ b.dec[t] = Undecided
  BY <1>1, <1>5 DEF Memory, Mindful, Books
<1>7. PICK p : p = ApplyAutomaticPasses(b, t)
  OBVIOUS
<1>8. PICK L : L = R.labels \cap boot.known
  OBVIOUS
<1>9. OnlyAt(b, p, t) /\ p.dec[t] = LabelGives(L)
  BY <1>5, <1>6, <1>7, <1>8, PassesGive
<1>10. Mindful(p, requests) /\ p.row = b.row
  BY <1>3, <1>5, <1>6, <1>7, PassesMind DEF Minds
<1>11. Told(p)
  BY <1>5, <1>7, TwoPassesAside DEF Aside
<1>12. PICK i : i = ApplyLearned(p, t)
  OBVIOUS
<1>13. Mindful(i, requests) /\ i.row = b.row
  BY <1>3, <1>5, <1>6, <1>10, <1>12, LearnedMinds DEF Minds
<1>14. PICK a : a = ApplyToNewTransaction(i, t)
  OBVIOUS
<1>15. Mindful(a, requests) /\ a.row = b.row
  BY <1>3, <1>5, <1>6, <1>13, <1>14, RulesMind DEF Minds
<1>16. Becomes(a)
  BY <1>1, <1>2, <1>4, <1>7, <1>12, <1>14
<1>17. Memory'
  BY <1>1, <1>6, <1>15, <1>16, BecomesMindful
<1>18. <<a.dec[t].origin, a.dec[t].cat>> = Expected(t, R.name, L)
  <2>1. \A u \in Transactions : u # t => p.dec[u] = dec[u] /\ p.taught[u] = taught[u]
    BY <1>5, <1>9 DEF OnlyAt
  <2>2. p.row = [row EXCEPT ![t] = R] /\ row = [u \in Transactions |-> row[u]]
    BY <1>5, <1>10 DEF Inv
  <2>3. L \subseteq {"card", "source"}
    BY <1>3, <1>8, LabelsOf
  <2>4. LET d == ApplyToNewTransaction(ApplyLearned(p, t), t).dec[t]
        IN  <<d.origin, d.cat>> = Expected(t, R.name, L)
    BY <1>9, <1>10, <1>11, <2>1, <2>2, <2>3, NewlyGiven
  <2>5. QED
    BY <1>12, <1>14, <2>4
<1>19. row' = a.row /\ dec' = a.dec
  BY <1>16 DEF Becomes
<1>20. row'[t] = R /\ \A u \in Transactions : u # t => row'[u] = row[u]
  <2>1. row = [u \in Transactions |-> row[u]]
    BY DEF Inv
  <2>2. QED
    BY <1>5, <1>15, <1>19, <2>1
<1>21. Preceded
  <2> SUFFICES ASSUME NEW u \in Transactions, row[u].state = "none", row'[u].state = "live"
               PROVE  <<dec'[u].origin, dec'[u].cat>>
                        = Expected(u, row'[u].name, row'[u].labels \cap boot.known)
    BY DEF Preceded
  <2>1. u = t
    BY <1>20
  <2>2. QED
    BY <1>8, <1>18, <1>19, <1>20, <2>1
<1>22. QED
  BY <1>17, <1>21

LEMMA UpdateGives ==
  ASSUME Inv, Memory, NEW t \in Transactions, UpdateSynced(t)
  PROVE  Memory' /\ Preceded
<1>1. PICK content \in Provided[t] :
        /\ row[t].origin = "synced" /\ requests' = requests
        /\ Becomes(ApplyToNewTransaction([Books EXCEPT !.row[t] = Stored(t, content)], t))
  BY DEF UpdateSynced
<1>2. PICK R : R = Stored(t, content)
  OBVIOUS
<1>3. R.state = "live"
  BY <1>2 DEF Stored
<1>4. PICK b : b = [Books EXCEPT !.row[t] = R]
  OBVIOUS
<1>5. b.row[t] = R /\ Mindful(b, requests) /\ Replaced(b, t, R)
  <2>1. Replaced(b, t, R)
    BY <1>4 DEF Replaced, Books
  <2>2. QED
    BY <1>3, <2>1, AnotherRow
<1>6. PICK a : a = ApplyToNewTransaction(b, t)
  OBVIOUS
<1>7. Mindful(a, requests) /\ a.row = b.row /\ requests \in Nat
  BY <1>3, <1>5, <1>6, RulesMind DEF Minds, Memory
<1>8. Becomes(a)
  BY <1>1, <1>2, <1>4, <1>6
<1>9. Memory'
  BY <1>1, <1>7, <1>8, BecomesMindful
<1>10. row[t].state # "none"
  BY <1>1 DEF Memory, Mindful, Books, NoRow
<1>11. row' = [row EXCEPT ![t] = R]
  BY <1>5, <1>7, <1>8 DEF Becomes, Replaced
<1>12. Preceded
  BY <1>10, <1>11, NothingNew DEF Inv
<1>13. QED
  BY <1>9, <1>12

LEMMA SetGives ==
  ASSUME Inv, Memory, NEW t \in Transactions, NEW c \in Categories, SetCategory(t, c)
  PROVE  Memory' /\ Preceded
<1>1. PICK a : a = AssignManual(Books, t, c)
  OBVIOUS
<1>2. Becomes(a) /\ requests' = requests + 1 /\ Books.row[t].state # "none"
  BY <1>1 DEF SetCategory, Request, Live
<1>3. Mindful(a, requests + 1) /\ a.row = row
  BY <1>1, <1>2, HandMinds, BooksFields DEF Minds, Memory
<1>4. Memory'
  BY <1>2, <1>3, BecomesMindful DEF Memory
<1>5. Preceded
  BY <1>2, <1>3, NothingNew DEF Becomes
<1>6. QED
  BY <1>4, <1>5

LEMMA RenameGives ==
  ASSUME Inv, Memory, NEW t \in Transactions, NEW name \in Names, NEW c \in Categories \cup {None},
         UpdateManual(t, name, c)
  PROVE  Memory' /\ Preceded
<1>1. PICK b : b = Renamed(t, name)
  OBVIOUS
<1>2. PICK R : R = [row[t] EXCEPT !.name = name]
  OBVIOUS
<1>3. row[t].state = "live" /\ row[t] \in Rows
  BY DEF UpdateManual, ByHand, Live, Books, Inv
<1>4. R.state = "live"
  BY <1>2, <1>3 DEF Rows
<1>5. b.row[t] = R /\ Mindful(b, requests) /\ Replaced(b, t, R)
  <2>1. Replaced(b, t, R)
    BY <1>1, <1>2 DEF Replaced, Renamed, Books
  <2>2. QED
    BY <1>4, <2>1, AnotherRow
<1>6. PICK a : /\ a = b \/ a = AssignManual(b, t, c)
               /\ Becomes(a)
  BY <1>1 DEF UpdateManual
<1>7. requests' = requests + 1 /\ requests \in Nat
  BY DEF UpdateManual, Request, Memory
<1>8. Mindful(a, requests + 1) /\ a.row = b.row
  BY <1>4, <1>5, <1>6, <1>7, HandMinds, MindfulLater DEF Minds
<1>9. Memory'
  BY <1>6, <1>7, <1>8, BecomesMindful
<1>10. row' = [row EXCEPT ![t] = R]
  BY <1>5, <1>6, <1>8 DEF Becomes, Replaced
<1>11. Preceded
  BY <1>3, <1>10, NothingNew DEF Inv
<1>12. QED
  BY <1>9, <1>11

\* An entry by hand has the category it was given, or the one learning and the
\* rules give it: no automatic pass looks at it.
LEMMA CreateGives ==
  ASSUME Inv, Memory, NEW t \in Transactions, NEW name \in Names, NEW c \in Categories \cup {None},
         NEW k \in Keys \cup {None}, CreateManual(t, k, name, c)
  PROVE  Memory' /\ Preceded
<1>1. PICK R : R = Entered(name, k)
  OBVIOUS
<1>2. /\ R.state = "live" /\ R.origin = "manual" /\ R.labels = {} /\ R.name = name
  BY <1>1 DEF Entered
<1>3. PICK b : b = [Books EXCEPT !.row[t] = R]
  OBVIOUS
<1>4. /\ b.row = [row EXCEPT ![t] = R] /\ b.dec = dec /\ b.taught = taught
      /\ b.row[t] = R /\ Mindful(b, requests) /\ Told(b)
  <2>1. Replaced(b, t, R)
    BY <1>3 DEF Replaced, Books
  <2>2. QED
    BY <1>2, <2>1, AnotherRow DEF Replaced
<1>5. /\ requests \in Nat /\ requests' = requests + 1 /\ row[t].state = "none"
      /\ dec[t] = Undecided
  BY DEF CreateManual, Request, Memory, Mindful, Books
<1>6. PICK a : a = NewDecisions(b, t, c)
  OBVIOUS
<1>7. Becomes(a)
  BY <1>1, <1>3, <1>6 DEF CreateManual
<1>8. ASSUME c = None
      PROVE  /\ Mindful(a, requests + 1) /\ a.row = b.row
             /\ \/ a.dec[t].origin = "manual"
                \/ <<a.dec[t].origin, a.dec[t].cat>> = Expected(t, R.name, R.labels \cap boot.known)
  <2>1. PICK i : i = ApplyLearned(b, t)
    OBVIOUS
  <2>2. Mindful(i, requests) /\ i.row = b.row
    BY <1>2, <1>4, <1>5, <2>1, LearnedMinds DEF Minds
  <2>3. a = ApplyToNewTransaction(i, t)
    BY <1>6, <1>8, <2>1 DEF NewDecisions
  <2>4. Mindful(a, requests) /\ a.row = b.row
    BY <1>2, <1>4, <1>5, <2>2, <2>3, RulesMind DEF Minds
  <2>5. b.dec[t] = LabelGives({})
    BY <1>4, <1>5 DEF LabelGives
  <2>6. row = [u \in Transactions |-> row[u]]
    BY DEF Inv
  <2>7. LET d == ApplyToNewTransaction(ApplyLearned(b, t), t).dec[t]
        IN  <<d.origin, d.cat>> = Expected(t, R.name, {})
    BY <1>4, <2>5, <2>6, NewlyGiven
  <2>8. <<a.dec[t].origin, a.dec[t].cat>> = Expected(t, R.name, R.labels \cap boot.known)
    <3>1. R.labels \cap boot.known = {}
      BY <1>2
    <3>2. QED
      BY <2>1, <2>3, <2>7, <3>1
  <2>9. Mindful(a, requests + 1)
    BY <1>5, <2>4, MindfulLater
  <2>10. QED
    BY <2>4, <2>8, <2>9
<1>9. ASSUME c # None
      PROVE  /\ Mindful(a, requests + 1) /\ a.row = b.row
             /\ \/ a.dec[t].origin = "manual"
                \/ <<a.dec[t].origin, a.dec[t].cat>> = Expected(t, R.name, R.labels \cap boot.known)
  <2>1. PICK m : m = ApplyToNewTransaction(b, t)
    OBVIOUS
  <2>2. Mindful(m, requests) /\ m.row = b.row
    BY <1>2, <1>4, <1>5, <2>1, RulesMind DEF Minds
  <2>3. a = AssignManual(m, t, c)
    BY <1>6, <1>9, <2>1 DEF NewDecisions
  <2>4. Mindful(a, requests + 1) /\ a.row = b.row
    BY <1>2, <1>4, <1>5, <2>2, <2>3, HandMinds DEF Minds
  <2>5. PICK d : d = [cat |-> c, origin |-> "manual"]
    OBVIOUS
  <2>6. Writes(m, a, Group(m, t), d)
    BY <2>3, <2>5, WrittenDecisions DEF AssignManual
  <2>7. a.dec[t].origin = "manual"
    BY <2>5, <2>6 DEF Writes, Group
  <2>8. QED
    BY <2>4, <2>7
<1>10. /\ Mindful(a, requests + 1) /\ a.row = b.row
       /\ \/ a.dec[t].origin = "manual"
          \/ <<a.dec[t].origin, a.dec[t].cat>> = Expected(t, R.name, R.labels \cap boot.known)
  BY <1>8, <1>9
<1>11. Memory'
  BY <1>5, <1>7, <1>10, BecomesMindful
<1>12. row' = b.row /\ dec' = a.dec
  BY <1>7, <1>10 DEF Becomes
<1>13. row'[t] = R /\ \A u \in Transactions : u # t => row'[u] = row[u]
  BY <1>4, <1>12 DEF Inv
<1>14. Preceded
  <2> SUFFICES ASSUME NEW u \in Transactions, row[u].state = "none", row'[u].state = "live"
               PROVE  \/ dec'[u].origin = "manual" /\ row'[u].origin = "manual"
                      \/ <<dec'[u].origin, dec'[u].cat>>
                           = Expected(u, row'[u].name, row'[u].labels \cap boot.known)
    BY DEF Preceded
  <2>1. u = t
    BY <1>13
  <2>2. QED
    BY <1>2, <1>10, <1>12, <1>13, <2>1
<1>15. QED
  BY <1>11, <1>14

LEMMA DeleteGives ==
  ASSUME Inv, Memory, NEW t \in Transactions, DeleteManual(t)
  PROVE  Memory' /\ Preceded
<1>1. PICK R : R = [row[t] EXCEPT !.state = "deleted"]
  OBVIOUS
<1>2. R.state = "deleted" /\ row[t].state = "live"
  BY <1>1 DEF DeleteManual, ByHand, Live, Books, Inv, Rows
<1>3. row' = [row EXCEPT ![t] = R] /\ dec' = dec /\ taught' = taught
  BY <1>1 DEF DeleteManual
<1>4. \A u \in Transactions : row'[u] = IF u = t THEN R ELSE row[u]
  BY <1>3 DEF Inv
<1>5. requests \in Nat /\ requests' = requests + 1 /\ Mindful(Books, requests + 1)
  BY MindfulLater DEF DeleteManual, Request, Memory
<1>6. Memory'
  BY <1>2, <1>3, <1>4, <1>5 DEF Memory, Mindful, Books
<1>7. Preceded
  BY <1>2, <1>4, NothingNew
<1>8. QED
  BY <1>6, <1>7

LEMMA CandidateGives ==
  ASSUME Inv, Memory, NEW t \in Transactions, ApplyToCandidate(t)
  PROVE  Memory' /\ Preceded
<1>1. PICK a : /\ a = Books \/ (a = ApplyRule(Books, t, job.form.cat) /\ Live(Books, t))
               /\ Becomes(a)
  BY DEF ApplyToCandidate
<1>2. requests' = requests /\ requests \in Nat /\ Mindful(Books, requests)
  BY DEF ApplyToCandidate, Memory
<1>3. Mindful(a, requests) /\ a.row = row
  BY <1>1, <1>2, RuleMinds, BooksFields DEF Minds, Live
<1>4. Memory'
  BY <1>1, <1>2, <1>3, BecomesMindful
<1>5. Preceded
  BY <1>1, <1>3, NothingNew DEF Becomes
<1>6. QED
  BY <1>4, <1>5

LEMMA BackfillGives ==
  ASSUME Inv, Memory, Backfill
  PROVE  Memory' /\ Preceded
<1>1. row' = row /\ taught' = taught /\ requests' = requests
  BY DEF Backfill, BackfillDecision, BackfillEvent, BackfillDone
<1>2. Preceded
  BY <1>1, NothingNew
<1>3. ASSUME NEW t \in Transactions, BackfillDecision(t) PROVE Memory'
  <2>1. PICK d : d = [cat |-> Autos[Pass], origin |-> "automatic"]
    OBVIOUS
  <2>2. dec' = [dec EXCEPT ![t] = d] /\ row[t].state # "none" /\ d.origin = "automatic"
    BY <1>3, <2>1 DEF BackfillDecision, Uncategorized
  <2>3. dec = [u \in Transactions |-> dec[u]]
    BY DEF Inv, Told, Books
  <2>4. \A u \in Transactions : dec'[u] = IF u = t THEN d ELSE dec[u]
    BY <2>2, <2>3
  <2>5. QED
    BY <1>1, <2>2, <2>4 DEF Memory, Mindful, Books
<1>4. CASE BackfillEvent \/ BackfillDone
  <2>1. dec' = dec
    BY <1>4 DEF BackfillEvent, BackfillDone
  <2>2. QED
    BY <1>1, <1>2, <2>1 DEF Memory, Mindful, Books
<1>5. QED
  BY <1>2, <1>3, <1>4 DEF Backfill

LEMMA OtherGives ==
  ASSUME Memory, UNCHANGED books, requests' = requests \/ requests' = requests + 1
  PROVE  Memory' /\ Preceded
<1>1. requests \in Nat /\ Mindful(Books, requests) /\ Mindful(Books, requests + 1)
  BY MindfulLater DEF Memory
<1>2. Memory'
  BY <1>1 DEF Memory, Mindful, Books
<1>3. Preceded
  BY NothingNew
<1>4. QED
  BY <1>2, <1>3

LEMMA NextGives == Inv /\ Memory /\ [Next]_vars => Memory' /\ Preceded
<1> SUFFICES ASSUME Inv, Memory, [Next]_vars PROVE Memory' /\ Preceded
  OBVIOUS
<1>1. ASSUME NEW t \in Transactions,
             \/ InsertSynced(t) \/ UpdateSynced(t) \/ ManualRequests(t)
             \/ \E c \in Categories : SetCategory(t, c)
      PROVE  Memory' /\ Preceded
  BY <1>1, InsertGives, UpdateGives, DeleteGives, RenameGives, CreateGives, SetGives DEF ManualRequests
<1>2. CASE RuleRequests
  BY <1>2, OtherGives DEF RuleRequests, CreateRule, UpdateRule, SetRuleActive, DeleteRule, Request
<1>3. CASE ApplyRetroactively
  <2>1. CASE ReadRule \/ ReadCandidates \/ IgnoreCandidate
    BY <2>1, OtherGives DEF ReadRule, ReadCandidates, IgnoreCandidate
  <2>2. QED
    BY <1>3, <2>1, CandidateGives DEF ApplyRetroactively
<1>4. CASE Restart \/ UNCHANGED vars \/ \E c \in Categories : UpdateCategory(c)
  BY <1>4, OtherGives DEF Restart, UpdateCategory, Request
<1>5. QED
  BY <1>1, <1>2, <1>3, <1>4, BackfillGives DEF Next

LEMMA InitMemory == Init => Memory
<1> SUFFICES ASSUME Init PROVE Memory
  OBVIOUS
<1>1. taught \in [Transactions -> 0 .. 0]
  BY DEF Init
<1>2. QED
  BY <1>1 DEF Init, Memory, Mindful, Books, Undecided

-----------------------------------------------------------------------------
(* Types                                                                   *)

Decision == [cat : Categories \cup {None}, origin : Origins]
Job == [phase : {"idle", "rule", "candidates", "apply", "ignore"}, rule : 0 .. MaxRules, form : Rule,
        todo : SUBSET Transactions, now : Transactions \cup {None}]
Boot == [known : SUBSET Labels, passes : SUBSET Labels, event : Transactions \cup {None}]

\* Books whose decisions and events are of categories there are.
Categorized(b) == b.dec \in [Transactions -> Decision] /\ b.trail \in [Transactions -> Decision]

\* What is not of the books; a job in its first phase names a rule.
Surroundings ==
  /\ active \subseteq Categories
  /\ rules \in [1 .. MaxRules -> Rule]
  /\ created \in 0 .. MaxRules /\ requests \in 0 .. MaxRequests
  /\ job \in Job /\ (job.phase = "rule" => job.rule \in 1 .. MaxRules)
  /\ boot \in Boot

LEMMA WriteCategorized ==
  ASSUME NEW b, NEW S, NEW c \in Categories \cup {None}, NEW origin \in Origins, Categorized(b)
  PROVE  Categorized(WriteDecision(b, S, c, origin))
<1>1. PICK d, w : d = [cat |-> c, origin |-> origin] /\ w = WriteDecision(b, S, c, origin)
  OBVIOUS
<1>2. d \in Decision
  BY <1>1 DEF Decision
<1>3. Writes(b, w, S, d)
  BY <1>1, WrittenDecisions
<1>4. Categorized(w)
  BY <1>2, <1>3 DEF Categorized, Writes
<1>5. QED
  BY <1>1, <1>4

LEMMA AutomaticCategorized ==
  ASSUME NEW b, Categorized(b), NEW t
  PROVE  Categorized(ApplyAutomaticPasses(b, t))
<1>1. ASSUME NEW a, Categorized(a), NEW label \in Labels PROVE Categorized(ApplyAutomatic(a, t, label))
  <2>1. Autos[label] \in Categories \cup {None} /\ "automatic" \in Origins
    BY DecisionsAssumption DEF Origins
  <2>2. Categorized(WriteDecision(a, {t}, Autos[label], "automatic"))
    BY <1>1, <2>1, WriteCategorized
  <2>3. QED
    BY <1>1, <2>2 DEF ApplyAutomatic
<1>2. "card" \in Labels /\ "source" \in Labels
  BY DEF Labels
<1>3. Categorized(ApplyAutomatic(b, t, "card"))
  BY <1>1, <1>2
<1>4. QED
  BY <1>1, <1>2, <1>3 DEF ApplyAutomaticPasses

\* What is learned is the category of a reference.
LEMMA LearnedCategorized ==
  ASSUME NEW q \in Nat, NEW b, Mindful(b, q), Categorized(b), NEW t
  PROVE  Categorized(ApplyLearned(b, t))
<1>1. CASE References(b, t) = {} \/ ~Learnable(b, t)
  BY <1>1 DEF ApplyLearned
<1>2. CASE ~(References(b, t) = {} \/ ~Learnable(b, t))
  <2>1. PICK S, u : S = References(b, t) /\ u = Newest(b, S)
    OBVIOUS
  <2>2. S \subseteq Transactions /\ S # {}
    BY <1>2, <2>1 DEF References
  <2>3. \E x \in S : \A v \in S : b.taught[v] <= b.taught[x]
    BY <2>2, LastTaught DEF Mindful
  <2>4. u \in Transactions
    BY <2>1, <2>2, <2>3 DEF Newest
  <2>5. b.dec[u].cat \in Categories \cup {None} /\ "learned" \in Origins
    BY <2>4 DEF Categorized, Decision, Origins
  <2>6. PICK R : R = {x \in Group(b, t) : Learnable(b, x)}
    OBVIOUS
  <2>7. ApplyLearned(b, t) = WriteDecision(b, R, b.dec[u].cat, "learned")
    BY <1>2, <2>1, <2>6 DEF ApplyLearned
  <2>8. QED
    BY <2>5, <2>7, WriteCategorized
<1>3. QED
  BY <1>1, <1>2

LEMMA RuleCategorized ==
  ASSUME NEW b, Categorized(b), NEW t, NEW c \in Categories \cup {None}
  PROVE  Categorized(ApplyRule(b, t, c)) /\ Categorized(AssignManual(b, t, c))
<1>1. "rule" \in Origins /\ "manual" \in Origins
  BY DEF Origins
<1>2. /\ Categorized(WriteDecision(b, Group(b, t), c, "rule"))
      /\ Categorized(WriteDecision(b, Group(b, t), c, "manual"))
  BY <1>1, WriteCategorized
<1>3. QED
  BY <1>2 DEF ApplyRule, AssignManual

LEMMA RulesCategorized ==
  ASSUME Surroundings, NEW b, Categorized(b), NEW t
  PROVE  Categorized(ApplyToNewTransaction(b, t))
<1> DEFINE Bad == {n \in 0 .. MaxRules : ~Categorized(AfterRules(b, t)[n])}
<1>1. Bad = {}
  <2>1. SUFFICES ASSUME Bad # {} PROVE FALSE
    OBVIOUS
  <2>2. PICK n \in Bad : \A m \in Bad : n <= m
    <3>1. Bad \subseteq Nat
      OBVIOUS
    <3> HIDE DEF Bad
    <3>2. QED
      BY <2>1, <3>1, LeastOf
  <2>3. n \in 0 .. MaxRules /\ ~Categorized(AfterRules(b, t)[n])
    OBVIOUS
  <2>4. n # 0
    BY <2>3, RulesInTurn
  <2>5. PICK before : before = AfterRules(b, t)[n - 1]
    OBVIOUS
  <2>6. Categorized(before)
    <3>1. n - 1 \in 0 .. MaxRules /\ ~(n <= n - 1)
      BY <2>3, <2>4, DecisionsAssumption
    <3>2. n - 1 \notin Bad
      <4> HIDE DEF Bad
      <4>1. QED
        BY <2>2, <3>1
    <3>3. QED
      BY <2>5, <3>1, <3>2
  <2>7. rules[n].cat \in Categories \cup {None}
    <3>1. n \in 1 .. MaxRules
      BY <2>3, <2>4, DecisionsAssumption
    <3>2. QED
      BY <3>1 DEF Surroundings, Rule
  <2>8. AfterRules(b, t)[n] = before \/ AfterRules(b, t)[n] = ApplyRule(before, t, rules[n].cat)
    BY <2>3, <2>4, <2>5, RulesInTurn
  <2>9. QED
    BY <2>3, <2>6, <2>7, <2>8, RuleCategorized
<1>2. MaxRules \in 0 .. MaxRules
  BY DecisionsAssumption
<1>3. QED
  BY <1>1, <1>2 DEF ApplyToNewTransaction

LEMMA BecomesCategorized ==
  ASSUME NEW a, Categorized(a), Becomes(a)
  PROVE  Categorized(Books)'
<1>1. a.dec = dec' /\ a.trail = trail'
  BY DEF Becomes
<1>2. QED
  BY <1>1 DEF Categorized, Books

LEMMA SyncedCategorized ==
  ASSUME Inv, Memory, Categorized(Books), Surroundings, NEW t \in Transactions,
         InsertSynced(t) \/ UpdateSynced(t)
  PROVE  Categorized(Books)'
<1>1. PICK content \in Provided[t] :
        LET inserted == [Books EXCEPT !.row[t] = Stored(t, content)]
        IN \/ Becomes(ApplyToNewTransaction(ApplyLearned(ApplyAutomaticPasses(inserted, t), t), t))
           \/ Becomes(ApplyToNewTransaction(inserted, t))
  BY DEF InsertSynced, UpdateSynced
<1>2. PICK b, R : R = Stored(t, content) /\ b = [Books EXCEPT !.row[t] = R]
  OBVIOUS
<1>3. Replaced(b, t, R) /\ Categorized(b)
  BY <1>2 DEF Replaced, Books, Categorized
<1>4. b.row[t].state # "none" /\ Mindful(b, requests) /\ requests \in Nat
  <2>1. R.state = "live"
    BY <1>2 DEF Stored
  <2>2. QED
    BY <1>3, <2>1, AnotherRow DEF Memory
<1>5. PICK p, l : p = ApplyAutomaticPasses(b, t) /\ l = ApplyLearned(p, t)
  OBVIOUS
<1>6. Categorized(p) /\ Mindful(p, requests)
  BY <1>3, <1>4, <1>5, AutomaticCategorized, PassesMind DEF Minds
<1>7. Categorized(l)
  BY <1>4, <1>5, <1>6, LearnedCategorized
<1>8. PICK i : (i = b \/ i = l) /\ Becomes(ApplyToNewTransaction(i, t))
  BY <1>1, <1>2, <1>5
<1>9. Categorized(ApplyToNewTransaction(i, t))
  BY <1>3, <1>7, <1>8, RulesCategorized
<1>10. QED
  BY <1>8, <1>9, BecomesCategorized

LEMMA ManualCategorized ==
  ASSUME Inv, Memory, Categorized(Books), Surroundings, NEW t \in Transactions,
         ManualRequests(t) \/ \E c \in Categories : SetCategory(t, c)
  PROVE  Categorized(Books)'
<1>1. ASSUME NEW c \in Categories, SetCategory(t, c) PROVE Categorized(Books)'
  <2>1. Categorized(AssignManual(Books, t, c))
    BY RuleCategorized
  <2>2. QED
    BY <1>1, <2>1, BecomesCategorized DEF SetCategory
<1>2. CASE DeleteManual(t)
  BY <1>2 DEF DeleteManual, Books, Categorized
<1>3. ASSUME NEW name \in Names, NEW c \in Categories \cup {None}, UpdateManual(t, name, c)
      PROVE  Categorized(Books)'
  <2>1. PICK b : b = Renamed(t, name)
    OBVIOUS
  <2>2. Categorized(b)
    BY <2>1 DEF Renamed, Books, Categorized
  <2>3. PICK a : Becomes(a) /\ (a = b \/ a = AssignManual(b, t, c))
    BY <1>3, <2>1 DEF UpdateManual
  <2>4. Categorized(a)
    BY <2>2, <2>3, RuleCategorized
  <2>5. QED
    BY <2>3, <2>4, BecomesCategorized
<1>4. ASSUME NEW name \in Names, NEW c \in Categories \cup {None}, NEW k \in Keys \cup {None},
             CreateManual(t, k, name, c)
      PROVE  Categorized(Books)'
  <2>1. PICK b, R : R = Entered(name, k) /\ b = [Books EXCEPT !.row[t] = R]
    OBVIOUS
  <2>2. Replaced(b, t, R) /\ Categorized(b)
    BY <2>1 DEF Replaced, Books, Categorized
  <2>3. Mindful(b, requests) /\ requests \in Nat
    <3>1. R.state = "live"
      BY <2>1 DEF Entered
    <3>2. QED
      BY <2>2, <3>1, AnotherRow DEF Memory
  <2>4. PICK a : a = NewDecisions(b, t, c)
    OBVIOUS
  <2>5. Becomes(a)
    BY <1>4, <2>1, <2>4 DEF CreateManual
  <2>6. Categorized(ApplyLearned(b, t))
    BY <2>2, <2>3, LearnedCategorized
  <2>7. Categorized(ApplyToNewTransaction(ApplyLearned(b, t), t)) /\ Categorized(ApplyToNewTransaction(b, t))
    BY <2>2, <2>6, RulesCategorized
  <2>8. Categorized(AssignManual(ApplyToNewTransaction(b, t), t, c))
    BY <2>7, RuleCategorized
  <2>9. Categorized(a)
    BY <2>4, <2>7, <2>8 DEF NewDecisions
  <2>10. QED
    BY <2>5, <2>9, BecomesCategorized
<1>5. QED
  BY <1>1, <1>2, <1>3, <1>4 DEF ManualRequests

LEMMA CandidateCategorized ==
  ASSUME Categorized(Books), Surroundings, NEW t \in Transactions, ApplyToCandidate(t)
  PROVE  Categorized(Books)'
<1>1. job.form.cat \in Categories \cup {None}
  BY DEF Surroundings, Job, Rule
<1>2. PICK a : Becomes(a) /\ (a = Books \/ a = ApplyRule(Books, t, job.form.cat))
  BY DEF ApplyToCandidate
<1>3. Categorized(a)
  BY <1>1, <1>2, RuleCategorized
<1>4. QED
  BY <1>2, <1>3, BecomesCategorized

LEMMA BackfillCategorized ==
  ASSUME Categorized(Books), Surroundings, Backfill
  PROVE  Categorized(Books)'
<1>1. dec \in [Transactions -> Decision] /\ trail \in [Transactions -> Decision]
  BY DEF Categorized, Books
<1>2. ASSUME NEW t \in Transactions, BackfillDecision(t) PROVE Categorized(Books)'
  <2>1. PICK d : d = [cat |-> Autos[Pass], origin |-> "automatic"]
    OBVIOUS
  <2>2. d \in Decision
    <3>1. Pass \in Labels
      BY DEF Pass, Labels
    <3>2. QED
      BY <2>1, <3>1, DecisionsAssumption DEF Decision, Origins
  <2>3. dec' = [dec EXCEPT ![t] = d] /\ trail' = trail
    BY <1>2, <2>1 DEF BackfillDecision
  <2>4. QED
    BY <1>1, <2>2, <2>3 DEF Categorized, Books
<1>3. CASE BackfillEvent
  <2>1. boot.event \in Transactions
    BY <1>3 DEF BackfillEvent, Surroundings, Boot
  <2>2. dec' = dec /\ trail' = [trail EXCEPT ![boot.event] = dec[boot.event]]
    BY <1>3 DEF BackfillEvent
  <2>3. QED
    BY <1>1, <2>1, <2>2 DEF Categorized, Books
<1>4. CASE BackfillDone
  BY <1>1, <1>4 DEF BackfillDone, Categorized, Books
<1>5. QED
  BY <1>2, <1>3, <1>4 DEF Backfill

LEMMA StepCategorized ==
  ASSUME Inv, Memory, Categorized(Books), Surroundings, [Next]_vars
  PROVE  Categorized(Books)'
<1>1. ASSUME UNCHANGED books PROVE Categorized(Books)'
  BY <1>1 DEF Categorized, Books
<1>2. ASSUME NEW t \in Transactions,
             \/ InsertSynced(t) \/ UpdateSynced(t) \/ ManualRequests(t)
             \/ \E c \in Categories : SetCategory(t, c)
      PROVE  Categorized(Books)'
  BY <1>2, SyncedCategorized, ManualCategorized
<1>3. CASE RuleRequests
  BY <1>1, <1>3 DEF RuleRequests, CreateRule, UpdateRule, SetRuleActive, DeleteRule
<1>4. CASE ApplyRetroactively
  <2>1. CASE ReadRule \/ ReadCandidates \/ IgnoreCandidate
    BY <1>1, <2>1 DEF ReadRule, ReadCandidates, IgnoreCandidate
  <2>2. QED
    BY <1>4, <2>1, CandidateCategorized DEF ApplyRetroactively
<1>5. CASE Restart \/ UNCHANGED vars \/ \E c \in Categories : UpdateCategory(c)
  BY <1>1, <1>5 DEF Restart, UpdateCategory
<1>6. QED
  BY <1>2, <1>3, <1>4, <1>5, BackfillCategorized DEF Next

\* The rules, the retroactive job and the start's passes.
LEMMA JobsTyped ==
  /\ Idle \in Job /\ Idle.phase = "idle" /\ NoRule \in Rule
<1>1. NoRule \in Rule
  BY DEF NoRule, Rule
<1>2. 0 \in 0 .. MaxRules
  BY DecisionsAssumption
<1>3. QED
  BY <1>1, <1>2 DEF Idle, Job

LEMMA RuleRequestsSurround ==
  ASSUME Surroundings, RuleRequests
  PROVE  Surroundings'
<1>1. ASSUME NEW i \in 1 .. MaxRules, NEW retroactively \in BOOLEAN, ThenApply(i, retroactively)
      PROVE  job' \in Job /\ (job'.phase = "rule" => job'.rule \in 1 .. MaxRules)
  <2>1. CASE job' = job
    BY <2>1 DEF Surroundings
  <2>2. CASE job' = [Idle EXCEPT !.phase = "rule", !.rule = i]
    <3>1. i \in 0 .. MaxRules
      BY DecisionsAssumption
    <3>2. [Idle EXCEPT !.phase = "rule", !.rule = i] \in Job
      BY <3>1, JobsTyped DEF Job
    <3>3. [Idle EXCEPT !.phase = "rule", !.rule = i].rule = i
      BY DEF Idle
    <3>4. QED
      BY <2>2, <3>2, <3>3
  <2>3. QED
    BY <1>1, <2>1, <2>2 DEF ThenApply
<1>2. requests' \in 0 .. MaxRequests
  BY DecisionsAssumption DEF Surroundings, RuleRequests, CreateRule, UpdateRule, SetRuleActive, DeleteRule, Request
<1>3. ASSUME NEW form \in RuleForms, NEW retroactively \in BOOLEAN, CreateRule(form, retroactively)
      PROVE  Surroundings'
  <2>1. created + 1 \in 1 .. MaxRules /\ created' \in 0 .. MaxRules
    BY <1>3, DecisionsAssumption DEF CreateRule, Surroundings
  <2>2. rules' \in [1 .. MaxRules -> Rule]
    BY <1>3, DecisionsAssumption DEF CreateRule, Surroundings
  <2>3. QED
    BY <1>1, <1>2, <1>3, <2>1, <2>2 DEF CreateRule, Surroundings
<1>4. ASSUME NEW i \in 1 .. MaxRules, NEW form \in RuleForms, NEW retroactively \in BOOLEAN,
             UpdateRule(i, form, retroactively)
      PROVE  Surroundings'
  <2>1. rules' \in [1 .. MaxRules -> Rule]
    BY <1>4, DecisionsAssumption DEF UpdateRule, Surroundings
  <2>2. QED
    BY <1>1, <1>2, <1>4, <2>1 DEF UpdateRule, Surroundings
<1>5. ASSUME NEW i \in 1 .. MaxRules, SetRuleActive(i) \/ DeleteRule(i) PROVE Surroundings'
  <2>1. rules[i] \in Rule
    BY DEF Surroundings
  <2>2. [rules[i] EXCEPT !.active = ~@] \in Rule
    BY <2>1 DEF Rule
  <2>3. rules' \in [1 .. MaxRules -> Rule]
    BY <1>5, <2>2, JobsTyped DEF SetRuleActive, DeleteRule, Surroundings
  <2>4. QED
    BY <1>2, <1>5, <2>3 DEF SetRuleActive, DeleteRule, Surroundings
<1>6. QED
  BY <1>3, <1>4, <1>5 DEF RuleRequests

LEMMA JobSurrounds ==
  ASSUME Surroundings, ApplyRetroactively
  PROVE  Surroundings'
<1>1. UNCHANGED <<active, rules, created, requests, boot>>
  BY DEF ApplyRetroactively, ReadRule, ReadCandidates, IgnoreCandidate, ApplyToCandidate
<1>2. job \in Job
  BY DEF Surroundings
<1>3. ASSUME NEW todo \in SUBSET Transactions PROVE After(todo) \in Job /\ After(todo).phase # "rule"
  BY <1>2, JobsTyped DEF After, Job
<1>4. job' \in Job /\ job'.phase # "rule"
  <2>1. CASE ReadRule
    <3>1. rules[job.rule] \in Rule
      BY <2>1 DEF ReadRule, Surroundings
    <3>2. [job EXCEPT !.phase = "candidates", !.form = rules[job.rule]] \in Job
      BY <1>2, <3>1 DEF Job
    <3>3. [job EXCEPT !.phase = "candidates", !.form = rules[job.rule]].phase # "rule"
      BY <1>2 DEF Job
    <3>4. QED
      BY <2>1, <3>2, <3>3, JobsTyped DEF ReadRule
  <2>2. CASE ReadCandidates
    BY <1>2, <2>2, JobsTyped DEF ReadCandidates, Job
  <2>3. CASE IgnoreCandidate
    <3>1. job.todo \ {job.now} \in SUBSET Transactions
      BY <1>2 DEF Job
    <3>2. QED
      BY <1>3, <2>3, <3>1, JobsTyped DEF IgnoreCandidate
  <2>4. ASSUME NEW t \in Transactions, ApplyToCandidate(t) PROVE job' \in Job /\ job'.phase # "rule"
    <3>1. job.todo \ {t} \in SUBSET Transactions
      BY <1>2 DEF Job
    <3>2. [job EXCEPT !.phase = "ignore", !.now = t] \in Job
      BY <1>2 DEF Job
    <3>3. [job EXCEPT !.phase = "ignore", !.now = t].phase # "rule"
      BY <1>2 DEF Job
    <3>4. job' = Idle \/ job' = [job EXCEPT !.phase = "ignore", !.now = t] \/ job' = After(job.todo \ {t})
      BY <2>4 DEF ApplyToCandidate
    <3>5. QED
      BY <1>3, <3>1, <3>2, <3>3, <3>4, JobsTyped
  <2>5. QED
    BY <2>1, <2>2, <2>3, <2>4 DEF ApplyRetroactively
<1>5. QED
  BY <1>1, <1>4 DEF Surroundings

LEMMA StepSurrounds ==
  ASSUME Surroundings, [Next]_vars
  PROVE  Surroundings'
<1>1. ASSUME UNCHANGED <<rules, created, job, boot>>, active' \subseteq Categories,
             requests' = requests \/ Request
      PROVE  Surroundings'
  <2>1. requests' \in 0 .. MaxRequests
    BY <1>1, DecisionsAssumption DEF Surroundings, Request
  <2>2. QED
    BY <1>1, <2>1 DEF Surroundings
<1>2. ASSUME NEW t \in Transactions,
             \/ InsertSynced(t) \/ UpdateSynced(t) \/ ManualRequests(t)
             \/ \E c \in Categories : SetCategory(t, c)
      PROVE  Surroundings'
  <2>1. UNCHANGED <<rules, created, job, boot, active>> /\ (requests' = requests \/ Request)
    BY <1>2 DEF InsertSynced, UpdateSynced, ManualRequests, SetCategory, CreateManual, UpdateManual, DeleteManual
  <2>2. QED
    BY <1>1, <2>1 DEF Surroundings
<1>3. CASE \E c \in Categories : UpdateCategory(c)
  BY <1>1, <1>3 DEF UpdateCategory, Surroundings
<1>4. CASE Restart
  BY <1>4, JobsTyped DEF Restart, Surroundings, Boot
<1>5. CASE Backfill
  <2>1. UNCHANGED <<active, rules, created, job, requests>>
    BY <1>5 DEF Backfill, BackfillDecision, BackfillEvent, BackfillDone
  <2>2. boot' \in Boot
    BY <1>5 DEF Backfill, BackfillDecision, BackfillEvent, BackfillDone, Surroundings, Boot
  <2>3. QED
    BY <2>1, <2>2 DEF Surroundings
<1>6. CASE UNCHANGED vars
  BY <1>6 DEF Surroundings
<1>7. QED
  BY <1>2, <1>3, <1>4, <1>5, <1>6, RuleRequestsSurround, JobSurrounds DEF Next

LEMMA InitTyped == Init => Categorized(Books) /\ Surroundings
<1> SUFFICES ASSUME Init PROVE Categorized(Books) /\ Surroundings
  OBVIOUS
<1>1. Undecided \in Decision
  BY DEF Undecided, Decision, Origins
<1>2. Categorized(Books)
  BY <1>1 DEF Init, Books, Categorized
<1>3. boot \in Boot
  BY DEF Init, Boot
<1>4. 0 \in 0 .. MaxRules /\ 0 \in 0 .. MaxRequests
  BY DecisionsAssumption
<1>5. QED
  BY <1>2, <1>3, <1>4, JobsTyped DEF Init, Surroundings

-----------------------------------------------------------------------------
(* Theorems *)

\* In every state, decisions, rules, trail and requests fit together as the
\* theorems below need it (labels, keys, groups and moments).
THEOREM Inductive == Spec => []Inv
<1>1. Inv /\ [Next]_vars => Inv'
  BY NextStep
<1>2. QED
  BY InitInv, <1>1, PTL DEF Spec

\* The last event of a transaction says what its decision says, whatever order
\* passes, rules and requests came in and wherever the process stopped; only an
\* automatic decision may lack its event (writeDecision, BackfillAutomatic).
THEOREM EventsTellDecisions == Spec => []TrailTells
<1>1. Inv => TrailTells
  BY DEF Inv, Told, Books, TrailTells
<1>2. QED
  BY <1>1, Inductive, PTL

\* An idempotency key and its transaction go together, one to one
\* (transactions.CreateManualIdempotent).
THEOREM KeysAreUnique == Spec => []OneEntryPerKey
<1>1. Inv => OneEntryPerKey
  BY DEF Inv
<1>2. QED
  BY <1>1, Inductive, PTL

\* No synchronization, rule or pass changes what the user decided, but for the
\* siblings a rule takes along with an installment nobody decided by hand
\* (AssignManual, ApplyRule, ApplyLearned, ApplyAutomatic).
THEOREM HandDecisionsStand == Spec => ManualStands
<1>1. Inv /\ [Next]_vars => [ManualKept]_vars
  BY NextStep
<1>2. Inv /\ [Next]_vars => Inv'
  BY NextStep
<1>3. Spec => [][ManualKept]_vars
  BY InitInv, <1>1, <1>2, PTL DEF Spec
<1>4. QED
  BY <1>3, PTL DEF ManualKept, ManualStands

\* A transaction that comes in has the category of the last rule that reaches
\* it, or else what the user taught last, or else its label's, whoever enters it,
\* unless the user says one himself (upsertTransaction, ApplyNewTransactionDecisions).
THEOREM OneOrderOfPrecedence == Spec => Precedence
<1>1. Inv /\ Memory /\ [Next]_vars => Inv' /\ Memory'
  BY NextStep, NextGives
<1>2. Inv /\ Memory /\ [Next]_vars => [Preceded]_vars
  BY NextGives
<1>3. Init => Inv /\ Memory
  BY InitInv, InitMemory
<1>4. Spec => [][Preceded]_vars
  BY <1>1, <1>2, <1>3, PTL DEF Spec
<1>5. QED
  BY <1>4, PTL DEF Preceded, Precedence

\* Every decision and its event are of a category there is or of none, whoever
\* made it; rules, the retroactive job, the bindings of the keys and the passes
\* of the start keep their types.
THEOREM TypeCorrect == Spec => []TypeOK
<1>1. Inv /\ Memory /\ Categorized(Books) /\ Surroundings /\ [Next]_vars
        => (Inv /\ Memory /\ Categorized(Books) /\ Surroundings)'
  BY NextStep, NextGives, StepCategorized, StepSurrounds
<1>2. Init => Inv /\ Memory /\ Categorized(Books) /\ Surroundings
  BY InitInv, InitMemory, InitTyped
<1>3. Inv /\ Memory /\ Categorized(Books) /\ Surroundings => TypeOK
  <2> SUFFICES ASSUME Inv, Memory, Categorized(Books), Surroundings PROVE TypeOK
    OBVIOUS
  <2>1. row \in [Transactions -> Rows] /\ bound \in [Keys -> Binding \cup {None}]
    BY DEF Inv
  <2>2. dec \in [Transactions -> Decision] /\ trail \in [Transactions -> Decision]
    BY DEF Categorized, Books
  <2>3. taught \in [Transactions -> 0 .. requests]
    BY DEF Memory, Mindful, Books
  <2>4. /\ job.phase \in {"idle", "rule", "candidates", "apply", "ignore"}
        /\ boot.known \subseteq Labels /\ boot.passes \subseteq Labels
    BY DEF Surroundings, Job, Boot
  <2>5. QED
    BY <2>1, <2>2, <2>3, <2>4 DEF TypeOK, Rows, Decision, Surroundings
<1>4. QED
  BY <1>1, <1>2, <1>3, PTL DEF Spec
=============================================================================
