------------------------- MODULE SyncIngest_proofs -------------------------
(***************************************************************************)
(* Proofs about SyncIngest, for any accounts, transactions, bills,         *)
(* holdings and movements, any number of pages, versions and runs, and any *)
(* order of failures, rejections and changes of the provider.              *)
(***************************************************************************)
EXTENDS SyncIngest, FiniteSetTheorems, WellFoundedInduction, TLAPS

USE DEF vars, providerVars, dataVars, runVars

Tasks == [op : Ops, rec : Records \cup {NoParent}, version : Versions, page : 0 .. Pages]

\* What a task is about, by its operation.
Subjects(op) ==
  CASE op \in {"account", "pages", "bills"} -> Accounts
    [] op = "transaction" -> Transactions
    [] op = "bill" -> Bills
    [] op \in {"holding", "quotes", "movements"} -> Holdings
    [] op = "movement" -> Movements
    [] op = "count" -> Parents
    [] op = "reject" -> Records
    [] OTHER -> {NoParent}

Stores == {"account", "transaction", "bill", "holding", "movement"}

\* The records a task may come to store or reject, by itself or through the
\* tasks it pushes.
Leads(ls, x, r) ==
  \/ x.op \in {"item", "accounts"}
  \/ x.op \in Stores \cup {"reject"} /\ r = x.rec
  \/ x.op = "account" /\ r \in Transactions /\ ls[r] = x.rec
  \/ x.op \in {"account", "bills"} /\ r \in Bills /\ BillOf[r] = x.rec
  \/ x.op = "pages" /\ r \in Transactions /\ ls[r] = x.rec /\ PageOf[r] >= x.page
  \/ x.op = "investments" /\ r \in Holdings \cup Movements
  \/ x.op \in {"holding", "movements"} /\ r \in Movements /\ MovementOf[r] = x.rec

Touches(ls, x, r) == Leads(ls, x, r) \/ (x.op = "count" /\ r = x.rec)

Separate(ls, x, y) == \A r \in Records : ~(Touches(ls, x, r) /\ Touches(ls, y, r))

Elements(s) == {s[i] : i \in DOMAIN s}

Enders == {"item", "accounts", "finalize"}

\* A list of tasks Execute can be at: no two of them come to the same record,
\* and only the last one ends the run.
Orderly(ls, s) ==
  /\ s \in Seq(Tasks)
  /\ \A i, j \in DOMAIN s : i # j => Separate(ls, s[i], s[j])
  /\ \A i \in DOMAIN s : s[i].op \in Enders => i = Len(s)

Fresh(x) ==
  /\ x.rec \in Subjects(x.op)
  /\ x.op = "pages" => x.page >= 1
  /\ x.op \in Stores => x.version >= 1 /\ x.version >= since[x.rec]
  /\ \A r \in Records : Leads(listed, x, r) => outcome[r] = "none"
  /\ x.op = "count" => Stored(x.rec) /\ x.page = NoPage

TypeInv ==
  /\ offer \in [Records -> Versions]
  /\ listed \in [Transactions -> Accounts]
  /\ row \in [Records -> Versions]
  /\ hooked \in [Transactions -> Versions]
  /\ run \in Nat
  /\ products \subseteq Products
  /\ failed \in BOOLEAN
  /\ counted \in Nat /\ tallied \in Nat
  /\ outcome \in [Records -> Outcomes]
  /\ since \in [Records -> Versions]
  /\ \A r \in Records : since[r] <= offer[r] /\ offer[r] >= 1

TodoInv == Orderly(listed, todo) /\ \A x \in Elements(todo) : Fresh(x)

\* A failure that is recorded, or about to be.
Warned == failed \/ \E x \in Elements(todo) : x.op \in {"fail", "reject", "general"}

Done(r) == Stored(r) /\ row[r] >= since[r]

\* What a run has to store: what it can reach.
Due == {r \in Records : Reached(r)}

\* While nothing failed, what is due and not stored yet is still to come.
Covered ==
  status = "in_progress" /\ todo # <<>> /\ ~Warned =>
    /\ \A r \in Due : Done(r) \/ \E x \in Elements(todo) : Leads(listed, x, r)
    /\ products = Products \/ \E x \in Elements(todo) : x.op = "item"

Pending == {r \in Parents : \E x \in Elements(todo) : x.op = "count" /\ x.rec = r}

\* The records that are counted once they are stored.
Countable(r) == r \in Accounts => "TRANSACTIONS" \in products

Written == {c \in Children : outcome[c] \in {"inserted", "updated"}}
Tallied == {r \in Parents : Stored(r) /\ Countable(r)}
Settled == Tallied \ Pending

\* The counters lag behind by what is pending; an execution that stopped may
\* leave them there, one that ends the run has nothing pending.
CountInv ==
  /\ counted = Cardinality(Written)
  /\ tallied <= Cardinality(Settled)
  /\ todo # <<>> => tallied = Cardinality(Settled)

\* What is pending is to be counted.
PendingInv == \A r \in Pending : Countable(r)

\* While an execution goes on no account changes, so what it stored is in place.
Placed == todo # <<>> => \A t \in Transactions : Stored(t) => parent[t] = listed[t]

Inv ==
  /\ TypeInv /\ TodoInv /\ Covered
  /\ CountInv /\ PendingInv /\ CountersAgree
  /\ HookFollowsRow

-----------------------------------------------------------------------------
(* Lists of tasks *)

LEMMA EmptyOrderly == \A ls : Orderly(ls, <<>>) /\ Elements(<<>>) = {}
BY DEF Orderly, Elements

LEMMA OneOrderly ==
  ASSUME NEW ls, NEW x \in Tasks
  PROVE  Orderly(ls, <<x>>) /\ Elements(<<x>>) = {x}
<1>1. <<x>> \in Seq(Tasks) /\ DOMAIN <<x>> = {1} /\ <<x>>[1] = x /\ Len(<<x>>) = 1
  OBVIOUS
<1>2. QED
  BY <1>1 DEF Orderly, Elements

LEMMA SeparateSym ==
  ASSUME NEW ls, NEW x, NEW y, Separate(ls, x, y)
  PROVE  Separate(ls, y, x)
BY DEF Separate

\* The tasks of s come to other records than those of t, and do not end the run.
Before(ls, s, t) ==
  \A x \in Elements(s), y \in Elements(t) : Separate(ls, x, y) /\ x.op \notin Enders

\* s lists the tasks of A and of B.
Lists(ls, s, A, B) == Orderly(ls, s) /\ Elements(s) = A \cup B

LEMMA ConcatOrderly ==
  ASSUME NEW ls, NEW s, NEW t, Orderly(ls, s), Orderly(ls, t), Before(ls, s, t)
  PROVE  Lists(ls, s \o t, Elements(s), Elements(t))
<1>0. \A x \in Elements(s), y \in Elements(t) : Separate(ls, x, y) /\ x.op \notin Enders
  BY DEF Before
<1>1. s \in Seq(Tasks) /\ t \in Seq(Tasks)
  BY DEF Orderly
<1>2. PICK u : u = s \o t
  OBVIOUS
<1>3. /\ u \in Seq(Tasks) /\ Len(u) = Len(s) + Len(t) /\ Len(s) \in Nat /\ Len(t) \in Nat
      /\ DOMAIN u = 1 .. Len(u) /\ DOMAIN s = 1 .. Len(s) /\ DOMAIN t = 1 .. Len(t)
      /\ \A i \in 1 .. Len(s) : u[i] = s[i]
      /\ \A i \in 1 .. Len(t) : u[Len(s) + i] = t[i]
  BY <1>1, <1>2
<1>4. \A i \in DOMAIN u : \/ i \in DOMAIN s /\ u[i] = s[i]
                          \/ i - Len(s) \in DOMAIN t /\ u[i] = t[i - Len(s)]
  <2> SUFFICES ASSUME NEW i \in DOMAIN u, i > Len(s)
               PROVE  i - Len(s) \in DOMAIN t /\ u[i] = t[i - Len(s)]
    BY <1>3
  <2>1. PICK j : j = i - Len(s)
    OBVIOUS
  <2>2. j \in 1 .. Len(t) /\ i = Len(s) + j
    BY <1>3, <2>1
  <2>3. QED
    BY <1>3, <2>1, <2>2
<1>5. ASSUME NEW i \in DOMAIN u, NEW j \in DOMAIN u, i # j
      PROVE  Separate(ls, u[i], u[j])
  <2>1. CASE i \in DOMAIN s /\ j \in DOMAIN s
    BY <1>3, <1>5, <2>1 DEF Orderly
  <2>2. CASE i \in DOMAIN s /\ j \notin DOMAIN s
    BY <1>0, <1>3, <1>4, <2>2 DEF Elements
  <2>3. CASE i \notin DOMAIN s /\ j \in DOMAIN s
    <3>1. Separate(ls, u[j], u[i])
      BY <1>0, <1>3, <1>4, <2>3 DEF Elements
    <3>2. QED
      BY <3>1, SeparateSym
  <2>4. CASE i \notin DOMAIN s /\ j \notin DOMAIN s
    <3>1. PICK k \in DOMAIN t, l \in DOMAIN t :
            u[i] = t[k] /\ u[j] = t[l] /\ k = i - Len(s) /\ l = j - Len(s)
      BY <1>4, <2>4
    <3>2. k # l
      BY <1>3, <1>5, <3>1
    <3>3. QED
      BY <3>1, <3>2 DEF Orderly
  <2>5. QED
    BY <2>1, <2>2, <2>3, <2>4
<1>6. ASSUME NEW i \in DOMAIN u, u[i].op \in Enders
      PROVE  i = Len(u)
  <2>1. CASE i \in DOMAIN s
    <3>1. i = Len(s) /\ u[i] = s[i]
      BY <1>3, <1>6, <2>1 DEF Orderly
    <3>2. CASE Len(t) = 0
      BY <1>3, <3>1, <3>2
    <3>3. CASE Len(t) # 0
      <4>1. t[1] \in Elements(t) /\ s[i] \in Elements(s)
        BY <1>3, <2>1, <3>3 DEF Elements
      <4>2. QED
        BY <1>0, <1>6, <3>1, <4>1
    <3>4. QED
      BY <3>2, <3>3
  <2>2. CASE i \notin DOMAIN s
    <3>1. i - Len(s) \in DOMAIN t /\ u[i] = t[i - Len(s)]
      BY <1>4, <2>2
    <3>2. i - Len(s) = Len(t)
      BY <1>6, <3>1 DEF Orderly
    <3>3. QED
      BY <1>3, <3>2
  <2>3. QED
    BY <2>1, <2>2
<1>7. Orderly(ls, u)
  BY <1>3, <1>5, <1>6 DEF Orderly
<1>8. Elements(u) = Elements(s) \cup Elements(t)
  <2>1. Elements(u) \subseteq Elements(s) \cup Elements(t)
    BY <1>4 DEF Elements
  <2>2. Elements(s) \subseteq Elements(u)
    BY <1>3 DEF Elements
  <2>3. \A i \in DOMAIN t : t[i] \in Elements(u)
    <3> SUFFICES ASSUME NEW i \in DOMAIN t PROVE t[i] \in Elements(u)
      OBVIOUS
    <3>1. Len(s) + i \in DOMAIN u /\ u[Len(s) + i] = t[i]
      BY <1>3
    <3>2. QED
      BY <3>1 DEF Elements
  <2>4. QED
    BY <2>1, <2>2, <2>3 DEF Elements
<1>9. QED
  BY <1>2, <1>7, <1>8 DEF Lists

LEMMA HeadAndTail ==
  ASSUME NEW ls, NEW s, Orderly(ls, s), s # <<>>
  PROVE  /\ Head(s) \in Tasks /\ Orderly(ls, Tail(s))
         /\ Elements(s) = {Head(s)} \cup Elements(Tail(s))
         /\ \A x \in Elements(Tail(s)) : Separate(ls, Head(s), x)
         /\ Head(s).op \in Enders => Tail(s) = <<>>
<1>1. PICK t : t = Tail(s)
  OBVIOUS
<1>2. /\ s \in Seq(Tasks) /\ t \in Seq(Tasks) /\ Len(s) \in Nat \ {0} /\ Len(t) = Len(s) - 1
      /\ DOMAIN s = 1 .. Len(s) /\ DOMAIN t = 1 .. Len(t)
      /\ Head(s) = s[1] /\ \A i \in DOMAIN t : t[i] = s[i + 1]
  BY <1>1 DEF Orderly
<1>3. \A i \in DOMAIN t : i + 1 \in DOMAIN s /\ i + 1 # 1
  BY <1>2
<1>4. 1 \in DOMAIN s
  BY <1>2
<1>5. Orderly(ls, t)
  <2>1. \A i, j \in DOMAIN t : i # j => Separate(ls, t[i], t[j])
    <3> SUFFICES ASSUME NEW i \in DOMAIN t, NEW j \in DOMAIN t, i # j
                 PROVE  Separate(ls, t[i], t[j])
      OBVIOUS
    <3>1. i + 1 # j + 1
      BY <1>2
    <3>2. QED
      BY <1>2, <1>3, <3>1 DEF Orderly
  <2>2. \A i \in DOMAIN t : t[i].op \in Enders => i = Len(t)
    <3> SUFFICES ASSUME NEW i \in DOMAIN t, t[i].op \in Enders
                 PROVE  i = Len(t)
      OBVIOUS
    <3>1. i + 1 = Len(s)
      BY <1>2, <1>3 DEF Orderly
    <3>2. QED
      BY <1>2, <3>1
  <2>3. QED
    BY <1>2, <2>1, <2>2 DEF Orderly
<1>6. Elements(s) = {s[1]} \cup Elements(t)
  <2>1. \A i \in DOMAIN s : i = 1 \/ (i - 1 \in DOMAIN t /\ t[i - 1] = s[i])
    <3> SUFFICES ASSUME NEW i \in DOMAIN s, i # 1
                 PROVE  i - 1 \in DOMAIN t /\ t[i - 1] = s[i]
      OBVIOUS
    <3>1. PICK j : j = i - 1
      OBVIOUS
    <3>2. j \in DOMAIN t /\ i = j + 1
      BY <1>2, <3>1
    <3>3. QED
      BY <1>2, <3>1, <3>2
  <2>2. QED
    BY <1>2, <1>3, <1>4, <2>1 DEF Elements
<1>7. \A x \in Elements(t) : Separate(ls, s[1], x)
  BY <1>2, <1>3, <1>4 DEF Elements, Orderly
<1>8. s[1].op \in Enders => t = <<>>
  <2> SUFFICES ASSUME s[1].op \in Enders PROVE t = <<>>
    OBVIOUS
  <2>1. Len(s) = 1
    BY <1>2, <1>4 DEF Orderly
  <2>2. QED
    BY <1>2, <2>1
<1>9. Head(s) \in Tasks
  BY <1>2
<1>10. QED
  BY <1>1, <1>2, <1>5, <1>6, <1>7, <1>8, <1>9

\* A set of tasks, in some order.
LEMMA SetOrderly ==
  ASSUME NEW ls, NEW S, IsFiniteSet(S), S \subseteq Tasks,
         \A x, y \in S : x # y => Separate(ls, x, y),
         \A x \in S : x.op \notin Enders
  PROVE  Orderly(ls, SetToSeq(S)) /\ Elements(SetToSeq(S)) = S
<1>1. PICK n : n = Cardinality(S)
  OBVIOUS
<1>2. n \in Nat /\ ExistsBijection(1 .. n, S)
  BY <1>1, FS_CardinalityType
<1>3. PICK g : g \in Bijection(1 .. n, S)
  BY <1>2 DEF ExistsBijection
<1>4. g \in [1 .. n -> S] /\ IsInjective(g)
  BY <1>3 DEF Bijection, Injection, Surjection, IsInjective
<1>5. PICK f : f = SetToSeq(S)
  OBVIOUS
<1>6. f \in [1 .. n -> S] /\ IsInjective(f)
  BY <1>1, <1>4, <1>5 DEF SetToSeq
<1>7. f \in Injection(1 .. n, S)
  BY <1>6 DEF IsInjective, Injection
<1>8. IsFiniteSet(1 .. n) /\ Cardinality(1 .. n) = n
  BY <1>2, FS_Interval
<1>9. f \in Surjection(1 .. n, S)
  BY <1>1, <1>7, <1>8, FS_Injection
<1>10. {f[i] : i \in 1 .. n} = S
  BY <1>6, <1>9 DEF Surjection
<1>11. f \in Seq(Tasks) /\ DOMAIN f = 1 .. n /\ Len(f) = n
  BY <1>2, <1>6
<1>12. \A i, j \in 1 .. n : i # j => f[i] # f[j]
  BY <1>6, <1>11 DEF IsInjective
<1>13. Orderly(ls, f)
  BY <1>6, <1>11, <1>12 DEF Orderly
<1>14. QED
  BY <1>5, <1>10, <1>11, <1>13 DEF Elements

LEMMA TwoOrderly ==
  ASSUME NEW ls, NEW x \in Tasks, NEW y \in Tasks, Separate(ls, x, y), x.op \notin Enders
  PROVE  Orderly(ls, <<x, y>>) /\ Elements(<<x, y>>) = {x, y}
<1>1. PICK s : s = <<x, y>>
  OBVIOUS
<1>2. s \in Seq(Tasks) /\ DOMAIN s = {1, 2} /\ s[1] = x /\ s[2] = y /\ Len(s) = 2
  BY <1>1
<1>3. Separate(ls, y, x)
  BY SeparateSym
<1>4. QED
  BY <1>1, <1>2, <1>3 DEF Orderly, Elements

LEMMA ThreeOrderly ==
  ASSUME NEW ls, NEW x \in Tasks, NEW y \in Tasks, NEW z \in Tasks,
         Separate(ls, x, y), Separate(ls, x, z), Separate(ls, y, z),
         x.op \notin Enders, y.op \notin Enders
  PROVE  Orderly(ls, <<x, y, z>>) /\ Elements(<<x, y, z>>) = {x, y, z}
<1>1. PICK s : s = <<x, y, z>>
  OBVIOUS
<1>2. /\ s \in Seq(Tasks) /\ DOMAIN s = {1, 2, 3} /\ Len(s) = 3
      /\ s[1] = x /\ s[2] = y /\ s[3] = z
  BY <1>1
<1>3. Separate(ls, y, x) /\ Separate(ls, z, x) /\ Separate(ls, z, y)
  BY SeparateSym
<1>4. QED
  BY <1>1, <1>2, <1>3 DEF Orderly, Elements

Tables == {Accounts, Transactions, Bills, Holdings, Movements}

\* Tasks that store or reject different records of one table.
LEMMA SeparateRecords ==
  ASSUME NEW ls, NEW F \in Tables,
         NEW x \in Tasks, NEW y \in Tasks,
         x.op \in Stores \cup {"reject"}, y.op \in Stores \cup {"reject"},
         x.rec \in F, y.rec \in F, x.rec # y.rec,
         x.rec \in Subjects(x.op), y.rec \in Subjects(y.op)
  PROVE  Separate(ls, x, y)
<1> SUFFICES ASSUME NEW r \in Records, Touches(ls, x, r), Touches(ls, y, r)
             PROVE  FALSE
  BY DEF Separate
<1>1. \A z \in {x, y} :
        \/ r = z.rec
        \/ z.op = "account" /\ r \in Transactions /\ ls[r] = z.rec
        \/ z.op = "account" /\ r \in Bills /\ BillOf[r] = z.rec
        \/ z.op = "holding" /\ r \in Movements /\ MovementOf[r] = z.rec
  BY DEF Touches, Leads, Stores
<1>2. \A z \in {x, y} : z.op = "account" => z.rec \in Accounts /\ F = Accounts
  BY IngestAssumption DEF Subjects, Children, Tables
<1>3. \A z \in {x, y} : z.op = "holding" => z.rec \in Holdings /\ F = Holdings
  BY IngestAssumption DEF Subjects, Children, Tables
<1>4. QED
  BY <1>1, <1>2, <1>3, IngestAssumption DEF Children, Tables

\* What a response leaves to do: its unreadable records and the others.
Refusals(bad, n) == {Task("reject", r, 0, n) : r \in bad}
Stocks(op, good, v, n) == {Task(op, r, v[r], n) : r \in good}
Batch(bad, op, good, v, n) == SetToSeq(Refusals(bad, n)) \o SetToSeq(Stocks(op, good, v, n))

LEMMA BatchOrderly ==
  ASSUME NEW ls, NEW F \in Tables,
         NEW bad, NEW good, bad \cap good = {}, bad \cup good \subseteq F,
         NEW op \in Stores, Subjects(op) = F, NEW n \in 0 .. Pages,
         NEW v \in [Records -> Versions]
  PROVE  Lists(ls, Batch(bad, op, good, v, n), Refusals(bad, n), Stocks(op, good, v, n))
<1> DEFINE B == Refusals(bad, n)
           G == Stocks(op, good, v, n)
<1>1. F \subseteq Records /\ IsFiniteSet(bad) /\ IsFiniteSet(good)
  <2>1. F \subseteq Records
    BY DEF Records, Children, Tables
  <2>2. QED
    BY <2>1, IngestAssumption, FS_Subset
<1>2. /\ B \subseteq Tasks
      /\ \A x \in B : x.rec \in bad /\ x.op = "reject" /\ x.rec \in Subjects(x.op)
      /\ \A x, y \in B : x.rec = y.rec => x = y
  BY <1>1, IngestAssumption DEF Refusals, Task, Tasks, Ops, Versions, Subjects
<1>3. /\ G \subseteq Tasks
      /\ \A x \in G : x.rec \in good /\ x.op = op /\ x.rec \in Subjects(x.op)
      /\ \A x, y \in G : x.rec = y.rec => x = y
  BY <1>1, IngestAssumption DEF Stocks, Task, Tasks, Ops, Versions, Stores
<1> HIDE DEF B, G
<1>4. ASSUME NEW S, NEW R, IsFiniteSet(R), \A x \in S : x.rec \in R,
             \A x, y \in S : x.rec = y.rec => x = y
      PROVE  IsFiniteSet(S)
  <2>1. PICK f : f = [x \in S |-> x.rec]
    OBVIOUS
  <2>2. f \in Injection(S, R)
    BY <1>4, <2>1 DEF Injection, IsInjective
  <2>3. QED
    BY <1>4, <2>2, FS_Injection
<1>5. IsFiniteSet(B) /\ IsFiniteSet(G)
  BY <1>1, <1>2, <1>3, <1>4
<1>6. \A x \in B \cup G : x.op \notin Enders /\ x.op \in Stores \cup {"reject"}
  BY <1>2, <1>3 DEF Enders, Stores
<1>7. \A x, y \in B \cup G : x # y => Separate(ls, x, y)
  <2> SUFFICES ASSUME NEW x \in B \cup G, NEW y \in B \cup G, x # y
               PROVE  Separate(ls, x, y)
    OBVIOUS
  <2>1. x.rec # y.rec /\ x.rec \in F /\ y.rec \in F
    BY <1>2, <1>3
  <2>2. x \in Tasks /\ y \in Tasks /\ x.rec \in Subjects(x.op) /\ y.rec \in Subjects(y.op)
    BY <1>2, <1>3
  <2>3. QED
    BY <1>6, <2>1, <2>2, SeparateRecords
<1>8. Orderly(ls, SetToSeq(B)) /\ Elements(SetToSeq(B)) = B
  BY <1>2, <1>5, <1>6, <1>7, SetOrderly
<1>9. Orderly(ls, SetToSeq(G)) /\ Elements(SetToSeq(G)) = G
  BY <1>3, <1>5, <1>6, <1>7, SetOrderly
<1>10. \A x \in B, y \in G : x # y
  BY <1>2, <1>3
<1>11. PICK b, g : b = SetToSeq(B) /\ g = SetToSeq(G)
  OBVIOUS
<1>12. Before(ls, b, g)
  BY <1>6, <1>7, <1>8, <1>9, <1>10, <1>11 DEF Before
<1>13. Orderly(ls, b \o g) /\ Elements(b \o g) = B \cup G
  <2>1. Orderly(ls, b) /\ Orderly(ls, g) /\ Elements(b) = B /\ Elements(g) = G
    BY <1>8, <1>9, <1>11
  <2>2. Lists(ls, b \o g, Elements(b), Elements(g))
    BY <1>12, <2>1, ConcatOrderly
  <2>3. QED
    BY <2>1, <2>2 DEF Lists
<1>14. QED
  BY <1>11, <1>13 DEF Batch, B, G, Lists

-----------------------------------------------------------------------------
(* One step of Execute *)

\* Tasks that may replace the one in hand: they come to no record that it did
\* not come to.
Pushes(new) ==
  /\ Orderly(listed, new)
  /\ \A x \in Elements(new), r \in Records :
       Touches(listed, x, r) => Touches(listed, Head(todo), r)
  /\ Head(todo).op \in Enders \/ \A x \in Elements(new) : x.op \notin Enders

\* What the step itself may write.
Touched ==
  /\ listed' = listed /\ since' = since
  /\ \A r \in Records : outcome'[r] # outcome[r] => Leads(listed, Head(todo), r)

LEMMA StepKeepsTodo ==
  ASSUME TodoInv, todo # <<>>, NEW new, Pushes(new), todo' = new \o Tail(todo),
         Touched, \A x \in Elements(new) : Fresh(x)'
  PROVE  /\ TodoInv'
         /\ Elements(todo') = Elements(new) \cup Elements(Tail(todo))
<1>1. PICK head, rest : head = Head(todo) /\ rest = Tail(todo)
  OBVIOUS
<1>2. /\ head \in Tasks /\ Orderly(listed, rest)
      /\ Elements(todo) = {head} \cup Elements(rest)
      /\ \A x \in Elements(rest) : Separate(listed, head, x)
      /\ head.op \in Enders => rest = <<>>
  BY <1>1, HeadAndTail DEF TodoInv
<1>3. Before(listed, new, rest)
  <2> SUFFICES ASSUME NEW x \in Elements(new), NEW y \in Elements(rest)
               PROVE  Separate(listed, x, y) /\ x.op \notin Enders
    BY DEF Before
  <2>1. Separate(listed, x, y)
    BY <1>1, <1>2 DEF Separate, Pushes
  <2>2. rest # <<>>
    BY EmptyOrderly
  <2>3. QED
    BY <1>1, <1>2, <2>1, <2>2 DEF Pushes
<1>4. /\ Orderly(listed, new \o rest)
      /\ Elements(new \o rest) = Elements(new) \cup Elements(rest)
  <2>1. Orderly(listed, new)
    BY DEF Pushes
  <2>2. Lists(listed, new \o rest, Elements(new), Elements(rest))
    BY <1>2, <1>3, <2>1, ConcatOrderly
  <2>3. QED
    BY <2>2 DEF Lists
<1>5. PICK next : next = todo'
  OBVIOUS
<1>6. Orderly(listed, next) /\ Elements(next) = Elements(new) \cup Elements(rest)
  BY <1>1, <1>4, <1>5
<1>7. Orderly(listed', todo')
  BY <1>5, <1>6 DEF Touched
<1>8. ASSUME NEW y \in Elements(rest)
      PROVE  Fresh(y)'
  <2>1. Fresh(y) /\ y \in Tasks
    <3>1. y \in Elements(todo)
      BY <1>2
    <3>2. y \in Tasks
      BY <3>1 DEF TodoInv, Orderly, Elements
    <3>3. QED
      BY <3>1, <3>2 DEF TodoInv
  <2>2. \A r \in Records : Touches(listed, y, r) => outcome'[r] = outcome[r]
    BY <1>1, <1>2 DEF Separate, Touched, Touches
  <2>3. \A r \in Records : Leads(listed', y, r) => outcome'[r] = "none"
    BY <2>1, <2>2 DEF Fresh, Touched, Touches
  <2>4. y.op = "count" => outcome'[y.rec] = outcome[y.rec]
    <3>1. y.op = "count" => y.rec \in Records
      BY <2>1 DEF Fresh, Subjects, Parents, Records
    <3>2. QED
      BY <2>2, <3>1 DEF Touches
  <2>5. QED
    BY <2>1, <2>3, <2>4 DEF Fresh, Touched, Stored
<1>9. \A x \in Elements(next) : Fresh(x)'
  BY <1>6, <1>8
<1>10. QED
  BY <1>1, <1>5, <1>6, <1>7, <1>9 DEF TodoInv

\* Reading and failing: tasks that are still to store what was not stored.
Reads(new) ==
  /\ Orderly(listed, new)
  /\ Head(todo).op \in Enders \/ \A x \in Elements(new) : x.op \notin Enders
  /\ \A x \in Elements(new) :
       /\ x.rec \in Subjects(x.op) /\ x.op # "count"
       /\ x.op = "pages" => x.page >= 1
       /\ x.op \in Stores => x.version = offer[x.rec]
       /\ \A r \in Records : Leads(listed, x, r) => Leads(listed, Head(todo), r)

LEMMA ReadsPushes ==
  ASSUME TypeInv, TodoInv, todo # <<>>, NEW new, Reads(new), Moves
  PROVE  Pushes(new) /\ Touched /\ \A x \in Elements(new) : Fresh(x)'
<1>1. Head(todo) \in Elements(todo)
  BY HeadAndTail DEF TodoInv
<1>2. Pushes(new)
  BY DEF Reads, Pushes, Touches
<1>3. Touched
  BY DEF Moves, Touched
<1>4. ASSUME NEW x \in Elements(new)
      PROVE  Fresh(x)'
  <2>1. \A r \in Records : Leads(listed, x, r) => outcome[r] = "none"
    BY <1>1, <1>4 DEF Reads, TodoInv, Fresh
  <2>2. x.op \in Stores => x.rec \in Records
    BY <1>4 DEF Reads, Subjects, Stores, Records, Children
  <2>3. x.op \in Stores => x.version >= 1 /\ x.version >= since[x.rec]
    BY <1>4, <2>2 DEF Reads, TypeInv, Versions
  <2>4. QED
    BY <1>4, <2>1, <2>3 DEF Reads, Fresh, Moves
<1>5. QED
  BY <1>2, <1>3, <1>4

Warnings == {"fail", "reject", "general"}

\* Nothing that is still to come is forgotten without a warning.
Covers(new) ==
  /\ failed => failed'
  /\ Head(todo).op \in Warnings => failed' \/ \E x \in Elements(new) : x.op \in Warnings
  /\ \A r \in Records : row'[r] # row[r] => Leads(listed, Head(todo), r)
  /\ products = Products \/ Head(todo).op = "item" =>
       \/ failed' \/ \E x \in Elements(new) : x.op \in Warnings
       \/ /\ products' = Products
          /\ \A r \in Due : Leads(listed, Head(todo), r) =>
               Done(r)' \/ \E x \in Elements(new) : Leads(listed, x, r)

LEMMA DueRecords == Due \subseteq Records
BY DEF Due

LEMMA DueStays ==
  ASSUME listed' = listed
  PROVE  Due' = Due
BY DEF Due, Reached

LEMMA StepKeepsCovered ==
  ASSUME TodoInv, Covered, Owned, todo # <<>>, NEW new, Touched, Covers(new),
         Elements(todo') = Elements(new) \cup Elements(Tail(todo))
  PROVE  Covered'
<1> SUFFICES ASSUME ~Warned'
             PROVE  /\ \A r \in Due :
                         Done(r)' \/ \E x \in Elements(todo') : Leads(listed', x, r)
                    /\ products' = Products \/ \E x \in Elements(todo') : x.op = "item"
  BY DueStays DEF Covered, Touched
<1>1. PICK head, rest : head = Head(todo) /\ rest = Tail(todo)
  OBVIOUS
<1>2. Elements(todo) = {head} \cup Elements(rest) /\ Fresh(head)
  BY <1>1, HeadAndTail DEF TodoInv
<1>3. ~failed' /\ \A x \in Elements(new) \cup Elements(rest) : x.op \notin Warnings
  BY <1>1 DEF Warned, Warnings
<1>4. ~Warned
  BY <1>1, <1>2, <1>3 DEF Covers, Warned, Warnings
<1>5. /\ \A r \in Due : Done(r) \/ \E x \in Elements(todo) : Leads(listed, x, r)
      /\ products = Products \/ \E x \in Elements(todo) : x.op = "item"
  BY <1>4 DEF Covered, Owned
<1>6. listed' = listed
  BY DEF Touched
<1>7. CASE \E x \in Elements(rest) : x.op = "item"
  BY <1>1, <1>6, <1>7 DEF Leads
<1>8. CASE ~\E x \in Elements(rest) : x.op = "item"
  <2>1. products = Products \/ head.op = "item"
    BY <1>2, <1>5, <1>8
  <2>2. /\ products' = Products
        /\ \A r \in Due : Leads(listed, head, r) =>
             Done(r)' \/ \E x \in Elements(new) : Leads(listed, x, r)
    BY <1>1, <1>3, <2>1 DEF Covers
  <2>3. ASSUME NEW r \in Records, Done(r)
        PROVE  Done(r)'
    <3>1. outcome[r] # "none"
      BY <2>3 DEF Done, Stored
    <3>2. ~Leads(listed, head, r)
      BY <1>2, <3>1 DEF Fresh
    <3>3. outcome'[r] = outcome[r] /\ row'[r] = row[r] /\ since' = since
      BY <1>1, <3>2 DEF Touched, Covers
    <3>4. QED
      BY <2>3, <3>3 DEF Done, Stored
  <2>4. QED
    BY <1>1, <1>2, <1>5, <1>6, <2>2, <2>3, DueRecords
<1>9. QED
  BY <1>7, <1>8

-----------------------------------------------------------------------------
(* Reading the provider *)

ReadsOn == \E new : Reads(new) /\ Covers(new) /\ todo' = new \o Tail(todo)

LEMMA SimpleTasks ==
  \A op \in Ops : Simple(op) \in Tasks /\ Simple(op).op = op /\ Simple(op).rec = NoParent
BY IngestAssumption DEF Simple, Task, Tasks, Versions, NoPage

LEMMA ReadTasks ==
  ASSUME NEW op \in Ops, NEW r \in Records, NEW n \in 0 .. Pages
  PROVE  /\ Read(op, r, n) \in Tasks /\ Read(op, r, n).op = op
         /\ Read(op, r, n).rec = r /\ Read(op, r, n).page = n
BY IngestAssumption DEF Read, Task, Tasks, Versions

LEMMA HeadFresh ==
  ASSUME TodoInv, todo # <<>>
  PROVE  Head(todo) \in Tasks /\ Fresh(Head(todo)) /\ Head(todo) \in Elements(todo)
BY HeadAndTail DEF TodoInv

\* A warning may stand for whatever was to be done.
LEMMA WarningReads ==
  ASSUME TypeInv, TodoInv, todo # <<>>, Moves, NEW x \in Tasks,
         \/ x.op \in {"fail", "general"} /\ x.rec = NoParent
         \/ x.op = "reject" /\ x.rec \in Records /\ Leads(listed, Head(todo), x.rec),
         todo' = <<x>> \o Tail(todo)
  PROVE  ReadsOn
<1>1. PICK new : new = <<x>>
  OBVIOUS
<1>2. Orderly(listed, new) /\ Elements(new) = {x}
  BY <1>1, OneOrderly
<1>3. \A r \in Records : Leads(listed, x, r) => Leads(listed, Head(todo), r)
  BY DEF Leads, Stores
<1>4. x.rec \in Subjects(x.op) /\ x.op \in Warnings
  BY DEF Subjects, Warnings
<1>5. Reads(new)
  BY <1>2, <1>3, <1>4 DEF Reads, Warnings, Enders, Stores
<1>6. Covers(new)
  BY <1>2, <1>4 DEF Covers, Moves
<1>7. QED
  BY <1>1, <1>5, <1>6 DEF ReadsOn

LEMMA SourceReads ==
  ASSUME TypeInv, TodoInv, GetSource
  PROVE  ReadsOn
<1>1. todo # <<>> /\ Head(todo).op = "item" /\ Moves
  BY DEF GetSource, First
<1>2. \A op \in {"name", "fail", "accounts", "general"} :
        Simple(op) \in Tasks /\ Simple(op).op = op /\ Simple(op).rec = NoParent
  BY SimpleTasks DEF Ops
<1>3. \A x \in Tasks, y \in Tasks :
        x.op \in {"name", "fail"} => Separate(listed, x, y)
  BY DEF Separate, Touches, Leads, Stores
<1>4. ASSUME NEW new, Orderly(listed, new),
             Elements(new) \subseteq {Simple("name"), Simple("fail"), Simple("accounts")},
             Simple("accounts") \in Elements(new),
             todo' = new \o Tail(todo),
             products' = Products \/ Simple("fail") \in Elements(new)
      PROVE  ReadsOn
  <2>1. Reads(new)
    BY <1>1, <1>2, <1>4 DEF Reads, Subjects, Enders, Leads, Stores
  <2>2. Covers(new)
    BY <1>1, <1>2, <1>4 DEF Covers, Leads, Warnings, Moves
  <2>3. QED
    BY <1>4, <2>1, <2>2 DEF ReadsOn
<1>5. CASE products' = Products /\ Goes(<<Simple("name"), Simple("accounts")>>)
  <2>1. PICK x, y : x = Simple("name") /\ y = Simple("accounts")
    OBVIOUS
  <2>2. Orderly(listed, <<x, y>>) /\ Elements(<<x, y>>) = {x, y}
    BY <1>2, <1>3, <2>1, TwoOrderly DEF Enders
  <2>3. QED
    BY <1>4, <1>5, <2>1, <2>2 DEF Goes
<1>6. CASE Goes(<<Simple("name"), Simple("fail"), Simple("accounts")>>)
  <2>1. PICK x, y, z : x = Simple("name") /\ y = Simple("fail") /\ z = Simple("accounts")
    OBVIOUS
  <2>2. Orderly(listed, <<x, y, z>>) /\ Elements(<<x, y, z>>) = {x, y, z}
    BY <1>2, <1>3, <2>1, ThreeOrderly DEF Enders
  <2>3. QED
    BY <1>4, <1>6, <2>1, <2>2 DEF Goes
<1>7. CASE Goes(<<Simple("general")>>)
  BY <1>1, <1>2, <1>7, WarningReads DEF Goes
<1>8. QED
  BY <1>5, <1>6, <1>7 DEF GetSource

LEMMA NothingReads ==
  ASSUME TypeInv, TodoInv, todo # <<>>, Moves, UNCHANGED products, todo' = <<>> \o Tail(todo),
         \/ Head(todo).op \in {"name", "quotes"}
         \/ Head(todo).op = "investments" /\ "INVESTMENTS" \notin products
  PROVE  ReadsOn
<1>1. PICK new : new = <<>>
  OBVIOUS
<1>2. Orderly(listed, new) /\ Elements(new) = {}
  BY <1>1, EmptyOrderly
<1>3. Reads(new)
  BY <1>2 DEF Reads
<1>4. Covers(new)
  BY <1>2 DEF Covers, Moves, Warnings, Leads, Stores, Products
<1>5. QED
  BY <1>1, <1>3, <1>4 DEF ReadsOn

\* What may stand behind the records of a response.
Follows(after) ==
  /\ Head(todo).op \in Enders \/ \A x \in Elements(after) : x.op \notin Enders
  /\ \A x \in Elements(after) :
       /\ x.rec \in Subjects(x.op) /\ x.op \notin {"count"} \cup Stores
       /\ x.op = "pages" => x.page >= 1
       /\ \A r \in Records : Leads(listed, x, r) => Leads(listed, Head(todo), r)

\* The response carries only what was asked for.
Answers(mine, op, n) ==
  \A m \in mine :
    /\ Leads(listed, Head(todo), m)
    /\ \A r \in Records :
         Leads(listed, Task(op, m, offer[m], n), r) => Leads(listed, Head(todo), r)

\* It carries all of it, or more is to be read, or a warning follows.
Exhausts(mine, op, n, after) ==
  \/ \E x \in Elements(after) : x.op \in Warnings
  \/ products = Products =>
       \A r \in Due : Leads(listed, Head(todo), r) =>
         \/ \E x \in Elements(after) : Leads(listed, x, r)
         \/ \E m \in mine : Leads(listed, Task(op, m, offer[m], n), r)

\* A list of the records of one table, read or not.
LEMMA BatchReads ==
  ASSUME TypeInv, TodoInv, todo # <<>>, Moves, UNCHANGED products,
         NEW F \in Tables, NEW bad, NEW good, bad \cap good = {}, bad \cup good \subseteq F,
         NEW op \in Stores, Subjects(op) = F, NEW n \in 0 .. Pages,
         NEW batch, batch = Batch(bad, op, good, offer, n),
         NEW after, Orderly(listed, after), Before(listed, batch, after), Follows(after),
         Answers(bad \cup good, op, n), Exhausts(bad \cup good, op, n, after),
         Head(todo).op \notin Warnings \cup {"item"},
         NEW new, new = batch \o after \/ (after = <<>> /\ new = batch),
         todo' = new \o Tail(todo)
  PROVE  ReadsOn
<1> DEFINE B == Refusals(bad, n)
           G == Stocks(op, good, offer, n)
<1>1. bad \cup good \subseteq Records
  BY DEF Records, Children, Tables
<1>3. Orderly(listed, batch) /\ Elements(batch) = B \cup G
  <2>1. offer \in [Records -> Versions]
    BY DEF TypeInv
  <2>2. Lists(listed, Batch(bad, op, good, offer, n), Refusals(bad, n), Stocks(op, good, offer, n))
    BY <2>1, BatchOrderly
  <2>3. QED
    BY <2>2 DEF Lists
<1>5. Orderly(listed, new) /\ Elements(new) = B \cup G \cup Elements(after)
  <2>1. CASE new = batch \o after
    <3>1. Lists(listed, batch \o after, Elements(batch), Elements(after))
      BY <1>3, ConcatOrderly
    <3>2. QED
      BY <1>3, <2>1, <3>1 DEF Lists
  <2>2. CASE after = <<>> /\ new = batch
    BY <1>3, <2>2, EmptyOrderly
  <2>3. QED
    BY <2>1, <2>2
<1>6. \A x \in B : /\ x.rec \in bad /\ x.op = "reject"
                   /\ \A r \in Records : Leads(listed, x, r) => r = x.rec
  BY DEF Refusals, Task, Leads, Stores
<1>7. \A x \in G : /\ x.rec \in good /\ x.op = op /\ x.version = offer[x.rec]
                   /\ \A r \in Records : Leads(listed, x, r) => Leads(listed, Head(todo), r)
  BY DEF Stocks, Task, Answers
<1>8. op \notin Enders /\ op # "count" /\ op # "pages" /\ op # "reject"
  BY DEF Enders, Stores
<1>9. Reads(new)
  <2>1. \A x \in B : /\ x.rec \in Subjects(x.op) /\ x.op \notin Enders \cup {"count", "pages"} \cup Stores
                     /\ \A r \in Records : Leads(listed, x, r) => Leads(listed, Head(todo), r)
    BY <1>1, <1>6 DEF Subjects, Enders, Stores, Answers
  <2>2. \A x \in G : x.rec \in Subjects(x.op) /\ x.op \notin Enders \cup {"count", "pages"}
    BY <1>7, <1>8
  <2>3. QED
    BY <1>5, <1>7, <2>1, <2>2 DEF Reads, Follows
<1>10. Covers(new)
  <2>1. CASE \E x \in Elements(new) : x.op \in Warnings
    BY <2>1 DEF Covers, Moves
  <2>2. CASE ~\E x \in Elements(new) : x.op \in Warnings
    <3>1. bad = {}
      <4>1. \A r \in bad : Task("reject", r, 0, n) \in B
        BY DEF Refusals
      <4>2. \A r \in bad : Task("reject", r, 0, n).op \in Warnings
        BY DEF Task, Warnings
      <4>3. QED
        BY <1>5, <2>2, <4>1, <4>2
    <3>2. \A m \in bad \cup good : Task(op, m, offer[m], n) \in Elements(new)
      BY <1>5, <3>1 DEF Stocks
    <3>3. products = Products =>
            \A r \in Due : Leads(listed, Head(todo), r) =>
              \E x \in Elements(new) : Leads(listed, x, r)
      BY <1>5, <2>2, <3>2 DEF Exhausts
    <3>4. QED
      BY <3>3 DEF Covers, Moves
  <2>3. QED
    BY <2>1, <2>2
<1>11. QED
  BY <1>9, <1>10 DEF ReadsOn

LEMMA AccountsRead ==
  ASSUME TypeInv, TodoInv, GetAccounts
  PROVE  ReadsOn
<1>1. todo # <<>> /\ Head(todo).op = "accounts" /\ Moves /\ UNCHANGED products
  BY DEF GetAccounts, First
<1>2. \A op \in {"investments", "finalize", "general"} :
        Simple(op) \in Tasks /\ Simple(op).op = op /\ Simple(op).rec = NoParent
  BY SimpleTasks DEF Ops
<1>3. CASE Goes(<<Simple("general")>>)
  BY <1>1, <1>2, <1>3, WarningReads DEF Goes
<1>4. ASSUME NEW bad \in SUBSET (Accounts \cap FirstPage),
             Goes(Each(bad, Rejection) \o Each((Accounts \cap FirstPage) \ bad, Account)
                  \o <<Simple("investments"), Simple("finalize")>>)
      PROVE  ReadsOn
  <2>1. PICK good : good = (Accounts \cap FirstPage) \ bad
    OBVIOUS
  <2>2. PICK batch : batch = Batch(bad, "account", good, offer, 0)
    OBVIOUS
  <2>3. PICK x, y : x = Simple("investments") /\ y = Simple("finalize")
    OBVIOUS
  <2>4. PICK after : after = <<x, y>>
    OBVIOUS
  <2>5. PICK new : new = batch \o after
    OBVIOUS
  <2>6. todo' = new \o Tail(todo)
    BY <1>4, <2>1, <2>2, <2>3, <2>4, <2>5
    DEF Goes, Each, Batch, Refusals, Stocks, Rejection, Account, NoPage
  <2>7. x \in Tasks /\ y \in Tasks /\ x.op = "investments" /\ y.op = "finalize"
        /\ x.rec = NoParent /\ y.rec = NoParent
    BY <1>2, <2>3
  <2>8. Orderly(listed, after) /\ Elements(after) = {x, y}
    <3>1. Separate(listed, x, y) /\ x.op \notin Enders
      BY <2>7 DEF Separate, Touches, Leads, Stores, Enders
    <3>2. QED
      BY <2>4, <2>7, <3>1, TwoOrderly
  <2>9. /\ Accounts \in Tables /\ Accounts \subseteq Records
        /\ "account" \in Stores /\ Subjects("account") = Accounts /\ 0 \in 0 .. Pages
    BY IngestAssumption DEF Tables, Stores, Subjects, Records
  <2>10. bad \cap good = {} /\ bad \cup good \subseteq Accounts
         /\ bad \cup good = Accounts \cap FirstPage
    BY <2>1
  <2>11. Before(listed, batch, after)
    <3>1. offer \in [Records -> Versions]
      BY DEF TypeInv
    <3>2. Lists(listed, Batch(bad, "account", good, offer, 0), Refusals(bad, 0),
                Stocks("account", good, offer, 0))
      BY <2>9, <2>10, <3>1, BatchOrderly
    <3>3. Elements(batch) = Refusals(bad, 0) \cup Stocks("account", good, offer, 0)
      BY <2>2, <3>2 DEF Lists
    <3>4. /\ \A z \in Refusals(bad, 0) : z.rec \in Accounts /\ z.op = "reject"
          /\ \A z \in Stocks("account", good, offer, 0) : z.rec \in Accounts /\ z.op = "account"
      BY <2>10 DEF Refusals, Stocks, Task
    <3>5. ASSUME NEW z, z.rec \in Accounts, z.op \in {"reject", "account"}
          PROVE  z.op \notin Enders /\ Separate(listed, z, x) /\ Separate(listed, z, y)
      BY <2>7, <2>9, <3>5, IngestAssumption
      DEF Enders, Separate, Touches, Leads, Stores, Children
    <3>6. \A z \in Elements(batch) : z.rec \in Accounts /\ z.op \in {"reject", "account"}
      BY <3>3, <3>4
    <3>7. QED
      BY <2>8, <3>5, <3>6 DEF Before
  <2>12. \A r : Leads(listed, Head(todo), r)
    BY <1>1 DEF Leads
  <2>13. Follows(after)
    BY <1>1, <2>7, <2>8, <2>12 DEF Follows, Subjects, Stores, Enders
  <2>14. Answers(bad \cup good, "account", 0)
    BY <2>12 DEF Answers
  <2>15. Exhausts(bad \cup good, "account", 0, after)
    <3> SUFFICES ASSUME NEW r \in Records, Reached(r)
                 PROVE  \/ Leads(listed, x, r)
                        \/ \E m \in Accounts \cap FirstPage : Leads(listed, Task("account", m, offer[m], 0), r)
      BY <2>8, <2>10 DEF Exhausts, Due
    <3>1. CASE r \in Holdings \cup Movements
      BY <2>7, <3>1 DEF Leads
    <3>2. CASE r \in Accounts
      <4>1. r \in FirstPage
        BY <3>2, IngestAssumption DEF Reached, Children
      <4>2. QED
        BY <3>2, <4>1 DEF Leads, Task, Stores
    <3>3. CASE r \in Transactions
      <4>1. listed[r] \in Accounts \cap FirstPage
        BY <3>3, IngestAssumption DEF Reached, Children, TypeInv
      <4>2. QED
        BY <3>3, <4>1 DEF Leads, Task
    <3>4. CASE r \in Bills
      <4>1. BillOf[r] \in Accounts \cap FirstPage
        BY <3>4, IngestAssumption DEF Reached, Children
      <4>2. QED
        BY <3>4, <4>1 DEF Leads, Task
    <3>5. QED
      BY <3>1, <3>2, <3>3, <3>4 DEF Records, Children
  <2>16. Head(todo).op \notin Warnings \cup {"item"}
    BY <1>1 DEF Warnings
  <2>17. QED
    BY <1>1, <2>2, <2>5, <2>6, <2>8, <2>9, <2>10, <2>11, <2>13, <2>14, <2>15, <2>16, BatchReads
<1>5. QED
  BY <1>3, <1>4 DEF GetAccounts

OnPage(a, n) == {t \in Transactions : listed[t] = a /\ PageOf[t] = n}

LEMMA PageShape ==
  ASSUME ReadPage
  PROVE  \/ Goes(<<Simple("fail")>>)
         \/ \E bad \in SUBSET OnPage(rec, Head(todo).page),
               after \in {IF Head(todo).page < Pages THEN <<Read("pages", rec, Head(todo).page + 1)>>
                         ELSE <<>>,
                         <<Read("fail", NoParent, Head(todo).page)>>} :
              Goes(Batch(bad, "transaction", OnPage(rec, Head(todo).page) \ bad, offer,
                         Head(todo).page) \o after)
BY DEF ReadPage, Batch, Refusals, Stocks, OnPage, Each

LEMMA PageReads ==
  ASSUME TypeInv, TodoInv, ReadPage
  PROVE  ReadsOn
<1>1. todo # <<>> /\ Head(todo).op = "pages" /\ Moves /\ UNCHANGED products
  BY DEF ReadPage, First
<1>2. PICK head, a, n : head = Head(todo) /\ a = head.rec /\ n = head.page
  OBVIOUS
<1>3. head \in Tasks /\ head.op = "pages" /\ a \in Accounts /\ n \in 1 .. Pages
  BY <1>1, <1>2, HeadFresh, IngestAssumption DEF Fresh, Subjects, Tasks
<1>4. PICK here : here = OnPage(a, n)
  OBVIOUS
<1>5. CASE Goes(<<Simple("fail")>>)
  BY <1>1, <1>5, SimpleTasks, WarningReads DEF Goes, Ops
<1>6. ASSUME NEW bad \in SUBSET here, NEW after,
             \/ after = <<Read("fail", NoParent, n)>>
             \/ n < Pages /\ after = <<Read("pages", a, n + 1)>>
             \/ n = Pages /\ after = <<>>,
             todo' = (Batch(bad, "transaction", here \ bad, offer, n) \o after) \o Tail(todo)
      PROVE  ReadsOn
  <2>1. PICK good : good = here \ bad
    OBVIOUS
  <2>2. PICK batch : batch = Batch(bad, "transaction", good, offer, n)
    OBVIOUS
  <2>3. PICK new : new = batch \o after
    OBVIOUS
  <2>4. todo' = new \o Tail(todo)
    BY <1>6, <2>1, <2>2, <2>3
  <2>5. /\ Transactions \in Tables /\ Transactions \subseteq Records /\ n \in 0 .. Pages
        /\ "transaction" \in Stores /\ Subjects("transaction") = Transactions
    BY <1>3, IngestAssumption DEF Tables, Stores, Subjects, Records, Children
  <2>6. bad \cap good = {} /\ bad \cup good \subseteq Transactions /\ bad \cup good = here
    BY <1>4, <2>1 DEF OnPage
  <2>7. ASSUME NEW z, z.rec \in here, z.op \in {"reject", "transaction"}
        PROVE  /\ z.op \notin Enders
               /\ \A r \in Records : Touches(listed, z, r) => r \in here
    BY <2>7 DEF Touches, Leads, Stores, Enders
  <2>8. \A z \in Elements(batch) :
          /\ z.op \notin Enders
          /\ \A r \in Records : Touches(listed, z, r) => r \in here
    <3>1. offer \in [Records -> Versions]
      BY DEF TypeInv
    <3>2. Lists(listed, Batch(bad, "transaction", good, offer, n), Refusals(bad, n),
                Stocks("transaction", good, offer, n))
      BY <2>5, <2>6, <3>1, BatchOrderly
    <3>3. Elements(batch) = Refusals(bad, n) \cup Stocks("transaction", good, offer, n)
      BY <2>2, <3>2 DEF Lists
    <3>4. /\ \A z \in Refusals(bad, n) : z.rec \in here /\ z.op = "reject"
          /\ \A z \in Stocks("transaction", good, offer, n) : z.rec \in here /\ z.op = "transaction"
      BY <2>6 DEF Refusals, Stocks, Task
    <3>5. QED
      BY <2>7, <3>3, <3>4
  <2>9. Answers(bad \cup good, "transaction", n)
    <3> SUFFICES ASSUME NEW m \in here
                 PROVE  /\ Leads(listed, Head(todo), m)
                        /\ \A r \in Records :
                             Leads(listed, Task("transaction", m, offer[m], n), r) => r = m
      BY <2>6 DEF Answers
    <3>1. Leads(listed, Head(todo), m)
      BY <1>2, <1>3, <1>4, IngestAssumption DEF Leads, OnPage
    <3>2. QED
      BY <3>1 DEF Leads, Task, Stores
  <2>10. \A r \in Records : Leads(listed, Head(todo), r) <=>
           r \in Transactions /\ listed[r] = a /\ PageOf[r] >= n
    BY <1>2, <1>3 DEF Leads, Stores
  <2>11. \A r \in here : Leads(listed, Task("transaction", r, offer[r], n), r)
    BY DEF Leads, Task, Stores
  <2>12. Head(todo).op \notin Warnings \cup {"item"}
    BY <1>1 DEF Warnings
  <2>13. CASE after = <<Read("fail", NoParent, n)>>
    <3>1. PICK x : x = Read("fail", NoParent, n)
      OBVIOUS
    <3>2. x \in Tasks /\ x.op = "fail" /\ x.rec = NoParent
      BY <2>5, <3>1, IngestAssumption DEF Read, Task, Tasks, Ops, Versions
    <3>3. Orderly(listed, after) /\ Elements(after) = {x}
      BY <2>13, <3>1, <3>2, OneOrderly
    <3>4. \A r : ~Touches(listed, x, r)
      BY <3>2 DEF Touches, Leads, Stores
    <3>5. Before(listed, batch, after)
      BY <2>8, <3>3, <3>4 DEF Before, Separate
    <3>6. Follows(after)
      BY <3>2, <3>3, <3>4 DEF Follows, Subjects, Stores, Enders, Touches
    <3>7. Exhausts(bad \cup good, "transaction", n, after)
      BY <3>2, <3>3 DEF Exhausts, Warnings
    <3>8. QED
      BY <1>1, <2>2, <2>3, <2>4, <2>5, <2>6, <2>9, <2>12, <3>3, <3>5, <3>6, <3>7, BatchReads
  <2>14. CASE n < Pages /\ after = <<Read("pages", a, n + 1)>>
    <3>1. PICK x : x = Read("pages", a, n + 1)
      OBVIOUS
    <3>2. x \in Tasks /\ x.op = "pages" /\ x.rec = a /\ x.page = n + 1
      <4>1. n + 1 \in 0 .. Pages /\ a \in Records
        BY <1>3, <2>14, IngestAssumption DEF Records
      <4>2. QED
        BY <3>1, <4>1, ReadTasks DEF Ops
    <3>3. Orderly(listed, after) /\ Elements(after) = {x}
      BY <2>14, <3>1, <3>2, OneOrderly
    <3>4. \A r \in Records : Touches(listed, x, r) <=>
            r \in Transactions /\ listed[r] = a /\ PageOf[r] >= n + 1
      BY <3>2 DEF Touches, Leads, Stores
    <3>5. Before(listed, batch, after)
      <4>1. \A r \in Records : ~(r \in here /\ Touches(listed, x, r))
        BY <1>3, <1>4, <3>4, IngestAssumption DEF OnPage
      <4>2. QED
        BY <2>8, <3>3, <4>1 DEF Before, Separate
    <3>6. \A r \in Records : Leads(listed, x, r) => Leads(listed, Head(todo), r)
      BY <1>3, <2>10, <3>4, IngestAssumption DEF Touches
    <3>7. Follows(after)
      BY <1>3, <3>2, <3>3, <3>6 DEF Follows, Subjects, Stores, Enders
    <3>8. Exhausts(bad \cup good, "transaction", n, after)
      <4> SUFFICES ASSUME NEW r \in Records, Leads(listed, Head(todo), r)
                   PROVE  Leads(listed, x, r) \/ r \in here
        BY <2>6, <2>11, <3>3, DueRecords DEF Exhausts
      <4>1. PageOf[r] = n \/ PageOf[r] >= n + 1
        BY <1>3, <2>10, IngestAssumption
      <4>2. QED
        BY <1>4, <2>10, <3>2, <4>1 DEF Leads, OnPage
    <3>9. QED
      BY <1>1, <2>2, <2>3, <2>4, <2>5, <2>6, <2>9, <2>12, <3>3, <3>5, <3>7, <3>8, BatchReads
  <2>15. CASE n = Pages /\ after = <<>>
    <3>1. Orderly(listed, after) /\ Elements(after) = {}
      BY <2>15, EmptyOrderly
    <3>2. Before(listed, batch, after) /\ Follows(after)
      BY <3>1 DEF Before, Follows
    <3>3. Exhausts(bad \cup good, "transaction", n, after)
      <4> SUFFICES ASSUME NEW r \in Records, Leads(listed, Head(todo), r)
                   PROVE  r \in here
        BY <2>6, <2>11, DueRecords DEF Exhausts
      <4>1. PageOf[r] = n
        BY <1>3, <2>10, <2>15, IngestAssumption
      <4>2. QED
        BY <1>4, <2>10, <4>1 DEF OnPage
    <3>4. QED
      BY <1>1, <2>2, <2>3, <2>4, <2>5, <2>6, <2>9, <2>12, <3>1, <3>2, <3>3, BatchReads
  <2>16. QED
    BY <1>6, <2>13, <2>14, <2>15
<1>7. CASE ~Goes(<<Simple("fail")>>)
  <2>1. PICK bad \in SUBSET here, after \in {IF n < Pages THEN <<Read("pages", a, n + 1)>> ELSE <<>>,
                                             <<Read("fail", NoParent, n)>>} :
          todo' = (Batch(bad, "transaction", here \ bad, offer, n) \o after) \o Tail(todo)
    BY <1>2, <1>4, <1>7, PageShape DEF Goes, rec
  <2>2. \/ after = <<Read("fail", NoParent, n)>>
        \/ n < Pages /\ after = <<Read("pages", a, n + 1)>>
        \/ n = Pages /\ after = <<>>
    BY <1>3, <2>1, IngestAssumption
  <2>3. QED
    BY <1>6, <2>1, <2>2
<1>8. QED
  BY <1>5, <1>7

\* No record but those asked for, and all of them that are due.
Collects(mine, op) ==
  /\ \A m \in mine, r \in Records :
       Leads(listed, Task(op, m, offer[m], 0), r) => Leads(listed, Head(todo), r)
  /\ \A r \in Due : Leads(listed, Head(todo), r) =>
       \E m \in mine : Leads(listed, Task(op, m, offer[m], 0), r)

\* A list collected as a whole.
LEMMA ListReads ==
  ASSUME TypeInv, TodoInv, todo # <<>>, Moves, UNCHANGED products,
         NEW F \in Tables, NEW op \in Stores, Subjects(op) = F,
         NEW bad, NEW good, bad \cap good = {}, bad \cup good \subseteq F,
         Head(todo).op \in {"bills", "investments", "movements"},
         Collects(bad \cup good, op),
         todo' = Batch(bad, op, good, offer, 0) \o Tail(todo)
  PROVE  ReadsOn
<1>1. PICK batch, after : batch = Batch(bad, op, good, offer, 0) /\ after = <<>>
  OBVIOUS
<1>2. Orderly(listed, after) /\ Elements(after) = {}
  BY <1>1, EmptyOrderly
<1>3. Before(listed, batch, after) /\ Follows(after)
  BY <1>2 DEF Before, Follows
<1>4. Exhausts(bad \cup good, op, 0, after)
  BY DEF Exhausts, Collects
<1>5. Answers(bad \cup good, op, 0)
  <2>1. \A m \in bad \cup good : Leads(listed, Task(op, m, offer[m], 0), m) /\ m \in Records
    BY DEF Leads, Task, Records, Children, Tables
  <2>2. QED
    BY <2>1 DEF Answers, Collects
<1>6. Head(todo).op \notin Warnings \cup {"item"} /\ 0 \in 0 .. Pages
  BY IngestAssumption DEF Warnings
<1>7. QED
  BY <1>1, <1>2, <1>3, <1>4, <1>5, <1>6, BatchReads

LEMMA BillsRead ==
  ASSUME TypeInv, TodoInv, GetBills
  PROVE  ReadsOn
<1>1. todo # <<>> /\ Head(todo).op = "bills" /\ Moves /\ UNCHANGED products
  BY DEF GetBills, First
<1>2. CASE Goes(<<Simple("fail")>>)
  BY <1>1, <1>2, SimpleTasks, WarningReads DEF Goes, Ops
<1>3. PICK mine : mine = {b \in Bills : BillOf[b] = rec}
  OBVIOUS
<1>4. CASE \E bad \in SUBSET mine : Goes(Batch(bad, "bill", mine \ bad, offer, 0))
  <2>1. PICK bad, good : /\ bad \in SUBSET mine /\ good = mine \ bad
                         /\ todo' = Batch(bad, "bill", good, offer, 0) \o Tail(todo)
    BY <1>4 DEF Goes
  <2>2. /\ Bills \in Tables /\ "bill" \in Stores /\ Subjects("bill") = Bills
        /\ bad \cap good = {} /\ bad \cup good \subseteq Bills /\ bad \cup good = mine
    BY <1>3, <2>1 DEF Tables, Stores, Subjects
  <2>3. \A r \in Records : Leads(listed, Head(todo), r) <=> r \in mine
    BY <1>1, <1>3 DEF Leads, Stores, rec
  <2>4. \A m, r \in Records : Leads(listed, Task("bill", m, offer[m], 0), r) <=> r = m
    BY DEF Leads, Stores, Task
  <2>5. Collects(bad \cup good, "bill")
    BY <2>2, <2>3, <2>4, DueRecords DEF Records, Collects
  <2>6. QED
    BY <1>1, <2>1, <2>2, <2>5, ListReads
<1>5. (\E bad \in SUBSET mine : Goes(Batch(bad, "bill", mine \ bad, offer, 0)))
      \/ Goes(<<Simple("fail")>>)
  BY <1>3 DEF GetBills, Each, Batch, Refusals, Stocks, Rejection, NoPage
<1>6. QED
  BY <1>2, <1>4, <1>5

LEMMA InvestmentsRead ==
  ASSUME TypeInv, TodoInv, GetInvestments
  PROVE  ReadsOn
<1>1. todo # <<>> /\ Head(todo).op = "investments" /\ Moves /\ UNCHANGED products
  BY DEF GetInvestments, First
<1>2. CASE Goes(<<Simple("fail")>>)
  BY <1>1, <1>2, SimpleTasks, WarningReads DEF Goes, Ops
<1>3. CASE "INVESTMENTS" \notin products /\ Goes(<<>>)
  BY <1>1, <1>3, NothingReads DEF Goes
<1>4. CASE \E bad \in SUBSET (Holdings \cap FirstPage) :
           Goes(Batch(bad, "holding", (Holdings \cap FirstPage) \ bad, offer, 0))
  <2>1. PICK bad, good : /\ bad \in SUBSET (Holdings \cap FirstPage) /\ good = (Holdings \cap FirstPage) \ bad
                         /\ todo' = Batch(bad, "holding", good, offer, 0) \o Tail(todo)
    BY <1>4 DEF Goes
  <2>2. /\ Holdings \in Tables /\ "holding" \in Stores /\ Subjects("holding") = Holdings
        /\ bad \cap good = {} /\ bad \cup good \subseteq Holdings /\ bad \cup good = Holdings \cap FirstPage
    BY <2>1 DEF Tables, Stores, Subjects
  <2>3. \A r \in Records : Leads(listed, Head(todo), r) <=> r \in Holdings \cup Movements
    BY <1>1 DEF Leads, Stores
  <2>4. \A m \in Holdings, r \in Records :
          Leads(listed, Task("holding", m, offer[m], 0), r)
            <=> r = m \/ (r \in Movements /\ MovementOf[r] = m)
    BY DEF Leads, Stores, Task
  <2>5. Collects(bad \cup good, "holding")
    <3>1. \A m \in bad \cup good, r \in Records :
            Leads(listed, Task("holding", m, offer[m], 0), r) => Leads(listed, Head(todo), r)
      BY <2>2, <2>3, <2>4
    <3>2. ASSUME NEW r \in Due, Leads(listed, Head(todo), r)
          PROVE  \E m \in bad \cup good : Leads(listed, Task("holding", m, offer[m], 0), r)
      <4>1. r \in Records /\ Reached(r) /\ r \in Holdings \cup Movements
        BY <2>3, <3>2 DEF Due
      <4>2. CASE r \in Holdings
        <5>1. r \in Holdings \cap FirstPage
          BY <4>1, <4>2, IngestAssumption DEF Reached, Children
        <5>2. QED
          BY <2>2, <2>4, <4>1, <5>1
      <4>3. CASE r \in Movements
        <5>1. MovementOf[r] \in Holdings \cap FirstPage
          BY <4>1, <4>3, IngestAssumption DEF Reached, Children
        <5>2. QED
          BY <2>2, <2>4, <4>1, <4>3, <5>1
      <4>4. QED
        BY <4>1, <4>2, <4>3
    <3>3. QED
      BY <3>1, <3>2 DEF Collects
  <2>6. QED
    BY <1>1, <2>1, <2>2, <2>5, ListReads
<1>5. \/ "INVESTMENTS" \notin products /\ Goes(<<>>)
      \/ \E bad \in SUBSET (Holdings \cap FirstPage) :
           Goes(Batch(bad, "holding", (Holdings \cap FirstPage) \ bad, offer, 0))
      \/ Goes(<<Simple("fail")>>)
  BY DEF GetInvestments, Each, Batch, Refusals, Stocks, Rejection, NoPage
<1>6. QED
  BY <1>2, <1>3, <1>4, <1>5

LEMMA MovementsRead ==
  ASSUME TypeInv, TodoInv, GetMovements
  PROVE  ReadsOn
<1>1. todo # <<>> /\ Head(todo).op = "movements" /\ Moves /\ UNCHANGED products
  BY DEF GetMovements, First
<1>2. CASE Goes(<<Simple("fail")>>)
  BY <1>1, <1>2, SimpleTasks, WarningReads DEF Goes, Ops
<1>3. PICK mine : mine = {m \in Movements : MovementOf[m] = rec}
  OBVIOUS
<1>4. CASE \E bad \in SUBSET mine : Goes(Batch(bad, "movement", mine \ bad, offer, 0))
  <2>1. PICK bad, good : /\ bad \in SUBSET mine /\ good = mine \ bad
                         /\ todo' = Batch(bad, "movement", good, offer, 0) \o Tail(todo)
    BY <1>4 DEF Goes
  <2>2. /\ Movements \in Tables /\ "movement" \in Stores /\ Subjects("movement") = Movements
        /\ bad \cap good = {} /\ bad \cup good \subseteq Movements /\ bad \cup good = mine
    BY <1>3, <2>1 DEF Tables, Stores, Subjects
  <2>3. \A r \in Records : Leads(listed, Head(todo), r) <=> r \in mine
    BY <1>1, <1>3 DEF Leads, Stores, rec
  <2>4. \A m, r \in Records : Leads(listed, Task("movement", m, offer[m], 0), r) <=> r = m
    BY DEF Leads, Stores, Task
  <2>5. Collects(bad \cup good, "movement")
    BY <2>2, <2>3, <2>4, DueRecords DEF Records, Children, Collects
  <2>6. QED
    BY <1>1, <2>1, <2>2, <2>5, ListReads
<1>5. (\E bad \in SUBSET mine : Goes(Batch(bad, "movement", mine \ bad, offer, 0)))
      \/ Goes(<<Simple("fail")>>)
  BY <1>3 DEF GetMovements, Each, Batch, Refusals, Stocks, Rejection, NoPage
<1>6. QED
  BY <1>2, <1>4, <1>5

Reading ==
  \/ GetSource \/ UpdateSourceName \/ GetAccounts \/ ReadPage \/ GetBills
  \/ GetInvestments \/ RecordSyncedQuotes \/ GetMovements

\* A step that reads leaves behind it what is still to be stored.
LEMMA EveryReadReads ==
  ASSUME TypeInv, TodoInv, Reading
  PROVE  ReadsOn /\ Moves /\ todo # <<>> /\ Owned
<1>1. CASE UpdateSourceName \/ RecordSyncedQuotes
  BY <1>1, NothingReads DEF UpdateSourceName, RecordSyncedQuotes, First, Goes
<1>2. CASE GetSource
  BY <1>2, SourceReads DEF GetSource, First
<1>3. CASE GetAccounts
  BY <1>3, AccountsRead DEF GetAccounts, First
<1>4. CASE ReadPage
  BY <1>4, PageReads DEF ReadPage, First
<1>5. CASE GetBills
  BY <1>5, BillsRead DEF GetBills, First
<1>6. CASE GetInvestments
  BY <1>6, InvestmentsRead DEF GetInvestments, First
<1>7. CASE GetMovements
  BY <1>7, MovementsRead DEF GetMovements, First
<1>8. QED
  BY <1>1, <1>2, <1>3, <1>4, <1>5, <1>6, <1>7 DEF Reading

-----------------------------------------------------------------------------
(* Storing a record *)

Proceeds == \E new :
  /\ todo # <<>> /\ Owned
  /\ todo' = new \o Tail(todo)
  /\ Pushes(new) /\ Touched /\ \A x \in Elements(new) : Fresh(x)'
  /\ Covers(new)

LEMMA ReadsProceed ==
  ASSUME TypeInv, TodoInv, ReadsOn, Moves, todo # <<>>, Owned
  PROVE  Proceeds
<1>1. PICK new : Reads(new) /\ Covers(new) /\ todo' = new \o Tail(todo)
  BY DEF ReadsOn
<1>2. Pushes(new) /\ Touched /\ \A x \in Elements(new) : Fresh(x)'
  BY <1>1, ReadsPushes
<1>3. QED
  BY <1>1, <1>2 DEF Proceeds

LEMMA ProceedingKeeps ==
  ASSUME TodoInv, Covered, Proceeds
  PROVE  TodoInv' /\ Covered'
<1>1. PICK new : /\ todo # <<>> /\ Owned
                 /\ todo' = new \o Tail(todo)
                 /\ Pushes(new) /\ Touched /\ \A x \in Elements(new) : Fresh(x)'
                 /\ Covers(new)
  BY DEF Proceeds
<1>2. TodoInv' /\ Elements(todo') = Elements(new) \cup Elements(Tail(todo))
  BY <1>1, StepKeepsTodo
<1>3. QED
  BY <1>1, <1>2, StepKeepsCovered

\* What is left to do for a record that is stored.
Remains(new) ==
  /\ Orderly(listed, new)
  /\ \A x \in Elements(new) :
       /\ x.op \notin Enders \cup Stores \cup Warnings
       /\ x.rec \in Subjects(x.op) /\ (x.op = "pages" => x.page >= 1)
       /\ x.op = "count" => x.rec = rec /\ x.page = NoPage /\ Countable(rec)
       /\ \A r \in Records : Leads(listed, x, r) => Leads(listed, Head(todo), r) /\ r # rec
  /\ rec \in Parents /\ Countable(rec) => \E x \in Elements(new) : x.op = "count" /\ x.rec = rec
  /\ products = Products =>
       \A r \in Records : Leads(listed, Head(todo), r) =>
         r = rec \/ \E x \in Elements(new) : Leads(listed, x, r)

Storing ==
  /\ todo # <<>> /\ Owned /\ Head(todo).op \in Stores
  /\ Upserted(rec, version)
  /\ UNCHANGED <<providerVars, run, since, status, failed, tallied, products>>

LEMMA StoringRecord ==
  ASSUME TypeInv, TodoInv, Storing
  PROVE  /\ rec \in Subjects(Head(todo).op) /\ rec \in Records
         /\ version \in Versions /\ version >= 1 /\ version >= since[rec]
         /\ outcome[rec] = "none" /\ Leads(listed, Head(todo), rec)
         /\ outcome'[rec] \in {"inserted", "updated", "unchanged"}
         /\ outcome'[rec] = "unchanged" <=> row[rec] = version
         /\ \A r \in Records \ {rec} : outcome'[r] = outcome[r] /\ row'[r] = row[r]
         /\ row'[rec] = version
         /\ row' \in [Records -> Versions] /\ outcome' \in [Records -> Outcomes]
<1>1. Head(todo) \in Tasks /\ Fresh(Head(todo)) /\ Head(todo).op \in Stores
  BY HeadFresh DEF Storing
<1>2. rec \in Subjects(Head(todo).op) /\ rec \in Records /\ version \in Versions
      /\ version >= 1 /\ version >= since[rec]
  BY <1>1 DEF Fresh, Subjects, Stores, Records, Children, rec, version, Tasks
<1>3. Leads(listed, Head(todo), rec)
  BY <1>1 DEF Leads, rec
<1>4. outcome[rec] = "none"
  BY <1>1, <1>2, <1>3 DEF Fresh
<1>5. /\ row' = [row EXCEPT ![rec] = version]
      /\ outcome' = [outcome EXCEPT ![rec] = IF row[rec] = 0 THEN "inserted"
                                             ELSE IF row[rec] # version THEN "updated"
                                             ELSE "unchanged"]
  BY DEF Storing, Upserted
<1>6. row \in [Records -> Versions] /\ outcome \in [Records -> Outcomes]
  BY DEF TypeInv
<1>7. QED
  BY <1>2, <1>3, <1>4, <1>5, <1>6 DEF Outcomes, Versions

LEMMA StoringProceeds ==
  ASSUME TypeInv, TodoInv, Storing, NEW new, Remains(new), todo' = new \o Tail(todo)
  PROVE  Proceeds
<1>1. PICK head, r0, v0 : head = Head(todo) /\ r0 = rec /\ v0 = version
  OBVIOUS
<1>2. /\ r0 \in Subjects(head.op) /\ r0 \in Records
      /\ v0 >= since[r0] /\ outcome[r0] = "none" /\ Leads(listed, head, r0)
      /\ outcome'[r0] \in {"inserted", "updated", "unchanged"}
      /\ \A r \in Records \ {r0} : outcome'[r] = outcome[r] /\ row'[r] = row[r]
      /\ row'[r0] = v0
  BY <1>1, StoringRecord
<1>3. head \in Tasks /\ Fresh(head) /\ todo # <<>> /\ Owned /\ head.op \in Stores
  BY <1>1, HeadFresh DEF Storing
<1>4. listed' = listed /\ since' = since /\ failed' = failed /\ products' = products
  BY DEF Storing
<1>5. Pushes(new)
  <2>1. \A x \in Elements(new), r \in Records :
           Touches(listed, x, r) => Touches(listed, Head(todo), r)
    BY <1>1, <1>2 DEF Remains, Touches
  <2>2. QED
    BY <2>1 DEF Remains, Pushes
<1>6. Touched
  BY <1>1, <1>2, <1>4 DEF Touched
<1>7. ASSUME NEW x \in Elements(new)
      PROVE  Fresh(x)'
  <2>1. x.rec \in Subjects(x.op) /\ (x.op = "pages" => x.page >= 1) /\ x.op \notin Stores
    BY DEF Remains
  <2>2. \A r \in Records : Leads(listed', x, r) => outcome'[r] = "none"
    BY <1>1, <1>2, <1>3, <1>4 DEF Remains, Fresh
  <2>3. x.op = "count" => Stored(x.rec)' /\ x.page = NoPage
    BY <1>1, <1>2 DEF Remains, Stored
  <2>4. QED
    BY <2>1, <2>2, <2>3 DEF Fresh
<1>8. Covers(new)
  <2>1. head.op \notin Warnings \cup {"item"}
    BY <1>3 DEF Stores, Warnings
  <2>2. Done(r0)'
    BY <1>2, <1>4 DEF Done, Stored
  <2>3. \A r \in Records : row'[r] # row[r] => Leads(listed, Head(todo), r)
    BY <1>1, <1>2
  <2>4. products = Products =>
          /\ products' = Products
          /\ \A r \in Records : Leads(listed, Head(todo), r) =>
               Done(r)' \/ \E x \in Elements(new) : Leads(listed, x, r)
    BY <1>1, <1>4, <2>2 DEF Remains
  <2>5. QED
    BY <1>1, <1>4, <2>1, <2>3, <2>4, DueRecords DEF Covers
<1>9. QED
  BY <1>3, <1>5, <1>6, <1>7, <1>8 DEF Proceeds

LEMMA AccountRemains ==
  ASSUME TypeInv, TodoInv, Storing, Head(todo).op = "account"
  PROVE  /\ Remains(AfterAccount(rec))
         /\ \A x \in Elements(AfterAccount(rec)) : x.op = "count" => x.rec = rec
<1>1. PICK a : a = rec
  OBVIOUS
<1>2. a \in Accounts /\ a \in Records
  BY <1>1, StoringRecord DEF Subjects
<1>3. \A r \in Records : Leads(listed, Head(todo), r) <=>
         r = a \/ (r \in Transactions /\ listed[r] = a) \/ (r \in Bills /\ BillOf[r] = a)
  BY <1>1 DEF Leads, Stores, rec
<1>4. PICK c, p, b : c = Read("count", a, 0) /\ p = Read("pages", a, 1) /\ b = Read("bills", a, 0)
  OBVIOUS
<1>5. /\ c \in Tasks /\ p \in Tasks /\ b \in Tasks
      /\ c.op = "count" /\ p.op = "pages" /\ b.op = "bills"
      /\ c.rec = a /\ p.rec = a /\ b.rec = a /\ p.page = 1 /\ c.page = 0
  <2>1. {"count", "pages", "bills"} \subseteq Ops /\ {0, 1} \subseteq 0 .. Pages
    BY IngestAssumption DEF Ops
  <2>2. QED
    BY <1>2, <1>4, <2>1, ReadTasks
<1>6. /\ \A r \in Records : Touches(listed, c, r) <=> r = a
      /\ \A r \in Records : ~Leads(listed, c, r)
      /\ \A r \in Records : Touches(listed, p, r) <=> r \in Transactions /\ listed[r] = a
      /\ \A r \in Records : Touches(listed, b, r) <=> r \in Bills /\ BillOf[r] = a
      /\ \A x \in {p, b}, r \in Records : Touches(listed, x, r) <=> Leads(listed, x, r)
  <2>1. \A r \in Records : r \in Transactions => PageOf[r] >= 1
    BY IngestAssumption
  <2>2. QED
    BY <1>5, <2>1 DEF Touches, Leads, Stores
<1>7. Separate(listed, c, p) /\ Separate(listed, c, b) /\ Separate(listed, p, b)
  BY <1>2, <1>6, IngestAssumption DEF Separate, Children
<1>8. ASSUME NEW new, Orderly(listed, new), Elements(new) \subseteq {c, p, b},
             c \in Elements(new) <=> Countable(a),
             products = Products => {p} \subseteq Elements(new) /\ (a \in Credit => b \in Elements(new))
      PROVE  Remains(new)
  <2>1. \A x \in Elements(new) :
           /\ x.op \notin Enders \cup Stores \cup Warnings
           /\ x.rec \in Subjects(x.op) /\ (x.op = "pages" => x.page >= 1)
           /\ x.op = "count" => x.rec = rec /\ x.page = NoPage /\ Countable(rec)
    BY <1>1, <1>2, <1>5, <1>8 DEF Enders, Stores, Warnings, Subjects, Parents, NoPage
  <2>2. \A x \in Elements(new), r \in Records :
           Leads(listed, x, r) => Leads(listed, Head(todo), r) /\ r # a
    BY <1>2, <1>3, <1>6, <1>8, IngestAssumption DEF Children
  <2>3. products = Products =>
          \A r \in Records : Leads(listed, Head(todo), r) =>
            r = a \/ \E x \in Elements(new) : Leads(listed, x, r)
    <3> SUFFICES ASSUME products = Products, NEW r \in Records, Leads(listed, Head(todo), r), r # a
                 PROVE  \E x \in Elements(new) : Leads(listed, x, r)
      OBVIOUS
    <3>1. CASE r \in Transactions /\ listed[r] = a
      BY <1>6, <1>8, <3>1
    <3>2. CASE r \in Bills /\ BillOf[r] = a
      BY <1>6, <1>8, <3>2, IngestAssumption
    <3>3. QED
      BY <1>3, <3>1, <3>2
  <2>4. rec \in Parents /\ Countable(rec) => \E x \in Elements(new) : x.op = "count" /\ x.rec = rec
    BY <1>1, <1>5, <1>8
  <2>5. QED
    BY <1>1, <1>8, <2>1, <2>2, <2>3, <2>4 DEF Remains
<1>9. CASE "TRANSACTIONS" \notin products
  <2>1. PICK new : new = <<>>
    OBVIOUS
  <2>2. Orderly(listed, new) /\ Elements(new) = {}
    BY <2>1, EmptyOrderly
  <2>3. AfterAccount(rec) = new
    BY <1>9, <2>1 DEF AfterAccount
  <2>4. Remains(new)
    BY <1>2, <1>8, <1>9, <2>2 DEF Products, Countable
  <2>5. QED
    BY <2>2, <2>3, <2>4
<1>10. CASE "TRANSACTIONS" \in products /\ a \notin Credit
  <2>1. PICK new : new = <<c, p>>
    OBVIOUS
  <2>2. Orderly(listed, new) /\ Elements(new) = {c, p}
    BY <1>5, <1>7, <2>1, TwoOrderly DEF Enders
  <2>3. AfterAccount(rec) = new
    <3>1. \A s \in Seq(Tasks) : s \o <<>> = s
      OBVIOUS
    <3>2. AfterAccount(rec) = <<c, p>> \o <<>>
      BY <1>1, <1>4, <1>10 DEF AfterAccount, NoPage
    <3>3. QED
      BY <2>1, <2>2, <3>1, <3>2 DEF Orderly
  <2>4. Remains(new)
    BY <1>8, <1>10, <2>2 DEF Countable
  <2>5. QED
    BY <1>1, <1>5, <2>2, <2>3, <2>4
<1>11. CASE "TRANSACTIONS" \in products /\ a \in Credit
  <2>1. PICK s, t, new : s = <<c, p>> /\ t = <<b>> /\ new = s \o t
    OBVIOUS
  <2>2. Orderly(listed, s) /\ Elements(s) = {c, p} /\ Orderly(listed, t) /\ Elements(t) = {b}
    BY <1>5, <1>7, <2>1, TwoOrderly, OneOrderly DEF Enders
  <2>3. Before(listed, s, t)
    BY <1>5, <1>7, <2>2 DEF Before, Enders
  <2>4. Lists(listed, s \o t, Elements(s), Elements(t))
    BY <2>2, <2>3, ConcatOrderly
  <2>5. Orderly(listed, new) /\ Elements(new) = {c, p, b}
    BY <2>1, <2>2, <2>4 DEF Lists
  <2>6. AfterAccount(rec) = new
    BY <1>1, <1>4, <1>11, <2>1 DEF AfterAccount, NoPage
  <2>7. Remains(new)
    BY <1>8, <1>11, <2>5 DEF Countable
  <2>8. QED
    BY <1>1, <1>5, <2>5, <2>6, <2>7
<1>12. QED
  BY <1>1, <1>9, <1>10, <1>11

LEMMA HoldingRemains ==
  ASSUME TypeInv, TodoInv, Storing, Head(todo).op = "holding"
  PROVE  LET new == <<Read("count", rec, NoPage), Read("quotes", rec, NoPage),
                      Read("movements", rec, NoPage)>>
         IN Remains(new)
<1>1. PICK h : h = rec
  OBVIOUS
<1>2. h \in Holdings /\ h \in Records
  BY <1>1, StoringRecord DEF Subjects
<1>3. \A r \in Records : Leads(listed, Head(todo), r) <=>
         r = h \/ (r \in Movements /\ MovementOf[r] = h)
  BY <1>1 DEF Leads, Stores, rec
<1>4. PICK c, q, m : c = Read("count", h, 0) /\ q = Read("quotes", h, 0) /\ m = Read("movements", h, 0)
  OBVIOUS
<1>5. /\ c \in Tasks /\ q \in Tasks /\ m \in Tasks
      /\ c.op = "count" /\ q.op = "quotes" /\ m.op = "movements"
      /\ c.rec = h /\ q.rec = h /\ m.rec = h /\ c.page = 0
  <2>1. {"count", "quotes", "movements"} \subseteq Ops /\ 0 \in 0 .. Pages
    BY IngestAssumption DEF Ops
  <2>2. QED
    BY <1>2, <1>4, <2>1, ReadTasks
<1>6. /\ \A r \in Records : Touches(listed, c, r) <=> r = h
      /\ \A x \in {c, q}, r \in Records : ~Leads(listed, x, r)
      /\ \A r \in Records : ~Touches(listed, q, r)
      /\ \A r \in Records : Touches(listed, m, r) <=> r \in Movements /\ MovementOf[r] = h
      /\ \A r \in Records : Touches(listed, m, r) <=> Leads(listed, m, r)
  BY <1>5 DEF Touches, Leads, Stores
<1>7. Separate(listed, c, q) /\ Separate(listed, c, m) /\ Separate(listed, q, m)
  BY <1>2, <1>6, IngestAssumption DEF Separate, Children
<1>8. PICK new : new = <<c, q, m>>
  OBVIOUS
<1>9. Orderly(listed, new) /\ Elements(new) = {c, q, m}
  BY <1>5, <1>7, <1>8, ThreeOrderly DEF Enders
<1>10. \A x \in Elements(new) :
          /\ x.op \notin Enders \cup Stores \cup Warnings
          /\ x.rec \in Subjects(x.op) /\ (x.op = "pages" => x.page >= 1)
          /\ x.op = "count" => x.rec = rec /\ x.page = NoPage /\ Countable(rec)
  BY <1>1, <1>2, <1>5, <1>9, IngestAssumption
  DEF Enders, Stores, Warnings, Subjects, Parents, NoPage, Countable
<1>11. \A x \in Elements(new), r \in Records :
          Leads(listed, x, r) => Leads(listed, Head(todo), r) /\ r # h
  BY <1>2, <1>3, <1>6, <1>9, IngestAssumption DEF Children
<1>12. \A r \in Records : Leads(listed, Head(todo), r) =>
          r = h \/ \E x \in Elements(new) : Leads(listed, x, r)
  BY <1>3, <1>6, <1>9
<1>13. Remains(new)
  BY <1>1, <1>5, <1>9, <1>10, <1>11, <1>12 DEF Remains
<1>14. QED
  BY <1>1, <1>4, <1>8, <1>13 DEF NoPage

LEMMA BillRemains ==
  ASSUME TypeInv, TodoInv, Storing, Head(todo).op = "bill"
  PROVE  Remains(<<Read("count", rec, NoPage)>>)
<1>1. PICK b : b = rec
  OBVIOUS
<1>2. b \in Bills /\ b \in Records
  BY <1>1, StoringRecord DEF Subjects
<1>3. \A r \in Records : Leads(listed, Head(todo), r) <=> r = b
  BY <1>1 DEF Leads, Stores, rec
<1>4. PICK c : c = Read("count", b, 0)
  OBVIOUS
<1>5. c \in Tasks /\ c.op = "count" /\ c.rec = b /\ c.page = 0
  <2>1. "count" \in Ops /\ 0 \in 0 .. Pages
    BY IngestAssumption DEF Ops
  <2>2. QED
    BY <1>2, <1>4, <2>1, ReadTasks
<1>6. PICK new : new = <<c>>
  OBVIOUS
<1>7. Orderly(listed, new) /\ Elements(new) = {c}
  BY <1>5, <1>6, OneOrderly
<1>8. \A r \in Records : ~Leads(listed, c, r)
  BY <1>5 DEF Leads, Stores
<1>9. Remains(new)
  BY <1>1, <1>2, <1>3, <1>5, <1>7, <1>8, IngestAssumption
  DEF Remains, Enders, Stores, Warnings, Subjects, Parents, NoPage, Countable
<1>10. QED
  BY <1>1, <1>4, <1>6, <1>9 DEF NoPage

LEMMA NothingRemains ==
  ASSUME TypeInv, TodoInv, Storing, Head(todo).op \in {"transaction", "movement"}
  PROVE  Remains(<<>>)
<1>1. PICK new : new = <<>>
  OBVIOUS
<1>2. Orderly(listed, new) /\ Elements(new) = {}
  BY <1>1, EmptyOrderly
<1>3. \A r \in Records : Leads(listed, Head(todo), r) => r = rec
  BY DEF Leads, Stores, rec
<1>4. rec \notin Parents
  BY StoringRecord, IngestAssumption DEF Subjects, Parents, Children
<1>5. Remains(new)
  BY <1>2, <1>3, <1>4 DEF Remains
<1>6. QED
  BY <1>1, <1>5

-----------------------------------------------------------------------------
(* Every step of Execute *)

LEMMA NothingProceeds ==
  ASSUME TodoInv, todo # <<>>, Owned, todo' = <<>> \o Tail(todo), Touched, row' = row,
         \/ failed' = TRUE
         \/ Head(todo).op = "count" /\ failed' = failed /\ products' = products
  PROVE  Proceeds
<1>1. PICK new : new = <<>>
  OBVIOUS
<1>2. Orderly(listed, new) /\ Elements(new) = {}
  BY <1>1, EmptyOrderly
<1>3. Pushes(new)
  BY <1>2 DEF Pushes
<1>4. Covers(new)
  BY <1>2 DEF Covers, Warnings, Leads, Stores
<1>5. QED
  BY <1>1, <1>2, <1>3, <1>4 DEF Proceeds

\* A record that is refused.
LEMMA RefusalReads ==
  ASSUME TypeInv, TodoInv, todo # <<>>, Head(todo).op \in Stores, Moves,
         NEW n \in 0 .. Pages, Goes(<<Task("reject", rec, 0, n)>>)
  PROVE  ReadsOn
<1>1. PICK x : x = Task("reject", rec, 0, n)
  OBVIOUS
<1>2. Head(todo) \in Tasks /\ Fresh(Head(todo))
  BY HeadFresh
<1>3. rec \in Records /\ Leads(listed, Head(todo), rec)
  BY <1>2 DEF Fresh, Subjects, Stores, Records, Children, rec, Leads
<1>4. x \in Tasks /\ x.op = "reject" /\ x.rec = rec
  BY <1>1, <1>3, IngestAssumption DEF Tasks, Task, Ops, Versions
<1>5. QED
  BY <1>1, <1>3, <1>4, WarningReads DEF Goes

\* The record is committed with its event, its counter and what automation saw.
StoresOn ==
  /\ Storing
  /\ hooked' = IF rec \in Transactions /\ row[rec] # version
               THEN [hooked EXCEPT ![rec] = version] ELSE hooked
  /\ counted' = IF rec \in Children /\ row[rec] # version THEN counted + 1 ELSE counted
  /\ \E new : Remains(new) /\ todo' = new \o Tail(todo)

LEMMA StoresProceed ==
  ASSUME TypeInv, TodoInv, StoresOn
  PROVE  Proceeds
BY StoringProceeds DEF StoresOn

\* Stored, or left with a warning.
Upserts == (ReadsOn /\ Moves /\ UNCHANGED products) \/ StoresOn

LEMMA AccountUpserts ==
  ASSUME TypeInv, TodoInv, UpsertAccount
  PROVE  Upserts
<1>1. todo # <<>> /\ Owned /\ Head(todo).op = "account"
  BY DEF UpsertAccount, First
<1>2. CASE Moves /\ UNCHANGED products /\ Goes(<<Simple("fail")>>)
  BY <1>1, <1>2, SimpleTasks, WarningReads DEF Goes, Ops, Upserts
<1>3. CASE Storing /\ UNCHANGED <<hooked, counted>> /\ Goes(AfterAccount(rec))
  <2>1. Remains(AfterAccount(rec))
    BY <1>1, <1>3, AccountRemains
  <2>2. rec \notin Children
    BY <1>1, <1>3, StoringRecord, IngestAssumption DEF Subjects
  <2>3. QED
    BY <1>3, <2>1, <2>2 DEF Goes, StoresOn, Upserts, Children
<1>4. QED
  BY <1>1, <1>2, <1>3 DEF UpsertAccount, Storing, Stores

LEMMA TransactionUpserts ==
  ASSUME TypeInv, TodoInv, UpsertTransaction
  PROVE  Upserts
<1>1. todo # <<>> /\ Owned /\ Head(todo).op = "transaction"
  BY DEF UpsertTransaction, First
<1>2. CASE Moves /\ UNCHANGED products /\ Goes(<<Task("reject", rec, 0, Head(todo).page)>>)
  <2>1. Head(todo).page \in 0 .. Pages
    BY <1>1, HeadFresh DEF Tasks
  <2>2. ReadsOn
    BY <1>1, <1>2, <2>1, RefusalReads DEF Stores
  <2>3. QED
    BY <1>2, <2>2 DEF Upserts
<1>3. CASE /\ Storing /\ Goes(<<>>)
           /\ hooked' = IF row[rec] # version THEN [hooked EXCEPT ![rec] = version] ELSE hooked
           /\ counted' = IF row[rec] # version THEN counted + 1 ELSE counted
  <2>1. Remains(<<>>)
    BY <1>1, <1>3, NothingRemains
  <2>2. rec \in Transactions /\ rec \in Children
    BY <1>1, <1>3, StoringRecord DEF Subjects, Children
  <2>3. QED
    BY <1>3, <2>1, <2>2 DEF Goes, StoresOn, Upserts
<1>4. QED
  BY <1>1, <1>2, <1>3 DEF UpsertTransaction, Storing, Stores

LEMMA BillUpserts ==
  ASSUME TypeInv, TodoInv, UpsertBill
  PROVE  Upserts
<1>1. todo # <<>> /\ Owned /\ Head(todo).op = "bill"
  BY DEF UpsertBill, First
<1>2. CASE Moves /\ UNCHANGED products /\ Goes(<<Rejection(rec)>>)
  <2>1. NoPage \in 0 .. Pages
    BY IngestAssumption DEF NoPage
  <2>2. ReadsOn
    BY <1>1, <1>2, <2>1, RefusalReads DEF Stores, Rejection
  <2>3. QED
    BY <1>2, <2>2 DEF Upserts
<1>3. CASE Storing /\ UNCHANGED <<hooked, counted>> /\ Goes(<<Read("count", rec, NoPage)>>)
  <2>1. Remains(<<Read("count", rec, NoPage)>>)
    BY <1>1, <1>3, BillRemains
  <2>2. rec \notin Children
    BY <1>1, <1>3, StoringRecord, IngestAssumption DEF Subjects
  <2>3. QED
    BY <1>3, <2>1, <2>2 DEF Goes, StoresOn, Upserts, Children
<1>4. QED
  BY <1>1, <1>2, <1>3 DEF UpsertBill, Storing, Stores

LEMMA HoldingUpserts ==
  ASSUME TypeInv, TodoInv, UpsertInvestment
  PROVE  Upserts
<1>1. todo # <<>> /\ Owned /\ Head(todo).op = "holding"
  BY DEF UpsertInvestment, First
<1>2. CASE Moves /\ UNCHANGED products /\ Goes(<<Simple("fail")>>)
  BY <1>1, <1>2, SimpleTasks, WarningReads DEF Goes, Ops, Upserts
<1>3. PICK new : new = <<Read("count", rec, NoPage), Read("quotes", rec, NoPage),
                         Read("movements", rec, NoPage)>>
  OBVIOUS
<1>4. CASE Storing /\ UNCHANGED <<hooked, counted>> /\ Goes(new)
  <2>1. Remains(new)
    BY <1>1, <1>3, <1>4, HoldingRemains
  <2>2. rec \notin Children
    BY <1>1, <1>4, StoringRecord, IngestAssumption DEF Subjects
  <2>3. QED
    BY <1>4, <2>1, <2>2 DEF Goes, StoresOn, Upserts, Children
<1>5. QED
  BY <1>1, <1>2, <1>3, <1>4 DEF UpsertInvestment, Storing, Stores

LEMMA MovementUpserts ==
  ASSUME TypeInv, TodoInv, UpsertMovement
  PROVE  Upserts
<1>1. todo # <<>> /\ Owned /\ Head(todo).op = "movement"
  BY DEF UpsertMovement, First
<1>2. CASE Moves /\ UNCHANGED products /\ Goes(<<Rejection(rec)>>)
  <2>1. NoPage \in 0 .. Pages
    BY IngestAssumption DEF NoPage
  <2>2. ReadsOn
    BY <1>1, <1>2, <2>1, RefusalReads DEF Stores, Rejection
  <2>3. QED
    BY <1>2, <2>2 DEF Upserts
<1>3. CASE /\ Storing /\ Goes(<<>>) /\ UNCHANGED hooked
           /\ counted' = IF row[rec] # version THEN counted + 1 ELSE counted
  <2>1. Remains(<<>>)
    BY <1>1, <1>3, NothingRemains
  <2>2. rec \notin Transactions /\ rec \in Children
    BY <1>1, <1>3, StoringRecord, IngestAssumption DEF Subjects, Children
  <2>3. QED
    BY <1>3, <2>1, <2>2 DEF Goes, StoresOn, Upserts
<1>4. QED
  BY <1>1, <1>2, <1>3 DEF UpsertMovement, Storing, Stores

Upserting ==
  \/ UpsertAccount \/ UpsertTransaction \/ UpsertBill \/ UpsertInvestment \/ UpsertMovement

LEMMA UpsertingUpserts ==
  ASSUME TypeInv, TodoInv, Upserting
  PROVE  Upserts /\ todo # <<>> /\ Owned
<1>1. Upserts
  BY AccountUpserts, TransactionUpserts, BillUpserts, HoldingUpserts, MovementUpserts
  DEF Upserting
<1>2. todo # <<>> /\ Owned
  BY DEF Upserting, UpsertAccount, UpsertTransaction, UpsertBill, UpsertInvestment,
         UpsertMovement, First
<1>3. QED
  BY <1>1, <1>2

\* The rejection is recorded.
RejectionKept ==
  /\ First("reject") /\ Owned
  /\ failed' = TRUE
  /\ outcome' = IF rec \in Records THEN [outcome EXCEPT ![rec] = "rejected"] ELSE outcome
  /\ Goes(<<>>)
  /\ UNCHANGED <<providerVars, dataVars, run, since, status, safe, counted, tallied, products>>

\* It is not, and costs the account its other pages.
RejectionLost ==
  /\ First("reject") /\ Owned
  /\ todo' = <<Simple("fail")>> \o WithoutPages
  /\ Moves /\ UNCHANGED products

LEMMA RejectionKeptProceeds ==
  ASSUME TypeInv, TodoInv, RejectionKept
  PROVE  Proceeds
<1>1. todo # <<>> /\ Owned /\ Head(todo).op = "reject"
  BY DEF RejectionKept, First
<1>2. rec \in Records /\ Leads(listed, Head(todo), rec)
  BY <1>1, HeadFresh DEF Fresh, Subjects, rec, Leads
<1>3. Touched
  BY <1>2 DEF RejectionKept, Touched, TypeInv
<1>4. QED
  BY <1>1, <1>3, NothingProceeds DEF RejectionKept, Goes

LEMMA WritesProceed ==
  ASSUME TypeInv, TodoInv, CountProcessed \/ RecordFailure
  PROVE  Proceeds
<1>1. Touched
  BY DEF CountProcessed, RecordFailure, Touched
<1>2. QED
  BY <1>1, NothingProceeds DEF CountProcessed, RecordFailure, First, Goes

-----------------------------------------------------------------------------
(* A page that is given up *)

LEMMA LeastOf ==
  ASSUME NEW S, S \subseteq Nat, S # {}
  PROVE  \E x \in S : \A y \in S : x <= y
<1>1. PICK x \in S : \A y \in S : ~ (<<y, x>> \in OpToRel(<, Nat))
  BY NatLessThanWellFounded, WFMin
<1>2. \A y \in S : x <= y
  <2> SUFFICES ASSUME NEW y \in S PROVE x <= y
    OBVIOUS
  <2>1. ~(y < x)
    BY <1>1 DEF OpToRel
  <2>2. QED
    BY <2>1
<1>3. QED
  BY <1>2

\* The tasks kept of the first n are tasks behind the first one, in order, and
\* all of them that do not come from a page.
Sublist(k, n) ==
  /\ Orderly(listed, k)
  /\ \A x \in Elements(k) : \E i \in 2 .. n : x = todo[i]
  /\ \A i \in 2 .. n : todo[i].page = NoPage => todo[i] \in Elements(k)

LEMMA KeepingOne ==
  ASSUME Orderly(listed, todo), NEW n \in Nat, n \in 2 .. Len(todo), NEW k, Sublist(k, n - 1)
  PROVE  /\ todo[n].page # NoPage => Sublist(k, n)
         /\ Sublist(Append(k, todo[n]), n)
<1>1. /\ todo \in Seq(Tasks) /\ Len(todo) \in Nat /\ DOMAIN todo = 1 .. Len(todo)
      /\ todo[n] \in Tasks
  BY DEF Orderly
<1>2. PICK x : x = todo[n]
  OBVIOUS
<1>3. Orderly(listed, <<x>>) /\ Elements(<<x>>) = {x}
  BY <1>1, <1>2, OneOrderly
<1>4. PICK t : t = <<x>>
  OBVIOUS
<1>5. \A y \in Elements(k) : \E i \in 2 .. (n - 1) : y = todo[i]
  BY DEF Sublist
<1>6. Before(listed, k, t)
  <2> SUFFICES ASSUME NEW y \in Elements(k)
               PROVE  Separate(listed, y, x) /\ y.op \notin Enders
    BY <1>3, <1>4 DEF Before
  <2>1. PICK i \in 2 .. (n - 1) : y = todo[i]
    BY <1>5
  <2>2. i \in DOMAIN todo /\ n \in DOMAIN todo /\ i # n /\ i # Len(todo)
    <3>1. PICK l : l = Len(todo)
      OBVIOUS
    <3>2. l \in Nat /\ n <= l /\ 2 <= n /\ i \in Nat /\ 2 <= i /\ i <= n - 1
      BY <1>1, <2>1, <3>1
    <3>3. i \in 1 .. l /\ n \in 1 .. l /\ i # n /\ i # l
      BY <3>2
    <3>4. QED
      BY <1>1, <3>1, <3>3
  <2>3. QED
    BY <1>2, <2>1, <2>2 DEF Orderly
<1>7. Orderly(listed, k) /\ k \in Seq(Tasks)
  BY DEF Sublist, Orderly
<1>8. Lists(listed, k \o t, Elements(k), Elements(t))
  BY <1>3, <1>4, <1>6, <1>7, ConcatOrderly
<1>9. Append(k, x) = k \o t
  BY <1>1, <1>2, <1>4, <1>7
<1>10. \A y \in Elements(k) : \E i \in 2 .. n : y = todo[i]
  <2> SUFFICES ASSUME NEW y \in Elements(k) PROVE \E i \in 2 .. n : y = todo[i]
    OBVIOUS
  <2>1. PICK i \in 2 .. (n - 1) : y = todo[i]
    BY <1>5
  <2>2. i \in 2 .. n
    OBVIOUS
  <2>3. QED
    BY <2>1, <2>2
<1>11. \E i \in 2 .. n : x = todo[i]
  BY <1>2
<1>12. \A i \in 2 .. n : i = n \/ (todo[i].page = NoPage => todo[i] \in Elements(k))
  <2>1. \A i \in 2 .. n : i = n \/ i \in 2 .. (n - 1)
    OBVIOUS
  <2>2. QED
    BY <2>1 DEF Sublist
<1>13. QED
  BY <1>2, <1>3, <1>4, <1>7, <1>8, <1>9, <1>10, <1>11, <1>12 DEF Lists, Sublist

LEMMA PagesLeftOut ==
  ASSUME Orderly(listed, todo), todo # <<>>
  PROVE  Sublist(WithoutPages, Len(todo))
<1> DEFINE Next1(k, n) == IF todo[n].page = NoPage THEN Append(k, todo[n]) ELSE k
           Upto(f, m) == f = [n \in 1 .. m |-> IF n = 1 THEN <<>> ELSE Next1(f[n - 1], n)]
           Stuck == {m \in Nat \ {0} : \A f : ~Upto(f, m)}
<1>0. Len(todo) \in Nat \ {0}
  BY DEF Orderly
<1>1. \A m \in Nat \ {0} : m \notin Stuck => \E f : Upto(f, m)
  <2> HIDE DEF Upto
  <2>1. QED
    OBVIOUS
<1>2. Stuck = {}
  <2>1. SUFFICES ASSUME Stuck # {} PROVE FALSE
    OBVIOUS
  <2>2. PICK m \in Stuck : \A y \in Stuck : m <= y
    <3>1. Stuck \subseteq Nat
      OBVIOUS
    <3>2. QED
      BY <2>1, <3>1, LeastOf
  <2> HIDE DEF Next1
  <2>3. CASE m = 1
    <3>1. PICK f : f = [n \in 1 .. 1 |-> <<>>]
      OBVIOUS
    <3>2. Upto(f, 1)
      BY <3>1
    <3>3. QED
      BY <2>2, <2>3, <3>2
  <2>4. CASE m # 1
    <3>1. m - 1 \in Nat \ {0} /\ m - 1 \notin Stuck
      <4>1. m \in Nat \ {0}
        BY <2>2
      <4> HIDE DEF Stuck
      <4>2. QED
        BY <2>2, <2>4, <4>1
    <3>2. PICK g : Upto(g, m - 1)
      <4> HIDE DEF Stuck, Upto
      <4>1. QED
        BY <1>1, <3>1
    <3>3. PICK f : f = [n \in 1 .. m |-> IF n = m THEN Next1(g[m - 1], m) ELSE g[n]]
      OBVIOUS
    <3>4. \A n \in 1 .. m : f[n] = IF n = 1 THEN <<>> ELSE Next1(f[n - 1], n)
      <4> SUFFICES ASSUME NEW n \in 1 .. m
                   PROVE  f[n] = IF n = 1 THEN <<>> ELSE Next1(f[n - 1], n)
        OBVIOUS
      <4>1. CASE n = m
        <5>1. f[n - 1] = g[m - 1]
          BY <2>4, <3>1, <3>3, <4>1
        <5>2. QED
          BY <2>4, <3>3, <4>1, <5>1
      <4>2. CASE n # m /\ n # 1
        <5>1. n \in 1 .. (m - 1) /\ f[n] = g[n] /\ f[n - 1] = g[n - 1]
          BY <3>1, <3>3, <4>2
        <5>2. g[n] = Next1(g[n - 1], n)
          BY <3>2, <4>2, <5>1
        <5>3. QED
          BY <4>2, <5>1, <5>2
      <4>3. CASE n # m /\ n = 1
        BY <3>1, <3>2, <3>3, <4>3
      <4>4. QED
        BY <4>1, <4>2, <4>3
    <3>5. Upto(f, m)
      BY <3>3, <3>4
    <3>6. QED
      BY <2>2, <3>5
  <2>5. QED
    BY <2>3, <2>4
<1>3. \E f : Upto(f, Len(todo))
  <2> HIDE DEF Stuck, Upto
  <2>1. QED
    BY <1>0, <1>1, <1>2
<1>4. PICK kept : kept = CHOOSE f : Upto(f, Len(todo))
  OBVIOUS
<1>5. Upto(kept, Len(todo))
  <2> HIDE DEF Upto
  <2>1. QED
    BY <1>3, <1>4
<1>6. WithoutPages = kept[Len(todo)]
  BY <1>4 DEF WithoutPages
<1>7. \A n \in 1 .. Len(todo) : kept[n] = IF n = 1 THEN <<>> ELSE Next1(kept[n - 1], n)
  BY <1>5
<1> HIDE DEF Upto
<1> DEFINE Bad == {n \in 1 .. Len(todo) : ~Sublist(kept[n], n)}
<1>8. Bad = {}
  <2>1. SUFFICES ASSUME Bad # {} PROVE FALSE
    OBVIOUS
  <2>2. PICK n \in Bad : \A y \in Bad : n <= y
    <3>1. Bad \subseteq Nat
      BY <1>0
    <3>2. QED
      BY <2>1, <3>1, LeastOf
  <2>3. n \in 1 .. Len(todo) /\ ~Sublist(kept[n], n)
    OBVIOUS
  <2>4. CASE n = 1
    <3>1. kept[n] = <<>>
      BY <1>7, <2>3, <2>4
    <3>2. \A i \in 2 .. 1 : FALSE
      OBVIOUS
    <3>3. QED
      BY <2>3, <2>4, <3>1, <3>2, EmptyOrderly DEF Sublist
  <2>5. CASE n # 1
    <3>1. n - 1 \in 1 .. Len(todo) /\ ~(n <= n - 1)
      BY <1>0, <2>3, <2>5
    <3>2. n - 1 \notin Bad
      <4> HIDE DEF Bad
      <4>1. QED
        BY <2>2, <3>1
    <3>3. PICK k : k = kept[n - 1]
      OBVIOUS
    <3>4. Sublist(k, n - 1)
      BY <3>1, <3>2, <3>3
    <3>5. (todo[n].page # NoPage => Sublist(k, n)) /\ Sublist(Append(k, todo[n]), n)
      <4>1. n \in Nat /\ n \in 2 .. Len(todo)
        BY <1>0, <2>3, <2>5
      <4>2. QED
        BY <3>4, <4>1, KeepingOne
    <3>6. kept[n] = Next1(k, n)
      BY <1>7, <2>3, <2>5, <3>3
    <3>7. QED
      BY <2>3, <3>5, <3>6
  <2>6. QED
    BY <2>4, <2>5
<1>9. QED
  BY <1>0, <1>6, <1>8

LEMMA RejectionLostKeeps ==
  ASSUME TodoInv, RejectionLost
  PROVE  /\ TodoInv' /\ Covered'
         /\ \A x \in Elements(todo') : x \in Elements(todo) \/ x.op = "fail"
         /\ \A x \in Elements(todo) : x.op = "count" => x \in Elements(todo')
<1>1. PICK x, w, next : x = Simple("fail") /\ w = WithoutPages /\ next = <<x>> \o w
  OBVIOUS
<1>2. x \in Tasks /\ x.op = "fail" /\ x.rec = NoParent
  BY <1>1, SimpleTasks DEF Ops
<1>3. todo # <<>> /\ Moves /\ todo' = next
  BY <1>1 DEF RejectionLost, First
<1>4. Sublist(w, Len(todo))
  BY <1>1, <1>3, PagesLeftOut DEF TodoInv
<1>5. Orderly(listed, w) /\ Elements(w) \subseteq Elements(todo)
  <2>1. DOMAIN todo = 1 .. Len(todo) /\ Len(todo) \in Nat
    BY DEF TodoInv, Orderly
  <2>2. \A i \in 2 .. Len(todo) : todo[i] \in Elements(todo)
    BY <2>1 DEF Elements
  <2>3. \A y \in Elements(w) : \E i \in 2 .. Len(todo) : y = todo[i]
    BY <1>4 DEF Sublist
  <2>4. QED
    BY <1>4, <2>2, <2>3 DEF Sublist
<1>6. \A r \in Records : ~Touches(listed, x, r)
  BY <1>2 DEF Touches, Leads, Stores
<1>7. Orderly(listed, <<x>>) /\ Elements(<<x>>) = {x}
  BY <1>2, OneOrderly
<1>8. PICK s : s = <<x>>
  OBVIOUS
<1>9. Before(listed, s, w)
  BY <1>2, <1>6, <1>7, <1>8 DEF Before, Separate, Enders
<1>10. Lists(listed, s \o w, Elements(s), Elements(w))
  BY <1>5, <1>7, <1>8, <1>9, ConcatOrderly
<1>11. Orderly(listed, next) /\ Elements(next) = {x} \cup Elements(w)
  BY <1>1, <1>7, <1>8, <1>10 DEF Lists
<1>12. \A y \in Elements(next) : Fresh(y)'
  <2>1. listed' = listed /\ since' = since /\ outcome' = outcome
    BY <1>3 DEF Moves
  <2>2. ASSUME NEW y \in Elements(w) PROVE Fresh(y)'
    <3>1. Fresh(y)
      BY <1>5 DEF TodoInv
    <3>2. QED
      BY <2>1, <3>1 DEF Fresh, Stored
  <2>3. Fresh(x)'
    BY <1>2, <1>6, <2>1 DEF Fresh, Subjects, Stores, Touches
  <2>4. QED
    BY <1>11, <2>2, <2>3
<1>13. TodoInv'
  <2>1. Orderly(listed', todo')
    BY <1>3, <1>11 DEF Moves
  <2>2. QED
    BY <1>3, <1>12, <2>1 DEF TodoInv
<1>14. Warned'
  BY <1>2, <1>3, <1>11 DEF Warned
<1>15. \A y \in Elements(todo) : y.op = "count" => y \in Elements(next)
  <2> SUFFICES ASSUME NEW y \in Elements(todo), y.op = "count"
               PROVE  y \in Elements(w)
    BY <1>11
  <2>1. y.page = NoPage
    BY DEF TodoInv, Fresh
  <2>2. PICK i \in DOMAIN todo : y = todo[i]
    BY DEF Elements
  <2>3. DOMAIN todo = 1 .. Len(todo) /\ Len(todo) \in Nat /\ Head(todo) = todo[1]
    BY <1>3 DEF TodoInv, Orderly
  <2>4. i # 1
    BY <2>2, <2>3 DEF RejectionLost, First
  <2>5. i \in 2 .. Len(todo)
    BY <2>2, <2>3, <2>4
  <2>6. QED
    BY <1>4, <2>1, <2>2, <2>5 DEF Sublist
<1>16. QED
  BY <1>2, <1>3, <1>5, <1>11, <1>13, <1>14, <1>15 DEF Covered

-----------------------------------------------------------------------------
(* The list of tasks in every step *)

Executing ==
  Reading \/ Upserting \/ CountProcessed \/ RecordFailure \/ RejectionKept

\* The run is over, or its execution stops.
Stops ==
  /\ todo # <<>> /\ todo' = <<>>
  /\ UNCHANGED <<providerVars, dataVars, run, since, safe, counted, tallied, outcome, products>>
  /\ \/ UNCHANGED <<status, failed>>
     \/ Owned /\ status' = "failed" /\ failed' = TRUE
     \/ First("finalize") /\ Owned /\ status' = FinalStatus /\ UNCHANGED failed

LEMMA NextSteps ==
  ASSUME Next
  PROVE  \/ \E r \in Records : Change(r)
         \/ \E t \in Transactions, a \in Accounts : Relist(t, a)
         \/ Begin \/ Recover \/ Executing \/ RejectionLost \/ Stops
<1>1. CASE RecordRejection
  BY <1>1 DEF RecordRejection, RejectionKept, RejectionLost, Executing
<1>2. CASE Abandon \/ ClaimLost \/ FailGeneral \/ Finalize
  BY <1>2 DEF Abandon, ClaimLost, FailGeneral, Finalize, Stops, First
<1>3. QED
  BY <1>1, <1>2 DEF Next, Executing, Reading, Upserting

LEMMA ExecutingProceeds ==
  ASSUME TypeInv, TodoInv, Executing
  PROVE  Proceeds
<1>1. CASE Reading
  BY <1>1, EveryReadReads, ReadsProceed
<1>2. CASE Upserting
  <2>1. Upserts /\ todo # <<>> /\ Owned
    BY <1>2, UpsertingUpserts
  <2>2. QED
    BY <2>1, ReadsProceed, StoresProceed DEF Upserts
<1>3. QED
  BY <1>1, <1>2, WritesProceed, RejectionKeptProceeds DEF Executing

LEMMA TodoStep ==
  ASSUME TypeInv, TodoInv, Covered, [Next]_vars
  PROVE  TodoInv' /\ Covered'
<1>1. CASE Executing
  BY <1>1, ExecutingProceeds, ProceedingKeeps
<1>2. CASE RejectionLost
  BY <1>2, RejectionLostKeeps
<1>3. ASSUME UNCHANGED <<listed, since, outcome, todo, row, failed, products>>,
             status' = status \/ status' # "in_progress"
      PROVE  TodoInv' /\ Covered'
  <2>1. TodoInv'
    <3>1. Orderly(listed', todo')
      BY <1>3 DEF TodoInv
    <3>2. \A x \in Elements(todo) : Fresh(x)'
      <4>1. ASSUME NEW x \in Elements(todo) PROVE Fresh(x)'
        <5>1. Fresh(x)
          BY DEF TodoInv
        <5>2. QED
          BY <1>3, <5>1 DEF Fresh, Stored
      <4>2. QED
        BY <4>1
    <3>3. QED
      BY <1>3, <3>1, <3>2 DEF TodoInv
  <2>2. Covered'
    <3>1. Due' = Due
      BY <1>3, DueStays
    <3>2. QED
      BY <1>3, <3>1 DEF Covered, Warned, Done, Stored
  <2>3. QED
    BY <2>1, <2>2
<1>4. ASSUME todo' = <<>>
      PROVE  TodoInv' /\ Covered'
  <2>1. Orderly(listed', todo') /\ Elements(todo') = {}
    BY <1>4, EmptyOrderly
  <2>2. QED
    BY <1>4, <2>1 DEF TodoInv, Covered
<1>5. CASE \E r \in Records : Change(r)
  BY <1>3, <1>5 DEF Change
<1>6. CASE \E t \in Transactions, a \in Accounts : Relist(t, a)
  BY <1>4, <1>6 DEF Relist
<1>7. CASE Recover
  <2>2. TodoInv'
    <3>1. Orderly(listed', todo')
      BY <1>7 DEF TodoInv, Recover
    <3>2. ASSUME NEW x \in Elements(todo) PROVE Fresh(x)'
      <4>1. Fresh(x)
        BY DEF TodoInv
      <4>2. QED
        BY <1>7, <4>1 DEF Fresh, Stored, Recover
    <3>3. QED
      BY <1>7, <3>1, <3>2 DEF TodoInv, Recover
  <2>3. QED
    BY <1>7, <2>2 DEF Covered, Recover
<1>8. CASE Begin
  <2>1. PICK x : x = Simple("item")
    OBVIOUS
  <2>2. x \in Tasks /\ x.op = "item" /\ x.rec = NoParent
    BY <2>1, SimpleTasks DEF Ops
  <2>3. todo' = <<x>> /\ outcome' = [r \in Records |-> "none"] /\ listed' = listed
    BY <1>8, <2>1 DEF Begin
  <2>4. Orderly(listed', todo') /\ Elements(todo') = {x}
    BY <2>2, <2>3, OneOrderly
  <2>5. Fresh(x)'
    BY <2>2, <2>3 DEF Fresh, Subjects, Stores
  <2>6. TodoInv'
    BY <2>4, <2>5 DEF TodoInv
  <2>7. Covered'
    BY <2>2, <2>4 DEF Covered, Leads
  <2>8. QED
    BY <2>6, <2>7
<1>9. CASE Stops
  BY <1>4, <1>9 DEF Stops
<1>10. CASE UNCHANGED vars
  BY <1>3, <1>10
<1>11. QED
  BY <1>1, <1>2, <1>5, <1>6, <1>7, <1>8, <1>9, <1>10, NextSteps

-----------------------------------------------------------------------------
(* The state of the run in every step *)

LEMMA ReadingTypes ==
  ASSUME TypeInv, Reading
  PROVE  products' \subseteq Products
BY DEF TypeInv, Reading, GetSource, UpdateSourceName, GetAccounts, ReadPage, GetBills,
       GetInvestments, RecordSyncedQuotes, GetMovements

LEMMA MovesTypes ==
  ASSUME TypeInv, Moves, products' \subseteq Products
  PROVE  TypeInv'
BY DEF TypeInv, Moves

LEMMA StoresTypes ==
  ASSUME TypeInv, TodoInv, StoresOn
  PROVE  TypeInv'
<1>1. Storing
  BY DEF StoresOn
<1>2. /\ row' \in [Records -> Versions] /\ outcome' \in [Records -> Outcomes]
      /\ version \in Versions
  BY <1>1, StoringRecord
<1>3. hooked' \in [Transactions -> Versions]
  BY <1>2 DEF StoresOn, TypeInv
<1>4. counted' \in Nat
  BY DEF StoresOn, TypeInv
<1>5. QED
  BY <1>1, <1>2, <1>3, <1>4 DEF Storing, TypeInv

LEMMA TypeStep ==
  ASSUME TypeInv, TodoInv, [Next]_vars
  PROVE  TypeInv'
<1>1. CASE Reading
  BY <1>1, EveryReadReads, ReadingTypes, MovesTypes
<1>2. CASE Upserting
  <2>1. Upserts
    BY <1>2, UpsertingUpserts
  <2>2. CASE Moves /\ UNCHANGED products
    BY <2>2, MovesTypes DEF TypeInv
  <2>3. CASE StoresOn
    BY <2>3, StoresTypes
  <2>4. QED
    BY <2>1, <2>2, <2>3 DEF Upserts
<1>3. CASE CountProcessed \/ RecordFailure
  <2>1. tallied \in Nat /\ failed \in BOOLEAN
    BY DEF TypeInv
  <2>2. tallied' \in Nat
    <3>1. tallied' = tallied + 1 \/ tallied' = tallied
      BY <1>3 DEF CountProcessed, RecordFailure
    <3>2. QED
      BY <2>1, <3>1
  <2>3. failed' \in BOOLEAN
    BY <1>3, <2>1 DEF CountProcessed, RecordFailure
  <2>4. UNCHANGED <<offer, listed, row, hooked, run, products, counted, outcome, since>>
    BY <1>3 DEF CountProcessed, RecordFailure
  <2>5. QED
    BY <2>2, <2>3, <2>4 DEF TypeInv
<1>4. CASE RejectionKept
  <2>1. outcome' \in [Records -> Outcomes]
    BY <1>4 DEF RejectionKept, TypeInv, Outcomes
  <2>2. QED
    BY <1>4, <2>1 DEF RejectionKept, TypeInv
<1>5. CASE RejectionLost
  BY <1>5, MovesTypes DEF RejectionLost, TypeInv
<1>6. CASE \E r \in Records : Change(r)
  <2>1. PICK r \in Records : Change(r)
    BY <1>6
  <2>2. offer' = [offer EXCEPT ![r] = @ + 1] /\ offer[r] < MaxVersion
    BY <2>1 DEF Change
  <2>3. offer' \in [Records -> Versions] /\ \A q \in Records : offer'[q] >= offer[q]
    BY <2>2, IngestAssumption DEF TypeInv, Versions
  <2>4. \A q \in Records : since[q] <= offer'[q] /\ offer'[q] >= 1
    BY <2>3 DEF TypeInv, Versions
  <2>5. QED
    BY <2>1, <2>3, <2>4 DEF Change, TypeInv
<1>7. CASE \E t \in Transactions, a \in Accounts : Relist(t, a)
  BY <1>7 DEF Relist, TypeInv
<1>8. CASE Begin
  <2>1. run' \in Nat
    <3>1. run \in Nat
      BY DEF TypeInv
    <3>2. run' = run + 1
      BY <1>8 DEF Begin
    <3>3. QED
      BY <3>1, <3>2
  <2>2. /\ products' \subseteq Products /\ failed' \in BOOLEAN
        /\ counted' \in Nat /\ tallied' \in Nat
    BY <1>8 DEF Begin
  <2>3. outcome' \in [Records -> Outcomes]
    BY <1>8 DEF Begin, Outcomes
  <2>4. UNCHANGED <<offer, listed, row, hooked>> /\ since' = offer
    BY <1>8 DEF Begin
  <2>5. \A q \in Records : since'[q] <= offer'[q] /\ offer'[q] >= 1
    BY <2>4 DEF TypeInv, Versions
  <2>6. QED
    BY <2>1, <2>2, <2>3, <2>4, <2>5 DEF TypeInv
<1>9. CASE Recover \/ Stops
  BY <1>9 DEF Recover, Stops, TypeInv
<1>10. CASE UNCHANGED vars
  BY <1>10 DEF TypeInv
<1>11. QED
  BY <1>1, <1>2, <1>3, <1>4, <1>5, <1>6, <1>7, <1>8, <1>9, <1>10, NextSteps DEF Executing

LEMMA HookStep ==
  ASSUME TypeInv, TodoInv, HookFollowsRow, [Next]_vars
  PROVE  HookFollowsRow'
<1>1. ASSUME UNCHANGED <<row, hooked>>
      PROVE  HookFollowsRow'
  BY <1>1 DEF HookFollowsRow
<1>2. CASE StoresOn
  <2>1. Storing
    BY <1>2 DEF StoresOn
  <2>2. /\ row'[rec] = version
        /\ \A r \in Records \ {rec} : row'[r] = row[r]
    BY <2>1, StoringRecord
  <2>3. hooked' = IF rec \in Transactions /\ row[rec] # version
                  THEN [hooked EXCEPT ![rec] = version] ELSE hooked
    BY <1>2 DEF StoresOn
  <2>4. Transactions \subseteq Records
    BY DEF Records, Children
  <2>5. QED
    BY <2>2, <2>3, <2>4 DEF HookFollowsRow, TypeInv
<1>3. CASE Upserting
  <2>1. Upserts
    BY <1>3, UpsertingUpserts
  <2>2. QED
    BY <1>1, <1>2, <2>1 DEF Upserts, Moves
<1>4. CASE Reading
  BY <1>1, <1>4, EveryReadReads DEF Moves
<1>5. CASE ~Upserting /\ ~Reading
  BY <1>1, <1>5, NextSteps
  DEF Change, Relist, Begin, Recover, Executing, CountProcessed, RecordFailure,
      RejectionKept, RejectionLost, Moves, Stops
<1>6. QED
  BY <1>3, <1>4, <1>5

LEMMA ExecutingOwned ==
  ASSUME TypeInv, TodoInv, Executing
  PROVE  Owned /\ status' = status
<1>1. CASE Reading
  BY <1>1, EveryReadReads DEF Moves
<1>2. CASE Upserting
  BY <1>2, UpsertingUpserts DEF Upserts, Moves, StoresOn, Storing
<1>3. CASE CountProcessed \/ RecordFailure \/ RejectionKept
  BY <1>3 DEF CountProcessed, RecordFailure, RejectionKept
<1>4. QED
  BY <1>1, <1>2, <1>3 DEF Executing

\* A step to "completed" is one that finalizes.
LEMMA CompletingFinalizes ==
  ASSUME TypeInv, TodoInv, [Next]_vars, status = "in_progress", status' = "completed"
  PROVE  /\ First("finalize") /\ Owned /\ ~failed
         /\ UNCHANGED <<row, parent, listed, outcome, since>>
<1>1. ~Executing
  BY ExecutingOwned
<1>2. Stops
  BY <1>1, NextSteps DEF Change, Relist, Begin, Recover, RejectionLost, Moves
<1>3. QED
  BY <1>2 DEF Stops, FinalStatus

\* Nothing is left that could be due.
LEMMA CompletedStep ==
  ASSUME TypeInv, TodoInv, Covered, [Next]_vars, status = "in_progress", status' = "completed",
         NEW r \in Records, Reached(r)
  PROVE  Stored(r) /\ row[r] >= since[r]
<1>1. todo # <<>> /\ Head(todo).op = "finalize" /\ ~failed
  BY CompletingFinalizes DEF First
<1>2. Tail(todo) = <<>> /\ Elements(todo) = {Head(todo)} \cup Elements(Tail(todo))
  BY <1>1, HeadAndTail DEF TodoInv, Enders
<1>3. Elements(todo) = {Head(todo)}
  BY <1>2, EmptyOrderly
<1>4. ~Warned
  BY <1>1, <1>3 DEF Warned
<1>5. ~Leads(listed, Head(todo), r)
  BY <1>1 DEF Leads, Stores
<1>6. Done(r)
  BY <1>1, <1>3, <1>4, <1>5 DEF Covered, Due
<1>7. QED
  BY <1>6 DEF Done

\* What an execution stores it puts where the provider lists it.
LEMMA PlacedStep ==
  ASSUME TypeInv, TodoInv, Placed, parent \in [Children -> Accounts \cup Holdings \cup {NoParent}],
         [Next]_vars
  PROVE  Placed'
<1>1. ASSUME UNCHANGED <<listed, parent, outcome>>, todo # <<>>
      PROVE  Placed'
  BY <1>1 DEF Placed, Stored
<1>2. ASSUME todo' = <<>>
      PROVE  Placed'
  BY <1>2 DEF Placed
<1>3. CASE Upserting
  <2>1. Upserts /\ todo # <<>>
    BY <1>3, UpsertingUpserts
  <2>2. CASE Moves
    BY <1>1, <2>1, <2>2 DEF Moves
  <2>3. CASE StoresOn /\ ~Moves
    <3>1. /\ \A r \in Records \ {rec} : outcome'[r] = outcome[r]
          /\ rec \in Subjects(Head(todo).op) /\ listed' = listed
      BY <2>3, StoringRecord DEF StoresOn, Storing
    <3>2. Transactions \subseteq Records /\ Transactions \subseteq Children
      BY DEF Records, Children
    <3>3. CASE UpsertTransaction
      <4>1. rec \in Transactions /\ parent' = [parent EXCEPT ![rec] = listed[rec]]
        BY <2>3, <3>1, <3>3 DEF UpsertTransaction, First, Subjects, StoresOn
      <4>2. parent'[rec] = listed[rec] /\ \A t \in Transactions \ {rec} : parent'[t] = parent[t]
        BY <3>2, <4>1
      <4>3. QED
        BY <2>1, <3>1, <3>2, <4>1, <4>2 DEF Placed, Stored
    <3>4. CASE ~UpsertTransaction
      <4>1. rec \notin Transactions /\ \A t \in Transactions : parent'[t] = parent[t]
        BY <1>3, <2>3, <3>1, <3>2, <3>4, IngestAssumption
        DEF Upserting, UpsertAccount, UpsertBill, UpsertInvestment, UpsertMovement, First,
            Subjects, Children
      <4>2. QED
        BY <2>1, <3>1, <3>2, <4>1 DEF Placed, Stored
    <3>5. QED
      BY <3>3, <3>4
  <2>4. QED
    BY <2>1, <2>2, <2>3 DEF Upserts
<1>4. CASE Reading
  BY <1>1, <1>4, EveryReadReads DEF Moves
<1>5. CASE RejectionKept
  <2>1. rec \in Records /\ todo # <<>>
    BY <1>5, HeadFresh DEF RejectionKept, First, Fresh, Subjects, rec
  <2>2. outcome'[rec] = "rejected" /\ \A r \in Records \ {rec} : outcome'[r] = outcome[r]
    BY <1>5, <2>1 DEF RejectionKept, TypeInv
  <2>3. QED
    BY <1>5, <2>1, <2>2 DEF RejectionKept, Placed, Stored, Records, Children
<1>6. CASE CountProcessed \/ RecordFailure \/ RejectionLost
  BY <1>1, <1>6 DEF CountProcessed, RecordFailure, RejectionLost, Moves, First
<1>7. CASE (\E r \in Records : Change(r)) \/ Recover \/ UNCHANGED vars
  BY <1>7 DEF Change, Recover, Placed, Stored
<1>8. CASE (\E t \in Transactions, a \in Accounts : Relist(t, a)) \/ Stops
  BY <1>2, <1>8 DEF Relist, Stops
<1>9. CASE Begin
  BY <1>9 DEF Begin, Placed, Stored, Records, Children
<1>10. QED
  BY <1>3, <1>4, <1>5, <1>6, <1>7, <1>8, <1>9, NextSteps DEF Executing

-----------------------------------------------------------------------------
(* The counters *)

LEMMA FiniteSets ==
  /\ IsFiniteSet(Written) /\ IsFiniteSet(Settled)
  /\ IsFiniteSet(Written') /\ IsFiniteSet(Settled')
<1>1. \A S \in SUBSET Records : IsFiniteSet(S)
  BY IngestAssumption, FS_Subset
<1>2. /\ Written \subseteq Records /\ Written' \subseteq Records
      /\ Settled \subseteq Records /\ Settled' \subseteq Records
  BY DEF Written, Settled, Tallied, Parents, Records
<1>3. QED
  BY <1>1, <1>2

\* The step settles what it leaves behind: nothing new, and less only where the
\* execution stops.
LEMMA SettledSame ==
  ASSUME TypeInv, CountInv, tallied' = tallied, counted' = Cardinality(Written'),
         Settled \subseteq Settled', todo' # <<>> => todo # <<>> /\ Settled' = Settled
  PROVE  CountInv'
<1>1. PICK S, T : S = Settled /\ T = Settled'
  OBVIOUS
<1>2. IsFiniteSet(S) /\ IsFiniteSet(T) /\ S \in SUBSET T
  BY <1>1, FiniteSets
<1>3. Cardinality(S) <= Cardinality(T) /\ Cardinality(S) \in Nat /\ Cardinality(T) \in Nat
  BY <1>2, FS_Subset, FS_CardinalityType
<1>4. tallied \in Nat /\ tallied <= Cardinality(S) /\ (todo # <<>> => tallied = Cardinality(S))
  BY <1>1 DEF TypeInv, CountInv
<1>5. tallied' <= Cardinality(T) /\ (todo' # <<>> => tallied' = Cardinality(T))
  BY <1>1, <1>3, <1>4
<1>6. QED
  BY <1>1, <1>5 DEF CountInv

\* Nothing is stored or counted.
LEMMA CountsStay ==
  ASSUME TypeInv, CountInv, PendingInv, UNCHANGED <<outcome, counted, tallied, products>>,
         Pending' \subseteq Pending, todo' # <<>> => todo # <<>> /\ Pending' = Pending
  PROVE  CountInv' /\ PendingInv'
<1>1. Written' = Written
  BY DEF Written
<1>2. Tallied' = Tallied
  BY DEF Tallied, Stored, Countable
<1>3. Settled \subseteq Settled' /\ (todo' # <<>> => todo # <<>> /\ Settled' = Settled)
  BY <1>2 DEF Settled
<1>4. counted' = Cardinality(Written')
  BY <1>1 DEF CountInv
<1>5. PendingInv'
  BY DEF PendingInv, Countable
<1>6. QED
  BY <1>3, <1>4, <1>5, SettledSame

LEMMA ReadsCount ==
  ASSUME TypeInv, TodoInv, CountInv, PendingInv, ReadsOn, Moves, todo # <<>>,
         Head(todo).op # "count", UNCHANGED products \/ Head(todo).op = "item"
  PROVE  CountInv' /\ PendingInv'
<1>1. PICK new : Reads(new) /\ Covers(new) /\ todo' = new \o Tail(todo)
  BY DEF ReadsOn
<1>2. Pushes(new) /\ Touched /\ \A x \in Elements(new) : Fresh(x)'
  BY <1>1, ReadsPushes
<1>3. Elements(todo') = Elements(new) \cup Elements(Tail(todo))
  BY <1>1, <1>2, StepKeepsTodo
<1>4. Elements(todo) = {Head(todo)} \cup Elements(Tail(todo)) /\ Head(todo) \in Elements(todo)
  BY HeadAndTail DEF TodoInv
<1>5. \A x \in Elements(new) : x.op # "count"
  BY <1>1 DEF Reads
<1>6. Pending' = Pending
  BY <1>3, <1>4, <1>5 DEF Pending
<1>7. CASE UNCHANGED products
  BY <1>6, <1>7, CountsStay DEF Moves
<1>8. CASE Head(todo).op = "item"
  <2>1. \A r \in Records : outcome[r] = "none" /\ outcome'[r] = "none"
    BY <1>4, <1>8 DEF TodoInv, Fresh, Leads, Moves
  <2>2. Settled = {} /\ Settled' = {} /\ Parents \subseteq Records
    BY <2>1 DEF Settled, Tallied, Stored, Parents, Records
  <2>3. counted' = Cardinality(Written')
    BY DEF Moves, Written, CountInv
  <2>4. Tail(todo) = <<>> /\ Elements(Tail(todo)) = {}
    BY <1>8, HeadAndTail, EmptyOrderly DEF TodoInv, Enders
  <2>5. Pending' = {}
    BY <1>3, <1>5, <2>4 DEF Pending
  <2>6. CountInv'
    BY <2>2, <2>3, SettledSame DEF Moves
  <2>7. QED
    BY <2>5, <2>6 DEF PendingInv
<1>9. QED
  BY <1>7, <1>8

LEMMA StoresCount ==
  ASSUME TypeInv, TodoInv, CountInv, PendingInv, StoresOn
  PROVE  CountInv' /\ PendingInv'
<1>1. PICK new : Remains(new) /\ todo' = new \o Tail(todo) /\ Storing
  BY DEF StoresOn
<1>2. PICK r0 : r0 = rec
  OBVIOUS
<1>3. /\ r0 \in Records /\ outcome[r0] = "none"
      /\ outcome'[r0] \in {"inserted", "updated", "unchanged"}
      /\ outcome'[r0] = "unchanged" <=> row[r0] = version
      /\ \A r \in Records \ {r0} : outcome'[r] = outcome[r]
      /\ Leads(listed, Head(todo), r0)
  BY <1>1, <1>2, StoringRecord
<1>4. todo # <<>> /\ tallied' = tallied
  BY <1>1 DEF Storing
<1>5. PICK head, rest : head = Head(todo) /\ rest = Tail(todo)
  OBVIOUS
<1>6. Elements(rest) \subseteq Elements(todo)
      /\ \A x \in Elements(rest) : Separate(listed, head, x)
  BY <1>4, <1>5, HeadAndTail DEF TodoInv
<1>7. Elements(todo') = Elements(new) \cup Elements(rest)
  <2>1. \A x \in Elements(new), r \in Records :
           Touches(listed, x, r) => Touches(listed, Head(todo), r)
    BY <1>1, <1>2, <1>3 DEF Remains, Touches
  <2>2. Orderly(listed, new) /\ Orderly(listed, rest) /\ (head.op \in Enders => rest = <<>>)
    BY <1>1, <1>4, <1>5, HeadAndTail DEF TodoInv, Remains
  <2>3. Before(listed, new, rest)
    BY <1>1, <1>5, <1>6, <2>1 DEF Before, Separate, Remains
  <2>4. Lists(listed, new \o rest, Elements(new), Elements(rest))
    BY <2>2, <2>3, ConcatOrderly
  <2>5. QED
    BY <1>1, <1>5, <2>4 DEF Lists
<1>8. /\ Pending' \subseteq Pending \cup {r0} /\ Pending \subseteq Pending'
      /\ r0 \in Parents /\ Countable(r0) => r0 \in Pending'
      /\ r0 \in Pending' => Countable(r0)
  <2>1. head.op # "count" /\ Elements(todo) = {head} \cup Elements(rest)
    BY <1>1, <1>4, <1>5, HeadAndTail DEF Storing, Stores, TodoInv
  <2>2. \A x \in Elements(new) : x.op = "count" => x.rec = r0 /\ Countable(r0)
    BY <1>1, <1>2 DEF Remains
  <2>3. r0 \in Parents /\ Countable(r0) => \E x \in Elements(new) : x.op = "count" /\ x.rec = r0
    BY <1>1, <1>2 DEF Remains
  <2>4. r0 \in Pending => Countable(r0)
    BY DEF PendingInv
  <2>5. QED
    BY <1>7, <2>1, <2>2, <2>3, <2>4 DEF Pending
<1>9. Settled' = Settled
  <2>1. products' = products
    BY <1>1 DEF Storing
  <2>2. \A r \in Parents \ {r0} : r \in Settled' <=> r \in Settled
    BY <1>3, <1>8, <2>1 DEF Settled, Tallied, Stored, Countable, Parents, Records
  <2>3. r0 \notin Settled /\ r0 \notin Settled'
    BY <1>3, <1>8, <2>1 DEF Settled, Tallied, Stored, Countable
  <2>4. Settled \subseteq Parents /\ Settled' \subseteq Parents
    BY DEF Settled, Tallied
  <2>5. QED
    BY <2>2, <2>3, <2>4
<1>10. PendingInv'
  BY <1>1, <1>8 DEF PendingInv, Storing, Countable
<1>11. Written' = IF r0 \in Children /\ row[r0] # version THEN Written \cup {r0} ELSE Written
  <2>1. Children \subseteq Records
    BY DEF Records
  <2>2. CASE r0 \in Children /\ row[r0] # version
    BY <1>3, <2>1, <2>2 DEF Written
  <2>3. CASE ~(r0 \in Children /\ row[r0] # version)
    BY <1>3, <2>1, <2>3 DEF Written
  <2>4. QED
    BY <2>2, <2>3
<1>12. r0 \notin Written
  BY <1>3 DEF Written
<1>13. Cardinality(Written \cup {r0}) = Cardinality(Written) + 1
  BY <1>12, FiniteSets, FS_AddElement
<1>14. counted' = Cardinality(Written')
  BY <1>2, <1>11, <1>13 DEF StoresOn, CountInv
<1>15. QED
  BY <1>4, <1>9, <1>10, <1>14, SettledSame

LEMMA CountedCounts ==
  ASSUME TypeInv, TodoInv, CountInv, PendingInv, CountProcessed
  PROVE  CountInv' /\ PendingInv'
<1>1. PICK head, rest, r0 : head = Head(todo) /\ rest = Tail(todo) /\ r0 = head.rec
  OBVIOUS
<1>2. /\ todo # <<>> /\ head.op = "count" /\ todo' = <<>> \o rest /\ tallied' = tallied + 1
      /\ UNCHANGED <<outcome, counted, products>>
  BY <1>1 DEF CountProcessed, First, Goes
<1>3. /\ Elements(todo) = {head} \cup Elements(rest) /\ Orderly(listed, rest)
      /\ \A x \in Elements(rest) : Separate(listed, head, x)
  BY <1>1, <1>2, HeadAndTail DEF TodoInv
<1>4. todo' = rest
  BY <1>2, <1>3 DEF Orderly
<1>5. r0 \in Parents /\ Stored(r0)
  BY <1>1, <1>2, HeadFresh DEF Fresh, Subjects
<1>6. \A x \in Elements(rest) : ~(x.op = "count" /\ x.rec = r0)
  BY <1>1, <1>2, <1>3, <1>5 DEF Separate, Touches, Parents, Records
<1>7. r0 \in Pending /\ Pending' = Pending \ {r0}
  BY <1>1, <1>2, <1>3, <1>4, <1>5, <1>6 DEF Pending
<1>8. Settled' = Settled \cup {r0} /\ r0 \notin Settled
  BY <1>2, <1>5, <1>7 DEF Settled, Tallied, Stored, Countable, PendingInv
<1>9. PICK S, n : S = Settled /\ n = Cardinality(S)
  OBVIOUS
<1>10. IsFiniteSet(S) /\ n \in Nat /\ Cardinality(S \cup {r0}) = n + 1
  BY <1>8, <1>9, FiniteSets, FS_CardinalityType, FS_AddElement
<1>11. Cardinality(Settled') = n + 1
  BY <1>8, <1>9, <1>10
<1>12. tallied \in Nat /\ tallied = n
  BY <1>2, <1>9 DEF TypeInv, CountInv
<1>13. tallied' <= Cardinality(Settled') /\ tallied' = Cardinality(Settled')
  BY <1>2, <1>10, <1>11, <1>12
<1>14. Written' = Written
  BY <1>2 DEF Written
<1>15. PendingInv'
  BY <1>2, <1>7 DEF PendingInv, Countable
<1>16. QED
  BY <1>2, <1>13, <1>14, <1>15 DEF CountInv

LEMMA RejectionCounts ==
  ASSUME TypeInv, TodoInv, CountInv, PendingInv, RejectionKept \/ RecordFailure
  PROVE  CountInv' /\ PendingInv'
<1>1. /\ todo # <<>> /\ todo' = <<>> \o Tail(todo) /\ UNCHANGED <<counted, tallied, products>>
      /\ Head(todo).op # "count"
  BY DEF RejectionKept, RecordFailure, First, Goes
<1>2. PICK rest : rest = Tail(todo)
  OBVIOUS
<1>3. Elements(todo) = {Head(todo)} \cup Elements(rest) /\ Orderly(listed, rest)
  BY <1>1, <1>2, HeadAndTail DEF TodoInv
<1>4. todo' = rest
  BY <1>1, <1>2, <1>3 DEF Orderly
<1>5. Pending' = Pending
  BY <1>1, <1>3, <1>4 DEF Pending
<1>6. CASE outcome' = outcome
  BY <1>1, <1>5, <1>6, CountsStay
<1>7. CASE RejectionKept
  <2>1. rec \in Records /\ outcome[rec] = "none"
    <3>1. Head(todo).op = "reject"
      BY <1>7 DEF RejectionKept, First
    <3>2. Leads(listed, Head(todo), rec) /\ rec \in Records
      BY <1>1, <3>1, HeadFresh DEF Fresh, Subjects, rec, Leads
    <3>3. QED
      BY <1>1, <3>2, HeadFresh DEF Fresh
  <2>2. outcome'[rec] = "rejected" /\ \A r \in Records \ {rec} : outcome'[r] = outcome[r]
    BY <1>7, <2>1 DEF RejectionKept, TypeInv
  <2>3. Children \subseteq Records /\ Parents \subseteq Records
    BY DEF Records, Parents
  <2>4. Written' = Written
    BY <2>1, <2>2, <2>3 DEF Written
  <2>5. Settled' = Settled
    BY <1>1, <1>5, <2>1, <2>2, <2>3 DEF Settled, Tallied, Stored, Countable
  <2>6. PendingInv'
    BY <1>1, <1>5 DEF PendingInv, Countable
  <2>7. counted' = Cardinality(Written')
    BY <1>1, <2>4 DEF CountInv
  <2>8. QED
    BY <1>1, <2>5, <2>6, <2>7, SettledSame
<1>8. QED
  BY <1>6, <1>7 DEF RecordFailure

\* A run is finalized with nothing pending, and counts no more afterwards.
LEMMA CountersStep ==
  ASSUME TypeInv, TodoInv, CountInv, CountersAgree, [Next]_vars
  PROVE  CountersAgree'
<1>1. ASSUME UNCHANGED <<outcome, counted, tallied, products>>,
             status' = status \/ status' \notin {"completed", "completed_with_failures"}
      PROVE  CountersAgree'
  BY <1>1 DEF CountersAgree, Stored
<1>2. ASSUME Owned, status' = status
      PROVE  CountersAgree'
  BY <1>2 DEF CountersAgree, Owned
<1>3. CASE Stops
  <2>1. CASE status' = status \/ status' = "failed"
    BY <1>1, <1>3, <2>1 DEF Stops
  <2>2. CASE First("finalize")
    <3>1. todo # <<>> /\ Head(todo).op = "finalize"
      BY <2>2 DEF First
    <3>2. Tail(todo) = <<>> /\ Elements(todo) = {Head(todo)} \cup Elements(Tail(todo))
      BY <3>1, HeadAndTail DEF TodoInv, Enders
    <3>3. Elements(todo) = {Head(todo)}
      BY <3>2, EmptyOrderly
    <3>4. Pending = {} /\ Settled = Tallied
      BY <3>1, <3>3 DEF Pending, Settled
    <3>5. tallied = Cardinality(Tallied) /\ counted = Cardinality(Written)
      BY <3>1, <3>4 DEF CountInv
    <3>6. UNCHANGED <<outcome, counted, tallied, products>>
      BY <1>3 DEF Stops
    <3>7. Tallied' = Tallied /\ Written' = Written
      BY <3>6 DEF Tallied, Written, Stored, Countable
    <3>8. tallied' = Cardinality(Tallied') /\ counted' = Cardinality(Written')
      BY <3>5, <3>6, <3>7
    <3>9. QED
      BY <3>8 DEF Tallied, Written, Countable, CountersAgree
  <2>3. QED
    BY <1>3, <2>1, <2>2 DEF Stops
<1>4. CASE Executing
  BY <1>2, <1>4, ExecutingOwned
<1>5. CASE Begin
  BY <1>5 DEF Begin, CountersAgree
<1>6. CASE UNCHANGED vars
  BY <1>1, <1>6
<1>7. CASE \E r \in Records : Change(r)
  BY <1>1, <1>7 DEF Change
<1>8. CASE \E t \in Transactions, a \in Accounts : Relist(t, a)
  BY <1>1, <1>8 DEF Relist
<1>9. CASE Recover \/ RejectionLost
  BY <1>1, <1>9 DEF Recover, RejectionLost, Moves
<1>10. QED
  BY <1>3, <1>4, <1>5, <1>6, <1>7, <1>8, <1>9, NextSteps

LEMMA CountStep ==
  ASSUME TypeInv, TodoInv, CountInv, PendingInv, [Next]_vars
  PROVE  CountInv' /\ PendingInv'
<1>1. CASE Reading
  <2>1. Head(todo).op # "count" /\ (UNCHANGED products \/ Head(todo).op = "item")
    BY <1>1 DEF Reading, GetSource, UpdateSourceName, GetAccounts, ReadPage, GetBills,
                GetInvestments, RecordSyncedQuotes, GetMovements, First
  <2>2. QED
    BY <1>1, <2>1, EveryReadReads, ReadsCount
<1>2. CASE Upserting
  <2>1. Head(todo).op # "count"
    BY <1>2 DEF Upserting, UpsertAccount, UpsertTransaction, UpsertBill, UpsertInvestment,
                UpsertMovement, First
  <2>2. QED
    BY <1>2, <2>1, UpsertingUpserts, ReadsCount, StoresCount DEF Upserts
<1>3. CASE CountProcessed \/ RecordFailure \/ RejectionKept
  BY <1>3, CountedCounts, RejectionCounts
<1>4. CASE RejectionLost
  <2>1. /\ \A x \in Elements(todo') : x \in Elements(todo) \/ x.op = "fail"
        /\ \A x \in Elements(todo) : x.op = "count" => x \in Elements(todo')
    BY <1>4, RejectionLostKeeps
  <2>2. Pending' = Pending
    BY <2>1 DEF Pending
  <2>3. QED
    BY <1>4, <2>2, CountsStay DEF RejectionLost, Moves, First
<1>5. ASSUME todo' = todo \/ todo' = <<>>, UNCHANGED <<outcome, counted, tallied, products>>
      PROVE  CountInv' /\ PendingInv'
  <2>1. Pending' \subseteq Pending /\ (todo' # <<>> => todo # <<>> /\ Pending' = Pending)
    <3>1. todo' = <<>> => Elements(todo') = {}
      BY EmptyOrderly
    <3>2. QED
      BY <1>5, <3>1 DEF Pending
  <2>2. QED
    BY <1>5, <2>1, CountsStay
<1>6. CASE \E r \in Records : Change(r)
  BY <1>5, <1>6 DEF Change
<1>7. CASE \E t \in Transactions, a \in Accounts : Relist(t, a)
  BY <1>5, <1>7 DEF Relist
<1>8. CASE Recover \/ Stops
  BY <1>5, <1>8 DEF Recover, Stops
<1>9. CASE UNCHANGED vars
  BY <1>5, <1>9
<1>10. CASE Begin
  <2>1. /\ outcome' = [r \in Records |-> "none"] /\ counted' = 0 /\ tallied' = 0
        /\ todo' = <<Simple("item")>>
    BY <1>10 DEF Begin
  <2>2. Written' = {} /\ Settled' = {}
    BY <2>1 DEF Written, Settled, Tallied, Stored, Parents, Records
  <2>3. Cardinality(Written') = 0 /\ Cardinality(Settled') = 0
    BY <2>2, FS_EmptySet
  <2>4. PICK x : x = Simple("item")
    OBVIOUS
  <2>5. x.op = "item" /\ x \in Tasks
    BY <2>4, SimpleTasks DEF Ops
  <2>6. Elements(todo') = {x}
    BY <2>1, <2>4, <2>5, OneOrderly
  <2>7. Pending' = {}
    BY <2>5, <2>6 DEF Pending
  <2>8. QED
    BY <2>1, <2>3, <2>7 DEF CountInv, PendingInv
<1>11. QED
  BY <1>1, <1>2, <1>3, <1>4, <1>6, <1>7, <1>8, <1>9, <1>10, NextSteps DEF Executing

-----------------------------------------------------------------------------
(* The theorems *)

\* Inv is inductive: the tasks that are left lead to everything that is still to
\* be stored, or a warning is recorded.
THEOREM Inductive == Spec => []Inv
<1>1. Init => Inv
  <2> SUFFICES ASSUME Init PROVE Inv
    OBVIOUS
  <2>1. TypeInv
    <3>1. 0 \in Versions /\ 1 \in Versions
      BY IngestAssumption DEF Versions
    <3>2. /\ offer \in [Records -> Versions] /\ row \in [Records -> Versions]
          /\ hooked \in [Transactions -> Versions] /\ since \in [Records -> Versions]
          /\ \A r \in Records : since[r] <= offer[r] /\ offer[r] >= 1
      BY <3>1 DEF Init
    <3>3. outcome \in [Records -> Outcomes]
      BY DEF Init, Outcomes
    <3>4. listed \in [Transactions -> Accounts] /\ products \subseteq Products
      BY DEF Init
    <3>5. run \in Nat /\ failed \in BOOLEAN /\ counted \in Nat /\ tallied \in Nat
      BY DEF Init
    <3>6. QED
      BY <3>2, <3>3, <3>4, <3>5 DEF TypeInv
  <2>2. Orderly(listed, todo) /\ Elements(todo) = {}
    BY EmptyOrderly DEF Init
  <2>3. TodoInv /\ Covered
    BY <2>2 DEF Init, TodoInv, Covered
  <2>4. CountInv /\ PendingInv
    <3>1. Written = {} /\ Settled = {} /\ Pending = {} /\ counted = 0 /\ tallied = 0
      BY <2>2 DEF Init, Written, Settled, Tallied, Stored, Pending, Parents, Records
    <3>2. Cardinality(Written) = 0 /\ Cardinality(Settled) = 0
      BY <3>1, FS_EmptySet
    <3>3. QED
      BY <3>1, <3>2 DEF CountInv, PendingInv
  <2>5. HookFollowsRow
    BY DEF Init, HookFollowsRow, Records, Children
  <2>6. CountersAgree
    BY DEF Init, CountersAgree
  <2>7. QED
    BY <2>1, <2>3, <2>4, <2>5, <2>6 DEF Inv
<1>2. Inv /\ [Next]_vars => Inv'
  BY TypeStep, TodoStep, HookStep, CountStep, CountersStep DEF Inv
<1>3. QED
  BY <1>1, <1>2, PTL DEF Spec

\* The rest of TypeOK.
RunTypes ==
  /\ parent \in [Children -> Accounts \cup Holdings \cup {NoParent}]
  /\ run <= MaxRuns
  /\ status \in Verdicts \cup {"none", "in_progress"}
  /\ safe \in BOOLEAN

LEMMA RunTypesStep ==
  ASSUME Inv, RunTypes, [Next]_vars
  PROVE  RunTypes'
<1>1. TypeInv /\ TodoInv
  BY DEF Inv
<1>2. ASSUME UNCHANGED <<run, status>>, parent' \in [Children -> Accounts \cup Holdings \cup {NoParent}],
             UNCHANGED safe \/ safe' = TRUE
      PROVE  RunTypes'
  BY <1>2 DEF RunTypes
<1>3. CASE Upserting
  <2>1. Upserts
    BY <1>1, <1>3, UpsertingUpserts
  <2>2. UNCHANGED <<run, status>> /\ (UNCHANGED safe \/ safe' = TRUE)
    BY <2>1 DEF Upserts, Moves, StoresOn, Storing, Upserted
  <2>3. UNCHANGED parent \/ UpsertTransaction \/ UpsertMovement
    BY <1>3 DEF Upserting, UpsertAccount, UpsertBill, UpsertInvestment, Moves
  <2>4. CASE UpsertTransaction /\ ~UNCHANGED parent
    <3>1. parent' = [parent EXCEPT ![rec] = listed[rec]] /\ Head(todo).op = "transaction"
          /\ todo # <<>>
      BY <2>4 DEF UpsertTransaction, Moves, First
    <3>2. rec \in Transactions
      BY <1>1, <3>1, HeadFresh DEF Fresh, Subjects, rec
    <3>3. listed[rec] \in Accounts
      BY <1>1, <3>2 DEF TypeInv
    <3>4. QED
      BY <1>2, <2>2, <3>1, <3>3 DEF RunTypes
  <2>5. CASE UpsertMovement /\ ~UNCHANGED parent
    <3>1. parent' = [parent EXCEPT ![rec] = MovementOf[rec]] /\ Head(todo).op = "movement"
          /\ todo # <<>>
      BY <2>5 DEF UpsertMovement, Moves, First
    <3>2. rec \in Movements
      BY <1>1, <3>1, HeadFresh DEF Fresh, Subjects, rec
    <3>3. MovementOf[rec] \in Holdings
      BY <3>2, IngestAssumption
    <3>4. QED
      BY <1>2, <2>2, <3>1, <3>3 DEF RunTypes
  <2>6. CASE UNCHANGED parent
    BY <1>2, <2>2, <2>6 DEF RunTypes
  <2>7. QED
    BY <2>3, <2>4, <2>5, <2>6
<1>4. ASSUME UNCHANGED <<run, status, parent, safe>>
      PROVE  RunTypes'
  BY <1>4 DEF RunTypes
<1>5. CASE Reading
  BY <1>1, <1>4, <1>5, EveryReadReads DEF Moves
<1>6. CASE CountProcessed \/ RecordFailure \/ RejectionKept \/ RejectionLost
  BY <1>4, <1>6 DEF CountProcessed, RecordFailure, RejectionKept, RejectionLost, Moves
<1>7. CASE (\E r \in Records : Change(r)) \/ \E t \in Transactions, a \in Accounts : Relist(t, a)
  BY <1>4, <1>7 DEF Change, Relist
<1>8. CASE Begin
  <2>1. run \in Nat /\ run < MaxRuns /\ run' = run + 1
    BY <1>1, <1>8 DEF TypeInv, Begin
  <2>2. run' <= MaxRuns
    BY <2>1, IngestAssumption
  <2>3. QED
    BY <1>8, <2>2 DEF RunTypes, Begin
<1>9. CASE Recover \/ Stops
  BY <1>9 DEF RunTypes, Recover, Stops, FinalStatus, Verdicts
<1>10. CASE UNCHANGED vars
  BY <1>4, <1>10
<1>11. QED
  BY <1>3, <1>5, <1>6, <1>7, <1>8, <1>9, <1>10, NextSteps DEF Executing

\* Every variable keeps its type, and no counter exceeds the records there are.
THEOREM TypeCorrect == Spec => []TypeOK
<1>1. Inv /\ RunTypes => TypeOK
  <2> SUFFICES ASSUME Inv, RunTypes PROVE TypeOK
    OBVIOUS
  <2>1. TypeInv /\ CountInv /\ todo \in Seq(Tasks)
    BY DEF Inv, TodoInv, Orderly
  <2>2. run \in 0 .. MaxRuns
    BY <2>1, IngestAssumption DEF TypeInv, RunTypes
  <2>3. \A i \in DOMAIN todo : todo[i] \in Tasks
    BY <2>1
  <2>4. Children \subseteq Records /\ Parents \subseteq Records /\ Written \in SUBSET Children
        /\ Settled \in SUBSET Parents
    BY DEF Records, Parents, Written, Settled, Tallied
  <2>5. IsFiniteSet(Children) /\ IsFiniteSet(Parents)
    BY <2>4, IngestAssumption, FS_Subset
  <2>6. /\ Cardinality(Written) <= Cardinality(Children) /\ Cardinality(Written) \in Nat
        /\ Cardinality(Settled) <= Cardinality(Parents) /\ Cardinality(Settled) \in Nat
        /\ Cardinality(Children) \in Nat /\ Cardinality(Parents) \in Nat
    BY <2>4, <2>5, FiniteSets, FS_Subset, FS_CardinalityType
  <2>7. PICK c, p, w, z : /\ c = Cardinality(Children) /\ p = Cardinality(Parents)
                          /\ w = Cardinality(Written) /\ z = Cardinality(Settled)
    OBVIOUS
  <2>8. counted = w /\ w <= c /\ w \in Nat /\ c \in Nat
    BY <2>1, <2>6, <2>7 DEF CountInv
  <2>9. tallied \in Nat /\ tallied <= z /\ z <= p /\ z \in Nat /\ p \in Nat
    BY <2>1, <2>6, <2>7 DEF CountInv, TypeInv
  <2>10. counted \in 0 .. c /\ tallied \in 0 .. p
    BY <2>8, <2>9
  <2>11. counted \in 0 .. Cardinality(Children) /\ tallied \in 0 .. Cardinality(Parents)
    BY <2>7, <2>10
  <2>12. counted \in 0 .. Cardinality(Children)
         /\ tallied \in 0 .. Cardinality(Accounts \cup Bills \cup Holdings)
    BY <2>11 DEF Parents
  <2>13. QED
    BY <2>1, <2>2, <2>3, <2>12 DEF TypeOK, TypeInv, RunTypes, Tasks
<1>2. Init => RunTypes
  <2> SUFFICES ASSUME Init PROVE RunTypes
    OBVIOUS
  <2>1. run <= MaxRuns
    BY IngestAssumption DEF Init
  <2>2. safe \in BOOLEAN /\ status = "none" /\ parent = [c \in Children |-> NoParent]
    BY DEF Init
  <2>3. QED
    BY <2>1, <2>2 DEF RunTypes
<1>3. QED
  BY <1>1, <1>2, RunTypesStep, Inductive, PTL DEF Spec

\* A run that says "completed" stored every record under the first pages of
\* /accounts and /investments, at a version no older than the one it had when the
\* run began (selectFinalStatus, service.go:52).
THEOREM CompletedIsComplete == Spec => CompletedMeansStored
<1>1. Inv /\ [Next]_vars =>
        (status = "in_progress" /\ status' = "completed" =>
           \A r \in Records : Reached(r) => Stored(r) /\ row[r] >= since[r])
  BY CompletedStep DEF Inv
<1>2. QED
  BY <1>1, Inductive, PTL DEF Spec, CompletedMeansStored

\* A run that completes leaves every transaction it stored under the account that
\* lists it (errAccountMismatch, service.go:616).
THEOREM CompletedInPlace == Spec => CompletedMeansPlaced
<1>1. TypeOK => parent \in [Children -> Accounts \cup Holdings \cup {NoParent}]
  BY DEF TypeOK
<1>2. Init => Placed
  BY DEF Init, Placed
<1>3. Inv /\ TypeOK /\ Placed /\ [Next]_vars => Placed'
  BY <1>1, PlacedStep DEF Inv
<1>4. Inv /\ Placed /\ [Next]_vars =>
        (status = "in_progress" /\ status' = "completed" =>
           \A t \in Transactions : Stored(t) => parent[t] = listed[t])
  BY CompletingFinalizes DEF Inv, Placed, First
<1>5. QED
  BY <1>2, <1>3, <1>4, Inductive, TypeCorrect, PTL DEF Spec, CompletedMeansPlaced

\* Automation and the category passes saw exactly the version that is stored of
\* every transaction (upsertTransaction, service.go:629).
THEOREM NothingUnseen == Spec => []HookFollowsRow
BY Inductive, PTL DEF Inv

\* A finalized run reports what it stored: the records counted behind their own
\* transactions are all counted when it ends, and no other (service.go:587).
THEOREM CountersFollowEvents == Spec => []CountersAgree
BY Inductive, PTL DEF Inv
=============================================================================
