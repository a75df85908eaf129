------------------------- MODULE Investments_proofs -------------------------
(***************************************************************************)
(* Proofs about Investments, for any accounts, operations and amounts: the *)
(* replay judges every book, whatever it computes.                         *)
(***************************************************************************)
EXTENDS Investments, FiniteSetTheorems, WellFoundedInduction, TLAPS

USE DEF vars, bookVars, lineVars

\* A book nothing was entered in replays.
LEMMA EmptyReplays == Replays({})
<1> DEFINE Body(r) == [S \in SUBSET {} |->
                         IF S = {} THEN EmptyBook
                         ELSE ApplyOperation(r[S \ {Latest(S)}], Latest(S))]
           r0 == [S \in SUBSET {} |-> EmptyBook]
           r1 == CHOOSE r : r = Body(r)
<1>1. r0 = Body(r0)
  OBVIOUS
<1>2. r1 = Body(r1)
  BY <1>1
<1>3. r1[{}] = EmptyBook
  BY <1>2
<1>4. ReplayOf({}) = r1[{}]
  BY DEF ReplayOf
<1>5. QED
  BY <1>3, <1>4 DEF Replays, EmptyBook

\* The accounts touched are judged by the commit, the others keep their book.
LEMMA CommitReplays ==
  ASSUME BooksReplay, NEW O, NEW touched, Commit(O, touched),
         \A a \in Manual \ touched : Book(O, a) = Book(ops, a)
  PROVE  BooksReplay'
<1>1. SUFFICES ASSUME NEW a \in Manual PROVE Replays(Book(O, a))
  BY DEF BooksReplay, Commit, Book
<1>2. CASE a \in touched
  BY <1>2 DEF Commit
<1>3. CASE a \notin touched
  BY <1>3 DEF BooksReplay
<1>4. QED
  BY <1>2, <1>3

BookInv == positions \subseteq Positions /\ WithinTheBook

\* What the provider says of a movement is a row of it, always of one account.
Reported == movement \in [Movements -> MovementRow]

LEMMA ReportedAlways == Spec => []Reported
<1>1. \A m \in Movements : Reports[m] \subseteq MovementRow
  BY InvestmentsAssumption
<1>2. Init => Reported
  <2>1. ASSUME Init PROVE Reported
    <3>1. PICK first \in [Movements -> UNION Range(Reports)] :
            movement = first /\ \A m \in Movements : first[m] \in Reports[m]
      BY <2>1 DEF Init
    <3>2. QED
      BY <1>1, <3>1 DEF Reported
  <2>2. QED
    BY <2>1
<1>3. ASSUME Reported, [Next]_vars PROVE Reported'
  <2>1. ASSUME NEW m \in Movements, NEW row \in Reports[m], SyncMovement(m, row) PROVE Reported'
    BY <1>1, <1>3, <2>1 DEF SyncMovement, Reported
  <2>2. CASE UNCHANGED movement
    BY <1>3, <2>2 DEF Reported
  <2>3. OperationNext => UNCHANGED movement
    BY DEF OperationNext, CreateOperations, UpdateOperation, DeleteOperation, CreateTransfer, DeleteTransfer
  <2>4. LinkNext => UNCHANGED movement
    BY DEF LinkNext, CreateReconciliation, ReusePivot, DerivePivot, DeleteReconciliation
  <2>5. BookNext => UNCHANGED movement
    BY DEF BookNext, CreateAccount, DeleteAccount, EnsureIntegratedAccounts, CreatePosition, DeletePosition
  <2>6. LineNext => UNCHANGED movement
    BY DEF LineNext, CreateManual, UpdateManual, DeleteManual, IgnoreLine, ConsiderLine
  <2>7. SyncNext => UNCHANGED movement \/ \E m \in Movements : \E row \in Reports[m] : SyncMovement(m, row)
    BY DEF SyncNext, SyncLine
  <2>8. QED
    BY <1>3, <2>1, <2>2, <2>3, <2>4, <2>5, <2>6, <2>7 DEF Next
<1>4. QED
  BY <1>2, <1>3, PTL DEF Spec

LEMMA InitBook == Init => BookInv /\ BooksReplay
<1>1. ASSUME Init, NEW a \in Manual PROVE Book(ops, a) = {}
  BY <1>1 DEF Init, Book
<1>2. QED
  BY <1>1, EmptyReplays DEF Init, BookInv, WithinTheBook, BooksReplay

\* Undoing links deletes only derived operations, which no hand-kept book has.
LEMMA RemovalKeeps ==
  ASSUME BookInv, BooksReplay, NEW K, RemoveLinks(K), UNCHANGED bookVars
  PROVE  BookInv' /\ BooksReplay'
<1>1. ops' \subseteq ops /\ \A o \in ops : o.source # "synced" => o \in ops'
  BY DEF RemoveLinks
<1>2. BookInv'
  BY <1>1 DEF BookInv, WithinTheBook, Placed
<1>3. ASSUME NEW a \in Manual PROVE Book(ops', a) = Book(ops, a)
  <2>1. \A o \in ops : o.account = a => o.source # "synced"
    BY InvestmentsAssumption DEF BookInv, WithinTheBook, Placed
  <2>2. QED
    BY <2>1, <1>1 DEF Book
<1>4. QED
  BY <1>2, <1>3 DEF BooksReplay

\* Operations that are placed where they belong may replace others, if every
\* account that loses or gains one is judged.
LEMMA ReplacementKeeps ==
  ASSUME BookInv, BooksReplay, NEW Old, NEW New, NEW touched,
         Commit((ops \ Old) \cup New, touched),
         \A o \in New : Placed(o),
         \A o \in Old \cup New : o.account \in touched,
         UNCHANGED bookVars
  PROVE  BookInv' /\ BooksReplay'
<1>1. ops' = (ops \ Old) \cup New
  BY DEF Commit
<1>2. \A o : Placed(o) => Placed(o)'
  BY DEF Placed
<1>3. BookInv'
  BY <1>1, <1>2 DEF BookInv, WithinTheBook
<1>4. ASSUME NEW a \in Manual \ touched
      PROVE  Book((ops \ Old) \cup New, a) = Book(ops, a)
  BY <1>4 DEF Book
<1>5. QED
  BY <1>3, <1>4, CommitReplays

\* No operation changes: the books are as they were.
LEMMA SameOps ==
  ASSUME BooksReplay, UNCHANGED ops
  PROVE  BooksReplay'
BY DEF BooksReplay, Book

\* What the request was checked for places its operation.
LEMMA AcceptablePlaced ==
  ASSUME NEW in, NEW id, Acceptable(in)
  PROVE  Placed(AsOperation(in, id)) /\ AsOperation(in, id).account = in.account
BY DEF Acceptable, AsOperation, Placed

LEMMA CreateOperationsKeeps ==
  ASSUME BookInv, BooksReplay, NEW batch \in Batches, NEW w, CreateOperations(batch, w)
  PROVE  BookInv' /\ BooksReplay'
<1> DEFINE new == [i \in DOMAIN batch |-> AsOperation(batch[i], NextId(ops) + i - 1)]
           touched == {batch[i].account : i \in DOMAIN batch}
<1>1. \A i \in DOMAIN batch : Acceptable(batch[i])
  BY DEF CreateOperations
<1>2. \A o \in Range(new) : \E i \in DOMAIN batch : o = AsOperation(batch[i], NextId(ops) + i - 1)
  BY DEF Range
<1>3. \A o \in Range(new) : Placed(o) /\ o.account \in touched
  BY <1>1, <1>2, AcceptablePlaced
<1>4. Commit((ops \ {}) \cup Range(new), touched)
  BY DEF CreateOperations
<1>5. UNCHANGED bookVars
  BY DEF CreateOperations
<1> HIDE DEF new, touched
<1>6. QED
  BY <1>3, <1>4, <1>5, ReplacementKeeps

LEMMA UpdateOperationKeeps ==
  ASSUME BookInv, BooksReplay, NEW o \in ops, NEW in \in Corrections, UpdateOperation(o, in)
  PROVE  BookInv' /\ BooksReplay'
<1> DEFINE updated == AsOperation(in, o.id)
           Old == {o}
           New == {updated}
           touched == {in.account, o.account}
<1>1. Placed(updated) /\ updated.account = in.account
  BY AcceptablePlaced DEF UpdateOperation
<1>2. Commit((ops \ Old) \cup New, touched) /\ UNCHANGED bookVars
  BY DEF UpdateOperation
<1>3. (\A x \in New : Placed(x)) /\ \A x \in Old \cup New : x.account \in touched
  BY <1>1
<1> HIDE DEF updated, Old, New, touched
<1>4. QED
  BY <1>2, <1>3, ReplacementKeeps

LEMMA DeleteOperationKeeps ==
  ASSUME BookInv, BooksReplay, NEW o \in ops, DeleteOperation(o)
  PROVE  BookInv' /\ BooksReplay'
<1> DEFINE Old == {o}
           New == {}
           touched == {o.account}
<1>1. Commit((ops \ Old) \cup New, touched) /\ UNCHANGED bookVars
  BY DEF DeleteOperation
<1>2. (\A x \in New : Placed(x)) /\ \A x \in Old \cup New : x.account \in touched
  OBVIOUS
<1> HIDE DEF Old, New, touched
<1>3. QED
  BY <1>1, <1>2, ReplacementKeeps

LEMMA CreateTransferKeeps ==
  ASSUME BookInv, BooksReplay, NEW p \in positions, NEW to \in positions, NEW q, NEW d,
         CreateTransfer(p, to, q, d)
  PROVE  BookInv' /\ BooksReplay'
<1> DEFINE none == {}
           legs == {Leg("transfer_out", p, NextId(ops), q, d), Leg("transfer_in", to, NextId(ops) + 1, q, d)}
           touched == {p[1], to[1]}
<1>1. ASSUME NEW x \in positions, NEW kind, NEW id
      PROVE  Placed(Leg(kind, x, id, q, d)) /\ Leg(kind, x, id, q, d).account = x[1]
  <2>1. x[1] \in accounts /\ x[1] \notin Integrated
    BY InvestmentsAssumption DEF BookInv, WithinTheBook, Positions
  <2>2. QED
    BY <2>1 DEF Leg, Placed
<1>2. (\A o \in legs : Placed(o)) /\ \A o \in none \cup legs : o.account \in touched
  BY <1>1
<1>3. Commit((ops \ none) \cup legs, touched) /\ UNCHANGED bookVars
  BY DEF CreateTransfer
<1> HIDE DEF none, legs, touched
<1>4. QED
  BY <1>2, <1>3, ReplacementKeeps

LEMMA DeleteTransferKeeps ==
  ASSUME BookInv, BooksReplay, NEW t, DeleteTransfer(t)
  PROVE  BookInv' /\ BooksReplay'
<1> DEFINE legs == {o \in ops : o.transfer = t}
           none == {}
           touched == {o.account : o \in legs}
<1>1. Commit((ops \ legs) \cup none, touched) /\ UNCHANGED bookVars
  BY DEF DeleteTransfer
<1>2. (\A o \in none : Placed(o)) /\ \A o \in legs \cup none : o.account \in touched
  OBVIOUS
<1> HIDE DEF legs, none, touched
<1>3. QED
  BY <1>1, <1>2, ReplacementKeeps

LEMMA CreatePositionKeeps ==
  ASSUME BookInv, BooksReplay, NEW p \in Positions, NEW opening \in Openings, CreatePosition(p, opening)
  PROVE  BookInv' /\ BooksReplay'
<1> DEFINE units == IF opening.quantity > 0 THEN opening.quantity ELSE 1
           initial == [account |-> p[1], position |-> p, kind |-> "initial_balance", day |-> opening.day,
                       amount |-> opening.total, quantity |-> units, extra |-> 0]
<1> PICK o : o = AsOperation(initial, NextId(ops))
  OBVIOUS
<1>1. p[1] \in Manual /\ p[1] \notin Integrated /\ p[1] \in accounts
  BY InvestmentsAssumption DEF CreatePosition, Positions
<1>2. positions' = positions \cup {p} /\ accounts' = accounts
  BY DEF CreatePosition
<1>3. \A x : Placed(x) => Placed(x)'
  BY <1>2 DEF Placed
<1>4. Placed(o)' /\ o.account = p[1]
  BY <1>1, <1>2 DEF Placed, AsOperation
<1>5. ops' = ops \/ (ops' = ops \cup {o} /\ Commit(ops \cup {o}, {p[1]}))
  BY DEF CreatePosition, Commit
<1>6. BookInv'
  BY <1>1, <1>2, <1>3, <1>4, <1>5 DEF BookInv, WithinTheBook
<1>7. CASE ops' = ops
  BY <1>6, <1>7, SameOps
<1>8. CASE ops' = ops \cup {o} /\ Commit(ops \cup {o}, {p[1]})
  <2>1. ASSUME NEW a \in Manual \ {p[1]} PROVE Book(ops \cup {o}, a) = Book(ops, a)
    BY <2>1, <1>4 DEF Book
  <2>2. BooksReplay'
    BY <2>1, <1>8, CommitReplays
  <2>3. QED
    BY <2>2, <1>6
<1>9. QED
  BY <1>5, <1>7, <1>8

\* A derived operation is in the account of its connection.
LEMMA DerivePivotKeeps ==
  ASSUME BookInv, BooksReplay, Reported, NEW w \in Wanted, DerivePivot(w)
  PROVE  BookInv' /\ BooksReplay'
<1> PICK o : o = PivotOf(w.movement)
  OBVIOUS
<1>1. w.movement \in Movements
  BY DEF DerivePivot, Wanted
<1>2. movement[w.movement].account \in Integrated
  BY <1>1 DEF Reported, MovementRow
<1>3. o.account = movement[w.movement].account /\ o.position = None /\ o.kind \in Reconcilable
  BY DEF PivotOf, Reconcilable
<1>4. /\ ops' = ops \cup {o}
      /\ accounts' = accounts \cup {movement[w.movement].account}
      /\ positions' = positions
  BY DEF DerivePivot
<1>5. \A x : Placed(x) => Placed(x)'
  BY <1>4 DEF Placed
<1>6. Placed(o)'
  BY <1>2, <1>3, <1>4 DEF Placed
<1>7. BookInv'
  BY <1>4, <1>5, <1>6 DEF BookInv, WithinTheBook
<1>8. ASSUME NEW a \in Manual PROVE Book(ops', a) = Book(ops, a)
  BY <1>2, <1>3, <1>4, InvestmentsAssumption DEF Book
<1>9. QED
  BY <1>7, <1>8 DEF BooksReplay

LEMMA DeleteAccountKeeps ==
  ASSUME BookInv, BooksReplay, NEW a \in Manual, DeleteAccount(a)
  PROVE  BookInv' /\ BooksReplay'
<1>1. ops' = ops /\ positions' = positions /\ accounts' = accounts \ {a}
  BY DEF DeleteAccount
<1>2. \A p \in positions : p[1] \in accounts'
  BY <1>1 DEF DeleteAccount, BookInv, WithinTheBook
<1>3. \A o \in ops : Placed(o)'
  BY <1>1 DEF DeleteAccount, Book, BookInv, WithinTheBook, Placed
<1>4. QED
  BY <1>1, <1>2, <1>3, SameOps DEF BookInv, WithinTheBook

LEMMA DeletePositionKeeps ==
  ASSUME BookInv, BooksReplay, NEW p \in positions, DeletePosition(p)
  PROVE  BookInv' /\ BooksReplay'
<1>1. ops' = ops /\ positions' = positions \ {p} /\ accounts' = accounts
  BY DEF DeletePosition
<1>2. \A o \in ops : Placed(o)'
  BY <1>1 DEF DeletePosition, BookInv, WithinTheBook, Placed
<1>3. QED
  BY <1>1, <1>2, SameOps DEF BookInv, WithinTheBook

\* New accounts take nothing from anything.
LEMMA NewAccountsKeep ==
  ASSUME BookInv, BooksReplay, accounts \subseteq accounts', UNCHANGED <<positions, ops>>
  PROVE  BookInv' /\ BooksReplay'
<1>1. \A o : Placed(o) => Placed(o)'
  BY DEF Placed
<1>2. QED
  BY <1>1, SameOps DEF BookInv, WithinTheBook

\* No hand-kept account ever holds operations its replay would refuse, and
\* the operations derived from movements stay outside those accounts.
THEOREM BooksInvariant == Spec => [](BookInv /\ BooksReplay)
<1>1. ASSUME BookInv, BooksReplay, Reported, [Next]_vars
      PROVE  BookInv' /\ BooksReplay'
  <2>1. ASSUME OperationNext PROVE BookInv' /\ BooksReplay'
    BY <1>1, <2>1, CreateOperationsKeeps, UpdateOperationKeeps, DeleteOperationKeeps,
       CreateTransferKeeps, DeleteTransferKeeps DEF OperationNext
  <2>2. ASSUME LinkNext PROVE BookInv' /\ BooksReplay'
    <3>1. ASSUME NEW o \in ops, NEW w \in Wanted, CreateReconciliation(o, w)
          PROVE  BookInv' /\ BooksReplay'
      BY <1>1, <3>1, NewAccountsKeep DEF CreateReconciliation
    <3>2. ASSUME NEW w \in Wanted, ReusePivot(w) PROVE BookInv' /\ BooksReplay'
      BY <1>1, <3>2, NewAccountsKeep DEF ReusePivot
    <3>3. ASSUME NEW k \in links, DeleteReconciliation(k) PROVE BookInv' /\ BooksReplay'
      BY <1>1, <3>3, RemovalKeeps DEF DeleteReconciliation
    <3>4. QED
      BY <1>1, <2>2, <3>1, <3>2, <3>3, DerivePivotKeeps DEF LinkNext
  <2>3. ASSUME BookNext PROVE BookInv' /\ BooksReplay'
    <3>1. ASSUME NEW a \in Manual, CreateAccount(a) PROVE BookInv' /\ BooksReplay'
      BY <1>1, <3>1, NewAccountsKeep DEF CreateAccount
    <3>2. ASSUME EnsureIntegratedAccounts PROVE BookInv' /\ BooksReplay'
      BY <1>1, <3>2, NewAccountsKeep DEF EnsureIntegratedAccounts
    <3>3. QED
      BY <1>1, <2>3, <3>1, <3>2, DeleteAccountKeeps, CreatePositionKeeps, DeletePositionKeeps
      DEF BookNext
  <2>4. ASSUME LineNext PROVE BookInv' /\ BooksReplay'
    <3>1. ASSUME NEW l \in Lines, IgnoreLine(l) PROVE BookInv' /\ BooksReplay'
      BY <1>1, <3>1, RemovalKeeps DEF IgnoreLine
    <3>2. ASSUME UNCHANGED <<accounts, positions, ops>> PROVE BookInv' /\ BooksReplay'
      BY <1>1, <3>2, NewAccountsKeep
    <3>3. QED
      BY <2>4, <3>1, <3>2 DEF LineNext, CreateManual, UpdateManual, DeleteManual, ConsiderLine
  <2>5. ASSUME SyncNext PROVE BookInv' /\ BooksReplay'
    <3>1. UNCHANGED <<accounts, positions, ops>>
      BY <2>5 DEF SyncNext, SyncLine, SyncMovement
    <3>2. QED
      BY <1>1, <3>1, NewAccountsKeep
  <2>6. ASSUME UNCHANGED vars PROVE BookInv' /\ BooksReplay'
    BY <1>1, <2>6, NewAccountsKeep
  <2>7. QED
    BY <1>1, <2>1, <2>2, <2>3, <2>4, <2>5, <2>6 DEF Next
<1>2. QED
  BY InitBook, ReportedAlways, <1>1, PTL DEF Spec

\* Every hand-kept book replays after any history of requests, whatever the
\* operations carry. (operations.go, mutateLedger)
THEOREM BooksAlwaysReplay == Spec => []BooksReplay
BY BooksInvariant, PTL

\* No operation is ever outside of the account, the position or the kind of
\* book it belongs to. (operations.go, requirePositionOfAccount)
THEOREM OperationsStayHome == Spec => []WithinTheBook
<1>1. BookInv => WithinTheBook
  BY DEF BookInv
<1>2. QED
  BY BooksInvariant, <1>1, PTL

-----------------------------------------------------------------------------
(* Sums: induction over finite sets, by the smallest counterexample *)

\* A set of natural numbers has its least member.
LEMMA LeastOf ==
  ASSUME NEW S, S \subseteq Nat, S # {}
  PROVE  \E x \in S : \A y \in S : x <= y
<1>1. PICK x \in S : \A y \in S : ~ (<<y, x>> \in OpToRel(<, Nat))
  BY NatLessThanWellFounded, WFMin
<1>2. \A y \in S : x <= y
  <2> SUFFICES ASSUME NEW y \in S PROVE x <= y
    OBVIOUS
  <2>1. ~(y < x)
    BY <1>1 DEF OpToRel
  <2>2. QED
    BY <2>1
<1>3. QED
  BY <1>2

\* Of finite sets, one has the fewest elements.
LEMMA SmallestOf ==
  ASSUME NEW F, F # {}, \A S \in F : IsFiniteSet(S)
  PROVE  \E S \in F : \A T \in F : Cardinality(S) <= Cardinality(T)
<1> DEFINE N == {Cardinality(S) : S \in F}
<1>1. N \subseteq Nat /\ N # {}
  BY FS_CardinalityType
<1>2. PICK n \in N : \A y \in N : ~ (<<y, n>> \in OpToRel(<, Nat))
  BY <1>1, NatLessThanWellFounded, WFMin
<1>3. \A y \in N : n <= y
  <2> SUFFICES ASSUME NEW y \in N PROVE n <= y
    OBVIOUS
  <2>1. ~(y < n)
    BY <1>1, <1>2 DEF OpToRel
  <2>2. y \in Nat /\ n \in Nat
    BY <1>1, <1>2
  <2> HIDE DEF N
  <2>3. QED
    BY <2>1, <2>2
<1>4. PICK S \in F : n = Cardinality(S)
  BY <1>2
<1>5. \A T \in F : Cardinality(S) <= Cardinality(T)
  BY <1>3, <1>4
<1>6. QED
  BY <1>5

\* Removing an element of a finite set leaves a smaller one.
LEMMA Smaller ==
  ASSUME NEW S, IsFiniteSet(S), NEW x \in S
  PROVE  /\ IsFiniteSet(S \ {x})
         /\ Cardinality(S) \in Nat /\ Cardinality(S \ {x}) \in Nat
         /\ Cardinality(S \ {x}) = Cardinality(S) - 1
         /\ ~ (Cardinality(S) <= Cardinality(S \ {x}))
<1>1. /\ IsFiniteSet(S \ {x}) /\ Cardinality(S \ {x}) = Cardinality(S) - 1
  BY FS_RemoveElement
<1>2. Cardinality(S) \in Nat /\ Cardinality(S \ {x}) \in Nat
  BY <1>1, FS_CardinalityType
<1>3. QED
  BY <1>1, <1>2

\* The element the sum takes next, and what a function must be to sum the
\* subsets of S.
OneOf(s) == CHOOSE k \in s : TRUE
Sums(g, S) == g = [s \in SUBSET S |-> IF s = {} THEN 0 ELSE OneOf(s).amount + g[s \ {OneOf(s)}]]

LEMMA SumsExist ==
  ASSUME NEW S, IsFiniteSet(S)
  PROVE  \E g : Sums(g, S)
<1> DEFINE Turn(g, s) == IF s = {} THEN 0 ELSE OneOf(s).amount + g[s \ {OneOf(s)}]
           Good(g, R) == g = [s \in SUBSET S |-> g[s]] /\ \A s \in SUBSET S : Cardinality(s) <= Cardinality(R) => g[s] = Turn(g, s)
           Bad == {R \in SUBSET S : \A g : ~Good(g, R)}
<1>1. \A R \in SUBSET S : IsFiniteSet(R) /\ Cardinality(R) \in Nat
  BY FS_Subset, FS_CardinalityType
<1>2. Bad = {}
  <2>1. SUFFICES ASSUME Bad # {} PROVE FALSE
    OBVIOUS
  <2>2. PICK R \in Bad : \A T \in Bad : Cardinality(R) <= Cardinality(T)
    BY <1>1, <2>1, SmallestOf
  <2>3. CASE R = {}
    <3>1. PICK g : g = [s \in SUBSET S |-> 0]
      OBVIOUS
    <3>2. ASSUME NEW s \in SUBSET S, Cardinality(s) <= Cardinality(R)
          PROVE  g[s] = Turn(g, s)
      <4>1. s = {}
        BY <1>1, <2>3, <3>2, FS_EmptySet
      <4>2. QED
        BY <3>1, <4>1
    <3>3. g = [s \in SUBSET S |-> g[s]]
      BY <3>1
    <3>4. Good(g, R)
      BY <3>2, <3>3
    <3>5. QED
      BY <2>2, <3>4
  <2>4. CASE R # {}
    <3>1. PICK x \in R : TRUE
      BY <2>4
    <3>2. R \in SUBSET S /\ IsFiniteSet(R)
      BY <1>1, <2>2
    <3>3. PICK T : T = R \ {x}
      OBVIOUS
    <3>4. /\ Cardinality(T) = Cardinality(R) - 1 /\ Cardinality(R) \in Nat /\ Cardinality(T) \in Nat
          /\ ~(Cardinality(R) <= Cardinality(T))
      BY <3>1, <3>2, <3>3, Smaller
    <3>5. T \in SUBSET S /\ T \notin Bad
      BY <2>2, <3>2, <3>3, <3>4
    <3>6. PICK g : Good(g, T)
      <4> HIDE DEF Good
      <4>1. QED
        BY <3>5
    <3>7. PICK h : h = [s \in SUBSET S |-> IF Cardinality(s) <= Cardinality(T) THEN g[s] ELSE Turn(g, s)]
      OBVIOUS
    <3>8. ASSUME NEW s \in SUBSET S, Cardinality(s) <= Cardinality(R)
          PROVE  h[s] = Turn(h, s)
      <4>1. h[s] = Turn(g, s)
        BY <3>6, <3>7
      <4>2. CASE s = {}
        BY <4>1, <4>2
      <4>3. CASE s # {}
        <5>1. OneOf(s) \in s
          BY <4>3 DEF OneOf
        <5>2. PICK u : u = s \ {OneOf(s)}
          OBVIOUS
        <5>3. Cardinality(u) <= Cardinality(T) /\ u \in SUBSET S
          <6>1. Cardinality(u) = Cardinality(s) - 1 /\ Cardinality(s) \in Nat
            BY <1>1, <5>1, <5>2, Smaller
          <6>2. u \in SUBSET S
            BY <5>2
          <6>3. QED
            BY <3>4, <3>8, <6>1, <6>2
        <5>4. h[u] = g[u]
          BY <3>7, <5>3
        <5>5. QED
          BY <4>1, <4>3, <5>2, <5>4
      <4>4. QED
        BY <4>2, <4>3
    <3>9. h = [s \in SUBSET S |-> h[s]]
      BY <3>7
    <3>10. Good(h, R)
      BY <3>8, <3>9
    <3>11. QED
      BY <2>2, <3>10
  <2>5. QED
    BY <2>3, <2>4
<1>3. \A s \in SUBSET S : Cardinality(s) <= Cardinality(S)
  BY FS_Subset
<1>4. PICK g : Good(g, S)
  <2> HIDE DEF Good
  <2>1. QED
    BY <1>2
<1>5. \A s \in SUBSET S : g[s] = Turn(g, s)
  BY <1>3, <1>4
<1>6. g = [s \in SUBSET S |-> Turn(g, s)]
  BY <1>4, <1>5
<1>7. QED
  BY <1>6 DEF Sums

\* Two such functions agree where both are defined.
LEMMA SumsAgree ==
  ASSUME NEW S, NEW T, NEW g, NEW h, Sums(g, S), Sums(h, T), NEW R, R \subseteq S, R \subseteq T, IsFiniteSet(R)
  PROVE  g[R] = h[R]
<1> DEFINE Bad == {Q \in SUBSET R : g[Q] # h[Q]}
<1>1. SUFFICES Bad = {}
  OBVIOUS
<1>2. SUFFICES ASSUME Bad # {} PROVE FALSE
  OBVIOUS
<1>3. \A Q \in SUBSET R : IsFiniteSet(Q)
  BY FS_Subset
<1>4. PICK Q \in Bad : \A U \in Bad : Cardinality(Q) <= Cardinality(U)
  BY <1>2, <1>3, SmallestOf
<1>5. /\ g[Q] = IF Q = {} THEN 0 ELSE OneOf(Q).amount + g[Q \ {OneOf(Q)}]
      /\ h[Q] = IF Q = {} THEN 0 ELSE OneOf(Q).amount + h[Q \ {OneOf(Q)}]
  <2>1. Q \in SUBSET S /\ Q \in SUBSET T
    BY <1>4
  <2>2. QED
    BY <2>1 DEF Sums
<1>6. Q # {}
  BY <1>4, <1>5
<1>7. OneOf(Q) \in Q
  BY <1>6 DEF OneOf
<1>8. Q \ {OneOf(Q)} \in SUBSET R /\ Q \ {OneOf(Q)} \notin Bad
  BY <1>3, <1>4, <1>7, Smaller
<1>9. QED
  BY <1>4, <1>5, <1>8

\* Amount is such a function.
LEMMA AmountSums ==
  ASSUME NEW S, IsFiniteSet(S)
  PROVE  \E g : Sums(g, S) /\ Amount(S) = g[S]
<1> DEFINE g == CHOOSE g : g = [s \in SUBSET S |-> IF s = {} THEN 0 ELSE OneOf(s).amount + g[s \ {OneOf(s)}]]
<1>1. \E h : h = [s \in SUBSET S |-> IF s = {} THEN 0 ELSE OneOf(s).amount + h[s \ {OneOf(s)}]]
  BY SumsExist DEF Sums
<1>2. g = [s \in SUBSET S |-> IF s = {} THEN 0 ELSE OneOf(s).amount + g[s \ {OneOf(s)}]]
  BY <1>1
<1>3. Amount(S) = g[S]
  BY DEF Amount, MapThenSumSet, MapThenFoldSet, OneOf
<1>4. QED
  BY <1>2, <1>3 DEF Sums

LEMMA AmountStep ==
  ASSUME NEW S, IsFiniteSet(S)
  PROVE  Amount(S) = IF S = {} THEN 0 ELSE OneOf(S).amount + Amount(S \ {OneOf(S)})
<1>1. PICK g : Sums(g, S) /\ Amount(S) = g[S]
  BY AmountSums
<1>2. g[S] = IF S = {} THEN 0 ELSE OneOf(S).amount + g[S \ {OneOf(S)}]
  BY <1>1 DEF Sums
<1>3. CASE S = {}
  BY <1>1, <1>2, <1>3
<1>4. CASE S # {}
  <2>1. PICK T : T = S \ {OneOf(S)}
    OBVIOUS
  <2>2. T \subseteq S /\ IsFiniteSet(T)
    BY <2>1, FS_Subset
  <2>3. PICK h : Sums(h, T) /\ Amount(T) = h[T]
    BY <2>2, AmountSums
  <2>4. g[T] = h[T]
    BY <1>1, <2>2, <2>3, SumsAgree
  <2>5. QED
    BY <1>1, <1>2, <1>4, <2>1, <2>3, <2>4
<1>5. QED
  BY <1>3, <1>4

\* The sum of natural numbers is one.
LEMMA AmountType ==
  ASSUME NEW S, IsFiniteSet(S), \A k \in S : k.amount \in Nat
  PROVE  Amount(S) \in Nat
<1> DEFINE Bad == {R \in SUBSET S : Amount(R) \notin Nat}
<1>1. SUFFICES ASSUME Bad # {} PROVE FALSE
  OBVIOUS
<1>2. \A R \in SUBSET S : IsFiniteSet(R)
  BY FS_Subset
<1>3. PICK R \in Bad : \A T \in Bad : Cardinality(R) <= Cardinality(T)
  BY <1>1, <1>2, SmallestOf
<1>4. Amount(R) = IF R = {} THEN 0 ELSE OneOf(R).amount + Amount(R \ {OneOf(R)})
  BY <1>2, <1>3, AmountStep
<1>5. CASE R # {}
  <2>1. OneOf(R) \in R
    BY <1>5 DEF OneOf
  <2>2. R \ {OneOf(R)} \in SUBSET S /\ R \ {OneOf(R)} \notin Bad
    BY <1>2, <1>3, <2>1, Smaller
  <2>3. Amount(R \ {OneOf(R)}) \in Nat /\ OneOf(R).amount \in Nat
    BY <1>3, <2>1, <2>2
  <2>4. QED
    BY <1>3, <1>4, <1>5, <2>3
<1>6. QED
  BY <1>3, <1>4, <1>5

\* Whichever element is taken out, the sum loses its amount.
LEMMA AmountWithout ==
  ASSUME NEW S, IsFiniteSet(S), \A k \in S : k.amount \in Nat, NEW x \in S
  PROVE  Amount(S) = x.amount + Amount(S \ {x})
<1> DEFINE Lost(R) == \A k \in R : Amount(R) = k.amount + Amount(R \ {k})
           Bad == {R \in SUBSET S : ~Lost(R)}
<1>1. SUFFICES ASSUME Bad # {} PROVE FALSE
  OBVIOUS
<1>2. \A R \in SUBSET S : IsFiniteSet(R) /\ Amount(R) \in Nat
  BY FS_Subset, AmountType
<1>3. PICK R \in Bad : \A T \in Bad : Cardinality(R) <= Cardinality(T)
  BY <1>1, <1>2, SmallestOf
<1>4. PICK k \in R : Amount(R) # k.amount + Amount(R \ {k})
  BY <1>3
<1>5. PICK y : y = OneOf(R)
  OBVIOUS
<1>6. y \in R /\ R \in SUBSET S /\ IsFiniteSet(R)
  BY <1>2, <1>3, <1>4, <1>5 DEF OneOf
<1>7. Amount(R) = y.amount + Amount(R \ {y})
  BY <1>4, <1>5, <1>6, AmountStep
<1>8. k # y
  BY <1>4, <1>7
<1>9. R \ {y} \in SUBSET S /\ Lost(R \ {y})
  BY <1>3, <1>6, Smaller
<1>10. R \ {k} \in SUBSET S /\ Lost(R \ {k})
  BY <1>3, <1>4, <1>6, Smaller
<1>11. (R \ {y}) \ {k} = (R \ {k}) \ {y}
  OBVIOUS
<1>12. PICK rest : rest = (R \ {y}) \ {k}
  OBVIOUS
<1>13. Amount(R \ {y}) = k.amount + Amount(rest) /\ Amount(R \ {k}) = y.amount + Amount(rest)
  BY <1>4, <1>6, <1>8, <1>9, <1>10, <1>11, <1>12
<1>14. Amount(rest) \in Nat /\ k.amount \in Nat /\ y.amount \in Nat
  <2>1. rest \in SUBSET S
    BY <1>6, <1>12
  <2>2. QED
    BY <1>2, <1>4, <1>6, <2>1
<1>15. QED
  BY <1>4, <1>7, <1>13, <1>14

LEMMA AmountWith ==
  ASSUME NEW S, IsFiniteSet(S), \A k \in S : k.amount \in Nat, NEW x, x \notin S, x.amount \in Nat
  PROVE  Amount(S \cup {x}) = Amount(S) + x.amount
<1>1. PICK T : T = S \cup {x}
  OBVIOUS
<1>2. IsFiniteSet(T) /\ T \ {x} = S /\ x \in T /\ \A k \in T : k.amount \in Nat
  BY <1>1, FS_AddElement
<1>3. Amount(T) = x.amount + Amount(S)
  BY <1>2, AmountWithout
<1>4. Amount(S) \in Nat
  BY AmountType
<1>5. QED
  BY <1>1, <1>3, <1>4

\* Rows that are found again, one by one, with their amounts, sum to no more.
Matched(A, B) == \A a \in A : \E b \in B : b.id = a.id /\ b.amount = a.amount

LEMMA AmountOfMatched ==
  ASSUME NEW A, NEW B, IsFiniteSet(A), IsFiniteSet(B), \A k \in A \cup B : k.amount \in Nat,
         \A a, c \in A : a.id = c.id => a = c, Matched(A, B)
  PROVE  Amount(A) <= Amount(B)
<1> DEFINE Less(R) == \A D \in SUBSET B : Matched(R, D) => Amount(R) <= Amount(D)
           Bad == {R \in SUBSET A : ~Less(R)}
<1>1. SUFFICES ASSUME Bad # {} PROVE FALSE
  OBVIOUS
<1>2. /\ \A R \in SUBSET A : IsFiniteSet(R) /\ Amount(R) \in Nat
      /\ \A D \in SUBSET B : IsFiniteSet(D) /\ Amount(D) \in Nat
  BY FS_Subset, AmountType
<1>3. PICK R \in Bad : \A T \in Bad : Cardinality(R) <= Cardinality(T)
  BY <1>1, <1>2, SmallestOf
<1>4. PICK D \in SUBSET B : Matched(R, D) /\ ~(Amount(R) <= Amount(D))
  BY <1>3
<1>5. R # {}
  <2>1. ASSUME R = {} PROVE FALSE
    <3>1. Amount(R) = 0
      BY <1>2, <2>1, AmountStep
    <3>2. QED
      BY <1>2, <1>4, <3>1
  <2>2. QED
    BY <2>1
<1>6. PICK a \in R : TRUE
  BY <1>5
<1>7. PICK b \in D : b.id = a.id /\ b.amount = a.amount
  BY <1>4, <1>6 DEF Matched
<1>8. Matched(R \ {a}, D \ {b})
  <2>1. \A c \in R \ {a} : c.id # a.id
    BY <1>3, <1>6
  <2>2. QED
    BY <1>4, <1>7, <2>1 DEF Matched
<1>9. R \ {a} \in SUBSET A /\ Less(R \ {a})
  BY <1>2, <1>3, <1>6, Smaller
<1>10. Amount(R \ {a}) <= Amount(D \ {b})
  BY <1>4, <1>8, <1>9
<1>11. Amount(R) = a.amount + Amount(R \ {a})
  BY <1>2, <1>3, <1>6, AmountWithout
<1>12. Amount(D) = b.amount + Amount(D \ {b})
  BY <1>2, <1>4, <1>7, AmountWithout
<1>13. a.amount \in Nat /\ Amount(R \ {a}) \in Nat /\ Amount(D \ {b}) \in Nat
  BY <1>2, <1>3, <1>4, <1>6, <1>9
<1>14. QED
  BY <1>4, <1>7, <1>10, <1>11, <1>12, <1>13

-----------------------------------------------------------------------------
(* Identities *)

\* The rows of a table have identities within the bound, one each.
Numbered(S) == \A x \in S : x.id \in 1 .. MaxRows
OneId(S) == \A x, y \in S : x.id = y.id => x = y

\* A bounded set of numbers has its greatest member.
LEMMA MaxOf ==
  ASSUME NEW N \in Nat, NEW S, S \subseteq 0 .. N, S # {}
  PROVE  Max(S) \in S /\ \A y \in S : y <= Max(S)
<1> DEFINE U == {n \in Nat : \A y \in S : y <= n}
<1>1. N \in U
  OBVIOUS
<1>2. PICK n \in U : \A y \in U : ~ (<<y, n>> \in OpToRel(<, Nat))
  <2>1. U \subseteq Nat /\ U # {}
    BY <1>1
  <2> HIDE DEF U
  <2>2. QED
    BY <2>1, NatLessThanWellFounded, WFMin
<1>3. \A y \in U : ~ (y < n)
  BY <1>2 DEF OpToRel
<1>4. n \in S
  <2>1. SUFFICES ASSUME n \notin S PROVE FALSE
    OBVIOUS
  <2>2. PICK y \in S : TRUE
    OBVIOUS
  <2>0. (\A z \in S : z \in Nat) /\ n \in Nat /\ \A z \in S : z <= n
    <3>1. \A z \in S : z \in 0 .. N
      OBVIOUS
    <3>2. n \in U
      BY <1>2
    <3>3. n \in Nat /\ \A z \in S : z <= n
      BY <3>2
    <3>4. QED
      BY <3>1, <3>3
  <2>3. \A z \in S : z \in Nat /\ z <= n /\ z # n
    BY <2>0, <2>1
  <2>4. n \in Nat /\ n # 0
    <3>1. y \in Nat /\ y <= n /\ y # n /\ n \in Nat
      BY <2>0, <2>2, <2>3
    <3>2. QED
      BY <3>1
  <2>5. \A z \in S : z <= n - 1
    BY <2>3, <2>4
  <2>6. n - 1 \in U
    BY <2>4, <2>5
  <2>7. QED
    BY <1>3, <2>4, <2>6
<1>5. \E x \in S : \A y \in S : x >= y
  BY <1>2, <1>4
<1>6. \A y \in S : Max(S) >= y /\ Max(S) \in S
  BY <1>5 DEF Max
<1>7. QED
  BY <1>4, <1>6

\* LastId is the greatest identity, so that NextId is a new one.
LEMMA LastIdBounds ==
  ASSUME NEW S, Numbered(S)
  PROVE  LastId(S) \in 0 .. MaxRows /\ \A x \in S : x.id \in 1 .. LastId(S)
<1>1. PICK I : I = {0} \cup {x.id : x \in S}
  OBVIOUS
<1>2. MaxRows \in Nat
  BY InvestmentsAssumption
<1>3. I \subseteq 0 .. MaxRows /\ I # {}
  BY <1>1, <1>2 DEF Numbered
<1>4. Max(I) \in I /\ \A y \in I : y <= Max(I)
  BY <1>2, <1>3, MaxOf
<1>5. LastId(S) = Max(I)
  BY <1>1 DEF LastId
<1>6. \A x \in S : x.id \in I /\ x.id \in 1 .. MaxRows
  BY <1>1 DEF Numbered
<1>7. LastId(S) \in 0 .. MaxRows
  BY <1>3, <1>4, <1>5
<1>8. ASSUME NEW x \in S PROVE x.id \in 1 .. LastId(S)
  <2>1. x.id <= LastId(S) /\ x.id \in 1 .. MaxRows
    BY <1>4, <1>5, <1>6
  <2>2. QED
    BY <1>2, <1>7, <2>1
<1>9. QED
  BY <1>7, <1>8

\* What is numbered within the bound is finite.
LEMMA NumberedFinite ==
  ASSUME NEW S, Numbered(S), OneId(S)
  PROVE  IsFiniteSet(S)
<1>1. PICK f : f = [x \in S |-> x.id]
  OBVIOUS
<1>2. f \in Injection(S, 1 .. MaxRows)
  BY <1>1 DEF Numbered, OneId, Injection, IsInjective
<1>3. IsFiniteSet(1 .. MaxRows)
  BY InvestmentsAssumption, FS_Interval
<1>4. QED
  BY <1>2, <1>3, FS_Injection

-----------------------------------------------------------------------------
(* The links and the transfers of a set of operations *)

Of(L, o) == {k \in L : k.op = o.id}
On(L, l) == {k \in L : k.line = l}

Explains(V, I, R, D, o, k) ==
  /\ o.id = k.op
  /\ o.kind \in Reconcilable
  /\ k.line \notin D \cup {None} => /\ V[k.line] # 0
                                    /\ k.line \notin I
                                    /\ (V[k.line] < 0) <=> (o.kind \in BankOutflow)
  /\ k.movement \notin D \cup {None} => MovementMatches(o, R[k.movement])

\* The legs a and b of the transfer t.
Legs(O, t, a, b) ==
  /\ \A o \in O : o.transfer = t <=> o \in {a, b}
  /\ a.id = t
  /\ a.kind = "transfer_out" /\ b.kind = "transfer_in"
  /\ a.quantity = b.quantity
  /\ a.day = b.day
  /\ a.position[2] = b.position[2]
  /\ a.account # b.account

Rows(O, L) ==
  /\ O \subseteq Operation /\ L \subseteq Link
  /\ OneId(O) /\ OneId(L)
Paired(O) ==
  /\ \A o \in O : o.transfer # 0 => \E a, b \in O : Legs(O, o.transfer, a, b)
  /\ \A o \in O : o.source = "synced" => o.transfer = 0
Explained(O, L, V, I, R, D) == \A k \in L : \E o \in O : Explains(V, I, R, D, o, k)
Capable(O, L, V, D) ==
  /\ \A l \in Lines \ D : Amount(On(L, l)) <= Abs(V[l])
  /\ \A o \in O : Amount(Of(L, o)) <= o.amount
Reachable(O, L) ==
  \A o \in O : o.source = "synced" => \E k \in L : k.op = o.id /\ k.movement # None

Sound(O, L, V, I, R, D) ==
  /\ Rows(O, L)
  /\ V \in [Lines -> LineValues \cup {0}] /\ I \subseteq Lines /\ D \subseteq Lines \cup Movements
  /\ Paired(O)
  /\ Explained(O, L, V, I, R, D)
  /\ Capable(O, L, V, D)

\* What TypeOK and the identities say of operations and links.
LEMMA RowFacts ==
  ASSUME NEW O, NEW L, Rows(O, L)
  PROVE  /\ Numbered(O) /\ Numbered(L)
         /\ IsFiniteSet(O) /\ IsFiniteSet(L)
         /\ \A o \in O : o.amount \in Nat /\ o.id \in 1 .. MaxRows /\ o.transfer \in 0 .. MaxRows
         /\ \A k \in L : k.amount \in Nat /\ k.id \in 1 .. MaxRows
<1>1. \A o \in O : o.amount \in Nat /\ o.id \in 1 .. MaxRows /\ o.transfer \in 0 .. MaxRows
  BY DEF Rows, Operation
<1>2. \A k \in L : k.amount \in Nat /\ k.id \in 1 .. MaxRows
  BY InvestmentsAssumption DEF Rows, Link
<1>3. Numbered(O) /\ Numbered(L)
  BY <1>1, <1>2 DEF Numbered
<1>4. QED
  BY <1>1, <1>2, <1>3, NumberedFinite DEF Rows

\* The sums over the links of an operation or a line are of finite sets of
\* natural numbers.
LEMMA PartSums ==
  ASSUME NEW L, IsFiniteSet(L), \A k \in L : k.amount \in Nat, NEW M, M \subseteq L
  PROVE  IsFiniteSet(M) /\ Amount(M) \in Nat
<1>1. IsFiniteSet(M)
  BY FS_Subset
<1>2. QED
  BY <1>1, AmountType

LEMMA NothingSums == Amount({}) = 0
<1>1. IsFiniteSet({})
  BY FS_EmptySet
<1>2. QED
  BY <1>1, AmountStep

-----------------------------------------------------------------------------
(* What the steps make of them *)

\* The links of rows that are no longer or not yet there.
LEMMA NoStrangeLinks ==
  ASSUME NEW O, NEW L, NEW V, NEW I, NEW R, NEW D, Explained(O, L, V, I, R, D), NEW n, \A o \in O : o.id # n.id
  PROVE  Of(L, n) = {}
BY DEF Explained, Explains, Of

\* New operations, with identities of their own, take nothing from the others.
LEMMA Grown ==
  ASSUME NEW O, NEW L, NEW V, NEW I, NEW R, NEW D, Sound(O, L, V, I, R, D),
         NEW N, N \subseteq Operation, OneId(N), Paired(N), \A n \in N, o \in O : o.id < n.id
  PROVE  Sound(O \cup N, L, V, I, R, D)
<1>1. /\ Rows(O, L) /\ Paired(O) /\ Explained(O, L, V, I, R, D) /\ Capable(O, L, V, D)
      /\ V \in [Lines -> LineValues \cup {0}] /\ I \subseteq Lines /\ D \subseteq Lines \cup Movements
  BY DEF Sound
<1>2. PICK P : P = O \cup N
  OBVIOUS
<1>3. (\A o \in P : o \in O \/ o \in N) /\ (\A o \in O : o \in P) /\ \A o \in N : o \in P
  BY <1>2
<1>4. \A n \in N : n.amount \in Nat /\ n.id \in 1 .. MaxRows
  BY DEF Operation
<1>5. \A n \in N, o \in O : o.id # n.id
  <2>1. \A o \in O : o.id \in 1 .. MaxRows
    BY <1>1, RowFacts
  <2>2. QED
    BY <1>4, <2>1
<1>6. Rows(P, L)
  <2>1. P \subseteq Operation
    BY <1>1, <1>2 DEF Rows
  <2>2. OneId(P)
    BY <1>1, <1>3, <1>5 DEF Rows, OneId
  <2>3. QED
    BY <1>1, <2>1, <2>2 DEF Rows
<1>7. Paired(P)
  <2>1. \A n \in N, o \in O : n.transfer # 0 /\ o.transfer # 0 => n.transfer # o.transfer
    <3>1. \A o \in O : o.transfer # 0 => \E a \in O : a.id = o.transfer
      BY <1>1 DEF Paired, Legs
    <3>2. \A n \in N : n.transfer # 0 => \E a \in N : a.id = n.transfer
      BY DEF Paired, Legs
    <3>3. QED
      BY <1>5, <3>1, <3>2
  <2>2. ASSUME NEW o \in P, o.transfer # 0
        PROVE  \E a, b \in P : Legs(P, o.transfer, a, b)
    <3>1. CASE o \in O
      <4>1. PICK a \in O, b \in O : Legs(O, o.transfer, a, b)
        BY <1>1, <2>2, <3>1 DEF Paired
      <4>2. \A p \in N : p.transfer # o.transfer
        BY <2>1, <2>2, <3>1
      <4>3. \A p \in N : p \notin {a, b}
        BY <1>5
      <4>4. Legs(P, o.transfer, a, b)
        BY <1>3, <4>1, <4>2, <4>3 DEF Legs
      <4>5. QED
        BY <1>3, <4>4
    <3>2. CASE o \in N
      <4>1. PICK a \in N, b \in N : Legs(N, o.transfer, a, b)
        BY <2>2, <3>2 DEF Paired
      <4>2. \A p \in O : p.transfer # o.transfer
        BY <2>1, <2>2, <3>2
      <4>3. \A p \in O : p \notin {a, b}
        BY <1>5
      <4>4. Legs(P, o.transfer, a, b)
        BY <1>3, <4>1, <4>2, <4>3 DEF Legs
      <4>5. QED
        BY <1>3, <4>4
    <3>3. QED
      BY <1>3, <3>1, <3>2
  <2>3. \A o \in P : o.source = "synced" => o.transfer = 0
    BY <1>1, <1>3 DEF Paired
  <2>4. QED
    BY <2>2, <2>3 DEF Paired
<1>8. Explained(P, L, V, I, R, D)
  BY <1>1, <1>3 DEF Explained
<1>9. Capable(P, L, V, D)
  <2>1. \A n \in N : Of(L, n) = {}
    BY <1>1, <1>5, NoStrangeLinks
  <2>2. \A n \in N : Amount(Of(L, n)) <= n.amount
    BY <1>4, <2>1, NothingSums
  <2>3. QED
    BY <1>1, <1>3, <2>2 DEF Capable
<1>10. QED
  BY <1>1, <1>2, <1>6, <1>7, <1>8, <1>9 DEF Sound

\* Operations without links may go, a transfer only as a whole.
LEMMA Dropped ==
  ASSUME NEW O, NEW L, NEW V, NEW I, NEW R, NEW D, Sound(O, L, V, I, R, D),
         NEW X, \A x \in X : Of(L, x) = {},
         \A x \in X, o \in O : x.transfer # 0 /\ o.transfer = x.transfer => o \in X
  PROVE  Sound(O \ X, L, V, I, R, D)
<1>1. /\ Rows(O, L) /\ Paired(O) /\ Explained(O, L, V, I, R, D) /\ Capable(O, L, V, D)
      /\ V \in [Lines -> LineValues \cup {0}] /\ I \subseteq Lines /\ D \subseteq Lines \cup Movements
  BY DEF Sound
<1>2. PICK P : P = O \ X
  OBVIOUS
<1>3. \A o : o \in P <=> o \in O /\ o \notin X
  BY <1>2
<1>4. Rows(P, L)
  BY <1>1, <1>2, <1>3 DEF Rows, OneId
<1>5. Paired(P)
  <2>1. ASSUME NEW o \in P, o.transfer # 0
        PROVE  \E a, b \in P : Legs(P, o.transfer, a, b)
    <3>1. PICK a \in O, b \in O : Legs(O, o.transfer, a, b)
      BY <1>1, <1>3, <2>1 DEF Paired
    <3>2. a.transfer = o.transfer /\ b.transfer = o.transfer
      BY <3>1 DEF Legs
    <3>3. a \notin X /\ b \notin X
      BY <1>3, <2>1, <3>2
    <3>4. Legs(P, o.transfer, a, b)
      BY <1>3, <3>1 DEF Legs
    <3>5. QED
      BY <1>3, <3>3, <3>4
  <2>2. QED
    BY <1>1, <1>3, <2>1 DEF Paired
<1>6. Explained(P, L, V, I, R, D)
  <2>1. ASSUME NEW k \in L PROVE \E o \in P : Explains(V, I, R, D, o, k)
    <3>1. PICK o \in O : Explains(V, I, R, D, o, k)
      BY <1>1 DEF Explained
    <3>2. k \in Of(L, o)
      BY <3>1 DEF Explains, Of
    <3>3. QED
      BY <1>3, <3>1, <3>2
  <2>2. QED
    BY <2>1 DEF Explained
<1>7. Capable(P, L, V, D)
  BY <1>1, <1>3 DEF Capable
<1>8. QED
  BY <1>1, <1>2, <1>4, <1>5, <1>6, <1>7 DEF Sound

\* An operation outside of a transfer may become another one that its links fit.
LEMMA Corrected ==
  ASSUME NEW O, NEW L, NEW V, NEW I, NEW R, NEW D, Sound(O, L, V, I, R, D),
         NEW o \in O, NEW u \in Operation, u.id = o.id, u.transfer = 0, o.transfer = 0,
         \A k \in Of(L, o) : Explains(V, I, R, D, u, k), Amount(Of(L, o)) <= u.amount
  PROVE  Sound((O \ {o}) \cup {u}, L, V, I, R, D)
<1>1. /\ Rows(O, L) /\ Paired(O) /\ Explained(O, L, V, I, R, D) /\ Capable(O, L, V, D)
      /\ V \in [Lines -> LineValues \cup {0}] /\ I \subseteq Lines /\ D \subseteq Lines \cup Movements
  BY DEF Sound
<1>2. PICK P : P = (O \ {o}) \cup {u}
  OBVIOUS
<1>3. \A p : p \in P <=> (p \in O /\ p # o) \/ p = u
  BY <1>2
<1>4. Rows(P, L)
  <2>1. P \subseteq Operation
    BY <1>1, <1>2 DEF Rows
  <2>2. OneId(P)
    BY <1>1, <1>3 DEF Rows, OneId
  <2>3. QED
    BY <1>1, <2>1, <2>2 DEF Rows
<1>5. Paired(P)
  <2>1. ASSUME NEW p \in P, p.transfer # 0
        PROVE  \E a, b \in P : Legs(P, p.transfer, a, b)
    <3>1. p \in O
      BY <1>3, <2>1
    <3>2. PICK a \in O, b \in O : Legs(O, p.transfer, a, b)
      BY <1>1, <2>1, <3>1 DEF Paired
    <3>3. a.transfer = p.transfer /\ b.transfer = p.transfer
      BY <3>2 DEF Legs
    <3>4. a # o /\ b # o /\ u # a /\ u # b /\ u.transfer # p.transfer
      BY <2>1, <3>3
    <3>5. Legs(P, p.transfer, a, b)
      BY <1>3, <3>2, <3>4 DEF Legs
    <3>6. QED
      BY <1>3, <3>4, <3>5
  <2>2. QED
    BY <1>1, <1>3, <2>1 DEF Paired
<1>6. Explained(P, L, V, I, R, D)
  <2>1. ASSUME NEW k \in L PROVE \E p \in P : Explains(V, I, R, D, p, k)
    <3>1. PICK p \in O : Explains(V, I, R, D, p, k)
      BY <1>1 DEF Explained
    <3>2. CASE p = o
      <4>1. k \in Of(L, o)
        BY <3>1, <3>2 DEF Explains, Of
      <4>2. QED
        BY <1>3, <4>1
    <3>3. QED
      BY <1>3, <3>1, <3>2
  <2>2. QED
    BY <2>1 DEF Explained
<1>7. Capable(P, L, V, D)
  <2>1. Of(L, u) = Of(L, o)
    BY DEF Of
  <2>2. QED
    BY <1>1, <1>3, <2>1 DEF Capable
<1>8. QED
  BY <1>1, <1>2, <1>4, <1>5, <1>6, <1>7 DEF Sound

\* A link with an identity of its own, of an operation it explains and within
\* what is left of it and of its line.
LEMMA Linked ==
  ASSUME NEW O, NEW L, NEW V, NEW I, NEW R, NEW D, Sound(O, L, V, I, R, D),
         NEW o \in O, NEW n \in Link, \A k \in L : k.id < n.id,
         Explains(V, I, R, D, o, n),
         Amount(Of(L, o)) + n.amount <= o.amount,
         n.line \notin D \cup {None} => Amount(On(L, n.line)) + n.amount <= Abs(V[n.line])
  PROVE  Sound(O, L \cup {n}, V, I, R, D)
<1>1. /\ Rows(O, L) /\ Paired(O) /\ Explained(O, L, V, I, R, D) /\ Capable(O, L, V, D)
      /\ V \in [Lines -> LineValues \cup {0}] /\ I \subseteq Lines /\ D \subseteq Lines \cup Movements
  BY DEF Sound
<1>2. PICK M : M = L \cup {n}
  OBVIOUS
<1>3. \A k : k \in M <=> k \in L \/ k = n
  BY <1>2
<1>4. n.amount \in Nat /\ n.id \in 1 .. MaxRows
  BY InvestmentsAssumption DEF Link
<1>5. n \notin L /\ \A k \in L : k.id # n.id
  <2>1. \A k \in L : k.id \in 1 .. MaxRows
    BY <1>1, RowFacts
  <2>2. QED
    BY <1>4, <2>1
<1>6. Rows(O, M)
  <2>1. M \subseteq Link
    BY <1>1, <1>2 DEF Rows
  <2>2. OneId(M)
    BY <1>1, <1>3, <1>5 DEF Rows, OneId
  <2>3. QED
    BY <1>1, <2>1, <2>2 DEF Rows
<1>7. Explained(O, M, V, I, R, D)
  BY <1>1, <1>3 DEF Explained
<1>8. IsFiniteSet(L) /\ \A k \in L : k.amount \in Nat
  BY <1>1, RowFacts
<1>9. ASSUME NEW A, A \subseteq L PROVE Amount(A \cup {n}) = Amount(A) + n.amount
  <2>1. IsFiniteSet(A) /\ (\A k \in A : k.amount \in Nat) /\ n \notin A
    BY <1>5, <1>8, <1>9, PartSums
  <2>2. QED
    BY <1>4, <2>1, AmountWith
<1>10. ASSUME NEW l \in Lines \ D PROVE Amount(On(M, l)) <= Abs(V[l])
  <2>1. Amount(On(L, l)) <= Abs(V[l]) /\ On(L, l) \subseteq L
    BY <1>1 DEF Capable, On
  <2>2. CASE n.line = l
    <3>1. On(M, l) = On(L, l) \cup {n}
      BY <1>3, <2>2 DEF On
    <3>2. l # None
      BY InvestmentsAssumption
    <3>3. Amount(On(M, l)) = Amount(On(L, l)) + n.amount
      BY <1>9, <2>1, <3>1
    <3>4. QED
      BY <2>2, <3>2, <3>3
  <2>3. CASE n.line # l
    <3>1. On(M, l) = On(L, l)
      BY <1>3, <2>3 DEF On
    <3>2. QED
      BY <2>1, <3>1
  <2>4. QED
    BY <2>2, <2>3
<1>11. ASSUME NEW p \in O PROVE Amount(Of(M, p)) <= p.amount
  <2>1. Amount(Of(L, p)) <= p.amount /\ Of(L, p) \subseteq L
    BY <1>1 DEF Capable, Of
  <2>2. CASE p = o
    <3>1. n.op = o.id
      BY DEF Explains
    <3>2. Of(M, p) = Of(L, p) \cup {n}
      BY <1>3, <2>2, <3>1 DEF Of
    <3>3. Amount(Of(M, p)) = Amount(Of(L, p)) + n.amount
      BY <1>9, <2>1, <3>2
    <3>4. QED
      BY <2>2, <3>3
  <2>3. CASE p # o
    <3>1. n.op # p.id
      BY <1>1, <2>3 DEF Explains, Rows, OneId
    <3>2. Of(M, p) = Of(L, p)
      BY <1>3, <3>1 DEF Of
    <3>3. QED
      BY <2>1, <3>2
  <2>4. QED
    BY <2>2, <2>3
<1>12. QED
  BY <1>1, <1>2, <1>6, <1>7, <1>10, <1>11 DEF Sound, Capable

\* The amount of a line is a natural number.
LEMMA LineSize ==
  ASSUME NEW V \in [Lines -> LineValues \cup {0}], NEW l \in Lines
  PROVE  Abs(V[l]) \in Nat
<1>1. V[l] \in LineValues \cup {0}
  OBVIOUS
<1>2. \A v \in LineValues : v \in Int
  BY InvestmentsAssumption
<1>3. V[l] \in Int
  BY <1>1, <1>2
<1>4. QED
  BY <1>3 DEF Abs

\* What undoing links leaves: no operation but derived ones without
\* links goes, and a link that stays keeps its identity, operation, line and
\* amount; the movement it may take over is of a link of the same operation.
Left(O, L, P, M) ==
  /\ P \subseteq O
  /\ \A o \in O : o \in P \/ (o.source = "synced" /\ \A k \in M : k.op # o.id)
  /\ \A m \in M : \E k \in L : /\ m = [k EXCEPT !.movement = m.movement]
                               /\ \/ m.movement = k.movement
                                  \/ /\ m.movement # None
                                     /\ \E j \in L : j.op = k.op /\ j.movement = m.movement

LEMMA Unlinked ==
  ASSUME NEW O, NEW L, NEW V, NEW I, NEW R, NEW D, Sound(O, L, V, I, R, D),
         NEW P, NEW M, Left(O, L, P, M), OneId(M),
         NEW E, E \subseteq D, \A x \in D \ E : \A m \in M : x \notin {m.line, m.movement}
  PROVE  Sound(P, M, V, I, R, E)
<1>1. /\ Rows(O, L) /\ Paired(O) /\ Explained(O, L, V, I, R, D) /\ Capable(O, L, V, D)
      /\ V \in [Lines -> LineValues \cup {0}] /\ I \subseteq Lines /\ D \subseteq Lines \cup Movements
  BY DEF Sound
<1>2. \A m \in M : \E k \in L :
        /\ m.id = k.id /\ m.op = k.op /\ m.line = k.line /\ m.amount = k.amount
        /\ m \in Link
        /\ m.movement = k.movement \/ \E j \in L : j.op = k.op /\ j.movement = m.movement
  <2> SUFFICES ASSUME NEW m \in M
               PROVE  \E k \in L :
                        /\ m.id = k.id /\ m.op = k.op /\ m.line = k.line /\ m.amount = k.amount
                        /\ m \in Link
                        /\ m.movement = k.movement \/ \E j \in L : j.op = k.op /\ j.movement = m.movement
    OBVIOUS
  <2>1. PICK k \in L : /\ m = [k EXCEPT !.movement = m.movement]
                       /\ \/ m.movement = k.movement
                          \/ /\ m.movement # None
                             /\ \E j \in L : j.op = k.op /\ j.movement = m.movement
    BY DEF Left
  <2>2. \A j \in L : j \in Link
    BY <1>1 DEF Rows
  <2>3. k \in [id : 1 .. MaxRows, op : 1 .. MaxRows, line : Lines \cup {None},
               movement : Movements \cup {None}, amount : Amounts]
    BY <2>2 DEF Link
  <2>4. m.id = k.id /\ m.op = k.op /\ m.line = k.line /\ m.amount = k.amount
    BY <2>1, <2>3
  <2>5. m \in Link
    <3>1. m.movement \in Movements \cup {None}
      BY <2>1, <2>2 DEF Link
    <3>2. k.line # None \/ m.movement # None
      BY <2>1, <2>2 DEF Link
    <3>3. QED
      BY <2>1, <2>3, <3>1, <3>2 DEF Link
  <2>6. QED
    BY <2>1, <2>4, <2>5
<1>3. \A o : o \in P => o \in O
  BY DEF Left
<1>4. Rows(P, M)
  BY <1>1, <1>2, <1>3 DEF Rows, OneId
<1>5. Paired(P)
  <2>1. ASSUME NEW o \in P, o.transfer # 0
        PROVE  \E a, b \in P : Legs(P, o.transfer, a, b)
    <3>1. PICK a \in O, b \in O : Legs(O, o.transfer, a, b)
      BY <1>1, <1>3, <2>1 DEF Paired
    <3>2. a.transfer = o.transfer /\ b.transfer = o.transfer
      BY <3>1 DEF Legs
    <3>3. a \in P /\ b \in P
      BY <1>1, <2>1, <3>2 DEF Left, Paired
    <3>4. Legs(P, o.transfer, a, b)
      BY <1>3, <3>1 DEF Legs
    <3>5. QED
      BY <3>3, <3>4
  <2>2. QED
    BY <1>1, <1>3, <2>1 DEF Paired
<1>6. Explained(P, M, V, I, R, E)
  <2>1. ASSUME NEW m \in M PROVE \E o \in P : Explains(V, I, R, E, o, m)
    <3>1. PICK k \in L : /\ m.op = k.op /\ m.line = k.line
                         /\ m.movement = k.movement \/ \E j \in L : j.op = k.op /\ j.movement = m.movement
      BY <1>2
    <3>2. PICK o \in O : Explains(V, I, R, D, o, k)
      BY <1>1 DEF Explained
    <3>3. o \in P
      BY <3>1, <3>2 DEF Left, Explains
    <3>4. m.movement \notin E \cup {None} => MovementMatches(o, R[m.movement])
      <4> SUFFICES ASSUME m.movement \notin E \cup {None} PROVE MovementMatches(o, R[m.movement])
        OBVIOUS
      <4>0. m.movement \notin D \cup {None}
        OBVIOUS
      <4>1. CASE m.movement = k.movement
        BY <3>2, <4>0, <4>1 DEF Explains
      <4>2. CASE \E j \in L : j.op = k.op /\ j.movement = m.movement
        <5>1. PICK j \in L : j.op = k.op /\ j.movement = m.movement
          BY <4>2
        <5>2. PICK p \in O : Explains(V, I, R, D, p, j)
          BY <1>1 DEF Explained
        <5>3. p = o
          BY <1>1, <3>2, <5>1, <5>2 DEF Explains, Rows, OneId
        <5>4. QED
          BY <4>0, <5>1, <5>2, <5>3 DEF Explains
      <4>3. QED
        BY <3>1, <4>1, <4>2
    <3>5. m.line \notin E \cup {None} => m.line \notin D \cup {None}
      OBVIOUS
    <3>6. Explains(V, I, R, E, o, m)
      BY <3>1, <3>2, <3>4, <3>5 DEF Explains
    <3>7. QED
      BY <3>3, <3>6
  <2>2. QED
    BY <2>1 DEF Explained
<1>7. /\ IsFiniteSet(L) /\ IsFiniteSet(M)
      /\ (\A k \in L : k.amount \in Nat) /\ (\A m \in M : m.amount \in Nat)
  BY <1>1, <1>4, RowFacts
<1>8. ASSUME NEW A, NEW B, A \subseteq M, B \subseteq L, Matched(A, B)
      PROVE  Amount(A) <= Amount(B) /\ Amount(A) \in Nat /\ Amount(B) \in Nat
  <2>1. IsFiniteSet(A) /\ IsFiniteSet(B) /\ Amount(A) \in Nat /\ Amount(B) \in Nat
    BY <1>7, <1>8, PartSums
  <2>2. \A a, c \in A : a.id = c.id => a = c
    BY <1>8 DEF OneId
  <2>3. \A k \in A \cup B : k.amount \in Nat
    BY <1>7, <1>8
  <2>4. QED
    BY <1>8, <2>1, <2>2, <2>3, AmountOfMatched
<1>9. ASSUME NEW l \in Lines \ E PROVE Amount(On(M, l)) <= Abs(V[l])
  <2>1. Matched(On(M, l), On(L, l))
    BY <1>2 DEF Matched, On
  <2>2. On(M, l) \subseteq M /\ On(L, l) \subseteq L
    BY DEF On
  <2>3. Amount(On(M, l)) <= Amount(On(L, l)) /\ Amount(On(M, l)) \in Nat /\ Amount(On(L, l)) \in Nat
    BY <1>8, <2>1, <2>2
  <2>4. Abs(V[l]) \in Nat
    BY <1>1, LineSize
  <2>5. CASE l \in D
    <3>1. On(M, l) = {}
      BY <2>5 DEF On
    <3>2. QED
      BY <2>4, <3>1, NothingSums
  <2>6. CASE l \notin D
    <3>1. Amount(On(L, l)) <= Abs(V[l])
      BY <1>1, <2>6 DEF Capable
    <3>2. QED
      BY <2>3, <2>4, <3>1
  <2>7. QED
    BY <2>5, <2>6
<1>10. ASSUME NEW o \in P PROVE Amount(Of(M, o)) <= o.amount
  <2>1. Matched(Of(M, o), Of(L, o))
    BY <1>2 DEF Matched, Of
  <2>2. Of(M, o) \subseteq M /\ Of(L, o) \subseteq L
    BY DEF Of
  <2>3. Amount(Of(M, o)) <= Amount(Of(L, o)) /\ Amount(Of(M, o)) \in Nat /\ Amount(Of(L, o)) \in Nat
    BY <1>8, <2>1, <2>2
  <2>4. Amount(Of(L, o)) <= o.amount /\ o.amount \in Nat
    BY <1>1, <1>3, RowFacts DEF Capable
  <2>5. QED
    BY <2>3, <2>4
<1>11. E \subseteq Lines \cup Movements
  BY <1>1
<1>12. QED
  BY <1>1, <1>4, <1>5, <1>6, <1>9, <1>10, <1>11 DEF Sound, Capable

\* What has no links may be given any value, decision and report; so may what
\* the history D names, and E more of it.
LEMMA Restated ==
  ASSUME NEW O, NEW L, NEW V, NEW I, NEW R, NEW D, Sound(O, L, V, I, R, D),
         NEW W \in [Lines -> LineValues \cup {0}], NEW J, J \subseteq Lines, NEW Q,
         NEW E, D \subseteq E, E \subseteq Lines \cup Movements,
         \A l \in Lines : \/ l \in E \/ On(L, l) = {}
                          \/ (W[l] = V[l] /\ (l \in I <=> l \in J)),
         \A m \in Movements : \/ m \in E \/ \A k \in L : k.movement # m
                              \/ Q[m] = R[m]
  PROVE  Sound(O, L, W, J, Q, E)
<1>1. /\ Rows(O, L) /\ Paired(O) /\ Explained(O, L, V, I, R, D) /\ Capable(O, L, V, D)
      /\ V \in [Lines -> LineValues \cup {0}] /\ I \subseteq Lines /\ D \subseteq Lines \cup Movements
  BY DEF Sound
<1>2. Explained(O, L, W, J, Q, E)
  <2>1. ASSUME NEW k \in L, NEW o \in O, Explains(V, I, R, D, o, k)
        PROVE  Explains(W, J, Q, E, o, k)
    <3>1. k \in Link
      BY <1>1 DEF Rows
    <3>2. k.line \in Lines \cup {None} /\ k.movement \in Movements \cup {None}
      BY <3>1 DEF Link
    <3>3. ASSUME k.line \notin E \cup {None}
          PROVE  /\ W[k.line] # 0
                 /\ k.line \notin J
                 /\ (W[k.line] < 0) <=> (o.kind \in BankOutflow)
      <4>1. k.line \in Lines /\ k.line \notin D
        BY <3>2, <3>3
      <4>2. On(L, k.line) # {}
        BY DEF On
      <4>3. W[k.line] = V[k.line] /\ (k.line \in I <=> k.line \in J)
        BY <3>3, <4>1, <4>2
      <4>4. QED
        BY <2>1, <3>3, <4>1, <4>3 DEF Explains
    <3>4. ASSUME k.movement \notin E \cup {None} PROVE MovementMatches(o, Q[k.movement])
      <4>1. k.movement \in Movements /\ k.movement \notin D \cup {None}
        BY <3>2, <3>4
      <4>2. Q[k.movement] = R[k.movement]
        BY <3>4, <4>1
      <4>3. QED
        BY <2>1, <4>1, <4>2 DEF Explains
    <3>5. QED
      BY <2>1, <3>3, <3>4 DEF Explains
  <2>2. QED
    BY <1>1, <2>1 DEF Explained
<1>3. ASSUME NEW l \in Lines \ E PROVE Amount(On(L, l)) <= Abs(W[l])
  <2>1. CASE On(L, l) = {}
    <3>1. Abs(W[l]) \in Nat
      BY LineSize
    <3>2. QED
      BY <2>1, <3>1, NothingSums
  <2>2. CASE On(L, l) # {}
    <3>1. W[l] = V[l]
      BY <2>2
    <3>2. l \in Lines \ D
      OBVIOUS
    <3>3. QED
      BY <1>1, <3>1, <3>2 DEF Capable
  <2>3. QED
    BY <2>1, <2>2
<1>4. Capable(O, L, W, E)
  BY <1>1, <1>3 DEF Capable
<1>5. QED
  BY <1>1, <1>2, <1>4 DEF Sound

-----------------------------------------------------------------------------
(* The requests *)

Now == Sound(ops, links, value, ignored, movement, drifted) /\ Reachable(ops, links)

\* Where there is room, the next identities are within the bound and new.
LEMMA RoomFor ==
  ASSUME Rows(ops, links), NEW n \in Nat, n # 0, Room(n)
  PROVE  /\ NextId(ops) \in Nat /\ \A i \in 1 .. n : NextId(ops) + i - 1 \in 1 .. MaxRows
         /\ NextId(links) \in 1 .. MaxRows
         /\ \A o \in ops : o.id < NextId(ops) /\ \A i \in 1 .. n : o.id < NextId(ops) + i - 1
         /\ \A k \in links : k.id < NextId(links)
<1>1. LastId(ops) \in 0 .. MaxRows /\ \A o \in ops : o.id \in 1 .. LastId(ops)
  BY RowFacts, LastIdBounds
<1>2. LastId(links) \in 0 .. MaxRows /\ \A k \in links : k.id \in 1 .. LastId(links)
  BY RowFacts, LastIdBounds
<1>3. MaxRows \in Nat /\ LastId(ops) + LastId(links) + n <= MaxRows
  BY InvestmentsAssumption DEF Room
<1>4. NextId(ops) = LastId(ops) + 1 /\ NextId(links) = LastId(links) + 1
  BY DEF NextId
<1>5. PICK x, y : x = LastId(ops) /\ y = LastId(links)
  OBVIOUS
<1>6. x \in Nat /\ y \in Nat /\ MaxRows \in Nat /\ x + y + n <= MaxRows
  BY <1>1, <1>2, <1>3, <1>5
<1>7. x + 1 \in Nat /\ (\A i \in 1 .. n : x + 1 + i - 1 \in 1 .. MaxRows) /\ y + 1 \in 1 .. MaxRows
  BY <1>6
<1>8. ASSUME NEW o \in ops PROVE o.id < x + 1 /\ \A i \in 1 .. n : o.id < x + 1 + i - 1
  <2>1. o.id \in 1 .. x
    BY <1>1, <1>5
  <2>2. QED
    BY <1>6, <2>1
<1>9. ASSUME NEW k \in links PROVE k.id < y + 1
  <2>1. k.id \in 1 .. y
    BY <1>2, <1>5
  <2>2. QED
    BY <1>6, <2>1
<1>10. QED
  BY <1>4, <1>5, <1>7, <1>8, <1>9

\* The link a request makes for one of the operations O.
LEMMA NewLinkSound ==
  ASSUME NEW O, Sound(O, links, value, ignored, movement, drifted), NEW o \in O, NEW w \in Wanted, NewLink(o, w),
         NextId(links) \in 1 .. MaxRows, \A k \in links : k.id < NextId(links)
  PROVE  /\ Sound(O, links', value, ignored, movement, drifted)
         /\ links \subseteq links'
         /\ \E k \in links' : k.op = o.id /\ k.movement = w.movement
<1>1. PICK n : n = [id |-> NextId(links), op |-> o.id, line |-> w.line,
                    movement |-> w.movement, amount |-> w.amount]
  OBVIOUS
<1>2. links' = links \cup {n} /\ Linkable(o, w)
  BY <1>1 DEF NewLink
<1>3. /\ n.id = NextId(links) /\ n.op = o.id /\ n.line = w.line
      /\ n.movement = w.movement /\ n.amount = w.amount
  BY <1>1
<1>4. n \in Link
  <2>1. o.id \in 1 .. MaxRows
    BY RowFacts DEF Sound
  <2>2. w.line # None \/ w.movement # None
    BY <1>2 DEF Linkable
  <2>3. QED
    BY <1>1, <2>1, <2>2 DEF Link, Wanted
<1>5. Explains(value, ignored, movement, drifted, o, n)
  BY <1>2, <1>3 DEF Explains, Linkable, LineMatches
<1>6. LinksOf(o) = Of(links, o) /\ \A l : OnLine(l) = On(links, l)
  BY DEF LinksOf, Of, OnLine, On
<1>7. Amount(Of(links, o)) + n.amount <= o.amount
  BY <1>2, <1>3, <1>6 DEF Linkable
<1>8. n.line # None => Amount(On(links, n.line)) + n.amount <= Abs(value[n.line])
  BY <1>2, <1>3, <1>6 DEF Linkable
<1>9. Sound(O, links \cup {n}, value, ignored, movement, drifted)
  BY <1>3, <1>4, <1>5, <1>7, <1>8, Linked
<1>10. QED
  BY <1>2, <1>3, <1>9

\* Undoing the links K: what is left, none of it on the line of the links
\* undone only, and every derived operation still found.
LEMMA RemovalLeaves ==
  ASSUME Now, NEW K, K \subseteq links, RemoveLinks(K)
  PROVE  /\ Left(ops, links, ops', links') /\ OneId(links')
         /\ \A m \in links' : \E k \in links \ K : m.line = k.line
         /\ Reachable(ops', links')
         /\ drifted' \subseteq drifted
         /\ \A x \in drifted \ drifted' : \A m \in links' : x \notin {m.line, m.movement}
<1> DEFINE remaining == links \ K
           TakeOver(r) == IF \E k \in K : r \in Heirs(k, remaining)
                     THEN [r EXCEPT !.movement = (CHOOSE k \in K : r \in Heirs(k, remaining)).movement]
                     ELSE r
<1>1. links' = {TakeOver(r) : r \in remaining}
  BY DEF RemoveLinks
<1>2. /\ ops' \subseteq ops
      /\ \A o \in ops : o \in ops' <=> \/ o.source # "synced"
                                       \/ o.id \notin {k.op : k \in K}
                                       \/ o.id \in {r.op : r \in remaining}
  BY DEF RemoveLinks
<1>3. Rows(ops, links)
  BY DEF Now, Sound
<1>4. ASSUME NEW r \in remaining
      PROVE  /\ TakeOver(r) = [r EXCEPT !.movement = TakeOver(r).movement]
             /\ \/ TakeOver(r).movement = r.movement
                \/ /\ TakeOver(r).movement # None
                   /\ \E j \in links : j.op = r.op /\ j.movement = TakeOver(r).movement
             /\ r.movement # None => TakeOver(r) = r
             /\ (\E k \in K : r \in Heirs(k, remaining)) => TakeOver(r).movement # None
  <2>1. r \in Link
    BY <1>3 DEF Rows
  <2>2. r \in [id : 1 .. MaxRows, op : 1 .. MaxRows, line : Lines \cup {None},
               movement : Movements \cup {None}, amount : Amounts]
    BY <2>1 DEF Link
  <2>3. CASE \E k \in K : r \in Heirs(k, remaining)
    <3>1. PICK k : k = CHOOSE j \in K : r \in Heirs(j, remaining)
      OBVIOUS
    <3>2. k \in K /\ r \in Heirs(k, remaining)
      BY <2>3, <3>1
    <3>3. TakeOver(r) = [r EXCEPT !.movement = k.movement]
      BY <2>3, <3>1
    <3>4. k.movement # None /\ r.op = k.op /\ r.movement = None
      BY <3>2 DEF Heirs
    <3>5. TakeOver(r).movement = k.movement
      BY <2>2, <3>3
    <3>6. k \in links
      BY <3>2
    <3> HIDE DEF TakeOver
    <3>7. QED
      BY <3>3, <3>4, <3>5, <3>6
  <2>4. CASE ~ \E k \in K : r \in Heirs(k, remaining)
    <3>1. TakeOver(r) = r
      BY <2>4
    <3>2. r = [r EXCEPT !.movement = r.movement]
      BY <2>2
    <3> HIDE DEF TakeOver
    <3>3. QED
      BY <2>4, <3>1, <3>2
  <2>5. QED
    BY <2>3, <2>4
<1>5. ASSUME NEW r \in remaining
      PROVE  TakeOver(r).id = r.id /\ TakeOver(r).op = r.op /\ TakeOver(r).line = r.line
  <2>1. r \in [id : 1 .. MaxRows, op : 1 .. MaxRows, line : Lines \cup {None},
               movement : Movements \cup {None}, amount : Amounts]
    BY <1>3 DEF Rows, Link
  <2>2. PICK t : t = TakeOver(r)
    OBVIOUS
  <2>3. t = [r EXCEPT !.movement = t.movement]
    BY <1>4, <2>2
  <2>4. t.id = r.id /\ t.op = r.op /\ t.line = r.line
    BY <2>1, <2>3
  <2>5. QED
    BY <2>2, <2>4
<1> HIDE DEF TakeOver
<1>6. Left(ops, links, ops', links')
  <2>1. ASSUME NEW o \in ops, o \notin ops'
        PROVE  o.source = "synced" /\ \A m \in links' : m.op # o.id
    BY <1>1, <1>2, <1>5, <2>1
  <2>2. ASSUME NEW m \in links'
        PROVE  \E k \in links : /\ m = [k EXCEPT !.movement = m.movement]
                               /\ \/ m.movement = k.movement
                                  \/ /\ m.movement # None
                                     /\ \E j \in links : j.op = k.op /\ j.movement = m.movement
    <3>1. PICK r \in remaining : m = TakeOver(r)
      BY <1>1
    <3>2. QED
      BY <1>4, <3>1
  <2>3. QED
    BY <1>2, <2>1, <2>2 DEF Left
<1>7. OneId(links')
  <2>1. ASSUME NEW m \in links', NEW n \in links', m.id = n.id PROVE m = n
    <3>1. PICK r \in remaining, s \in remaining : m = TakeOver(r) /\ n = TakeOver(s)
      BY <1>1
    <3>2. r.id = s.id
      BY <1>5, <2>1, <3>1
    <3>3. r = s
      BY <1>3, <3>2 DEF Rows, OneId
    <3>4. QED
      BY <3>1, <3>3
  <2>2. QED
    BY <2>1 DEF OneId
<1>8. \A m \in links' : \E k \in links \ K : m.line = k.line
  BY <1>1, <1>5
<1>9. Reachable(ops', links')
  <2>1. SUFFICES ASSUME NEW o \in ops', o.source = "synced"
                 PROVE  \E m \in links' : m.op = o.id /\ m.movement # None
    BY DEF Reachable
  <2>2. PICK k \in links : k.op = o.id /\ k.movement # None
    BY <1>2, <2>1 DEF Now, Reachable
  <2>3. CASE \E r \in remaining : r.op = o.id /\ r.movement # None
    <3>1. PICK r \in remaining : r.op = o.id /\ r.movement # None
      BY <2>3
    <3>2. TakeOver(r) = r /\ TakeOver(r) \in links'
      BY <1>1, <1>4, <3>1
    <3>3. QED
      BY <3>1, <3>2
  <2>4. CASE ~ \E r \in remaining : r.op = o.id /\ r.movement # None
    <3>1. k \in K
      BY <2>2, <2>4
    <3>2. \E r \in remaining : r.op = o.id
      BY <1>2, <2>1, <2>2, <3>1
    <3>3. PICK N : N = {r.id : r \in {r \in remaining : r.op = o.id}}
      OBVIOUS
    <3>4. (\A i \in N : i \in Nat) /\ N # {}
      <4>1. \A r \in links : r.id \in 1 .. MaxRows
        BY <1>3, RowFacts
      <4>2. QED
        BY <3>2, <3>3, <4>1
    <3>5. PICK i \in N : \A j \in N : i <= j
      BY <3>4, LeastOf
    <3>6. PICK r \in remaining : r.op = o.id /\ r.id = i
      BY <3>3, <3>5
    <3>7. r.movement = None
      BY <2>4, <3>6
    <3>8. \A s \in remaining : s.op = k.op /\ s.movement = None => r.id <= s.id
      BY <2>2, <3>3, <3>5, <3>6
    <3>9. r \in Heirs(k, remaining)
      BY <1>2, <2>1, <2>2, <3>6, <3>7, <3>8 DEF Heirs
    <3>10. TakeOver(r).movement # None /\ TakeOver(r).op = o.id /\ TakeOver(r) \in links'
      BY <1>1, <1>4, <1>5, <3>1, <3>6, <3>9
    <3>11. QED
      BY <3>10
  <2>5. QED
    BY <2>3, <2>4
<1>10. drifted' = {x \in drifted : \E k \in links' : x \in {k.line, k.movement}}
  BY DEF RemoveLinks, StillLinked
<1>11. QED
  BY <1>6, <1>7, <1>8, <1>9, <1>10

\* What is found stays found while links are added and no operation is derived.
LEMMA StillReachable ==
  ASSUME NEW O, NEW L, Reachable(O, L), NEW P, NEW M, \A k \in L : k \in M,
         \A o \in P : o \in O \/ o.source # "synced"
  PROVE  Reachable(P, M)
BY DEF Reachable

\* What a request asks for is an operation once it has an identity.
LEMMA AsOperationType ==
  ASSUME NEW in \in Input, NEW id \in 1 .. MaxRows, NEW o, o = AsOperation(in, id)
  PROVE  /\ o \in Operation /\ o.id = id /\ o.transfer = 0 /\ o.source = "manual"
<1>1. MaxRows \in Nat
  BY InvestmentsAssumption
<1>2. 0 \in 0 .. MaxRows
  BY <1>1
<1>3. QED
  BY <1>2 DEF AsOperation, Input, Operation

LEMMA CreateOperationsSound ==
  ASSUME Now, NEW batch \in Batches, NEW w \in Wanted \cup {NoWanted}, CreateOperations(batch, w)
  PROVE  Now'
<1>1. batch \in Seq(Input) /\ batch # <<>>
  BY InvestmentsAssumption
<1>2. /\ DOMAIN batch = 1 .. Len(batch) /\ Len(batch) \in Nat /\ Len(batch) # 0
      /\ \A i \in DOMAIN batch : batch[i] \in Input
  BY <1>1
<1>3. PICK n : n = Len(batch) + (IF w = NoWanted THEN 0 ELSE 1)
  OBVIOUS
<1>4. n \in Nat /\ n # 0 /\ \A i \in DOMAIN batch : i \in 1 .. n
  <2>1. n = Len(batch) \/ n = Len(batch) + 1
    <3>1. CASE w = NoWanted
      <4>1. n = Len(batch) + 0
        BY <1>3, <3>1, Zenon
      <4>2. QED
        BY <1>2, <4>1
    <3>2. CASE w # NoWanted
      BY <1>3, <3>2, Zenon
    <3>3. QED
      BY <3>1, <3>2
  <2>2. PICK len : len = Len(batch)
    OBVIOUS
  <2>3. len \in Nat /\ len # 0 /\ (n = len \/ n = len + 1) /\ DOMAIN batch = 1 .. len
    BY <1>2, <2>1, <2>2
  <2>4. n \in Nat /\ n # 0
    BY <2>3
  <2>5. \A i \in 1 .. len : i \in 1 .. n
    BY <2>3
  <2>6. QED
    BY <2>3, <2>4, <2>5
<1>5. Room(n) /\ Rows(ops, links)
  BY <1>3 DEF CreateOperations, Now, Sound
<1>6. /\ NextId(ops) \in Nat /\ \A i \in 1 .. n : NextId(ops) + i - 1 \in 1 .. MaxRows
      /\ NextId(links) \in 1 .. MaxRows
      /\ \A o \in ops : o.id < NextId(ops) /\ \A i \in 1 .. n : o.id < NextId(ops) + i - 1
      /\ \A k \in links : k.id < NextId(links)
  BY <1>4, <1>5, RoomFor
<1>7. PICK new : new = [i \in DOMAIN batch |-> AsOperation(batch[i], NextId(ops) + i - 1)]
  OBVIOUS
<1>8. PICK N : N = Range(new)
  OBVIOUS
<1>9. /\ \A i \in DOMAIN batch : new[i] \in N
      /\ \A o \in N : \E i \in DOMAIN batch : o = new[i]
  BY <1>7, <1>8 DEF Range
<1>10. ASSUME NEW i \in DOMAIN batch
       PROVE  /\ new[i] \in Operation /\ new[i].id = NextId(ops) + i - 1
              /\ new[i].transfer = 0 /\ new[i].source = "manual"
  <2>1. NextId(ops) + i - 1 \in 1 .. MaxRows
    BY <1>4, <1>6
  <2>2. new[i] = AsOperation(batch[i], NextId(ops) + i - 1)
    BY <1>7
  <2>3. QED
    BY <1>2, <2>1, <2>2, AsOperationType
<1>11. Sound(ops \cup N, links, value, ignored, movement, drifted)
  <2>1. N \subseteq Operation
    BY <1>9, <1>10
  <2>2. OneId(N)
    <3>1. ASSUME NEW i \in DOMAIN batch, NEW j \in DOMAIN batch, new[i].id = new[j].id
          PROVE  i = j
      <4>1. i \in Nat /\ j \in Nat
        BY <1>2
      <4>2. NextId(ops) + i - 1 = NextId(ops) + j - 1
        BY <1>10, <3>1
      <4>3. QED
        BY <1>6, <4>1, <4>2
    <3>2. QED
      BY <1>9, <3>1 DEF OneId
  <2>3. Paired(N)
    BY <1>9, <1>10 DEF Paired
  <2>4. \A x \in N, o \in ops : o.id < x.id
    BY <1>4, <1>6, <1>9, <1>10
  <2>5. Sound(ops, links, value, ignored, movement, drifted)
    BY DEF Now
  <2>6. QED
    BY <2>1, <2>2, <2>3, <2>4, <2>5, Grown
<1>12. ops' = ops \cup N /\ UNCHANGED <<lineVars, movement, drifted>>
  BY <1>7, <1>8 DEF CreateOperations, Commit
<1>13. Sound(ops \cup N, links', value, ignored, movement, drifted) /\ links \subseteq links'
  <2>1. CASE w = NoWanted
    <3>1. links' = links
      BY <2>1 DEF CreateOperations
    <3>2. QED
      BY <1>11, <3>1
  <2>2. CASE w # NoWanted
    <3>1. NewLink(new[1], w)
      BY <1>7, <2>2 DEF CreateOperations
    <3>2. new[1] \in ops \cup N
      BY <1>2, <1>9
    <3>3. w \in Wanted
      BY <2>2
    <3>4. QED
      BY <1>6, <1>11, <3>1, <3>2, <3>3, NewLinkSound
  <2>3. QED
    BY <2>1, <2>2
<1>14. Reachable(ops \cup N, links')
  <2>1. \A o \in ops \cup N : o \in ops \/ o.source # "synced"
    BY <1>9, <1>10
  <2>2. Reachable(ops, links)
    BY DEF Now
  <2>3. QED
    BY <1>13, <2>1, <2>2, StillReachable
<1>15. QED
  BY <1>12, <1>13, <1>14 DEF Now

LEMMA UpdateOperationSound ==
  ASSUME Now, NEW o \in ops, NEW in \in Corrections, UpdateOperation(o, in)
  PROVE  Now'
<1>1. PICK u : u = AsOperation(in, o.id)
  OBVIOUS
<1>2. in \in Input
  BY InvestmentsAssumption
<1>3. Rows(ops, links) /\ Sound(ops, links, value, ignored, movement, drifted) /\ Reachable(ops, links)
  BY DEF Now, Sound
<1>4. o.id \in 1 .. MaxRows
  BY <1>3, RowFacts
<1>5. u \in Operation /\ u.id = o.id /\ u.transfer = 0 /\ u.source = "manual"
  BY <1>1, <1>2, <1>4, AsOperationType
<1>6. /\ o.transfer = 0
      /\ LinksStillFit(u)
      /\ ops' = (ops \ {o}) \cup {u}
      /\ UNCHANGED <<links, lineVars, movement, drifted>>
  BY <1>1 DEF UpdateOperation, Commit
<1>7. LinksOf(u) = Of(links, o)
  BY <1>5 DEF LinksOf, Of
<1>8. \A k \in Of(links, o) : Explains(value, ignored, movement, drifted, u, k)
  <2>1. ASSUME NEW k \in Of(links, o) PROVE Explains(value, ignored, movement, drifted, u, k)
    <3>1. k \in LinksOf(u) /\ LinksOf(u) # {}
      BY <1>7
    <3>2. k.op = u.id
      BY <1>5 DEF Of
    <3>3. QED
      BY <1>6, <3>1, <3>2 DEF LinksStillFit, Explains, LineMatches
  <2>2. QED
    BY <2>1
<1>9. Amount(Of(links, o)) <= u.amount
  <2>1. CASE LinksOf(u) = {}
    <3>1. u.amount \in Nat
      BY <1>5 DEF Operation
    <3>2. QED
      BY <1>7, <2>1, <3>1, NothingSums
  <2>2. CASE LinksOf(u) # {}
    BY <1>6, <1>7, <2>2 DEF LinksStillFit
  <2>3. QED
    BY <2>1, <2>2
<1>10. Sound((ops \ {o}) \cup {u}, links, value, ignored, movement, drifted)
  BY <1>3, <1>5, <1>6, <1>8, <1>9, Corrected
<1>11. Reachable((ops \ {o}) \cup {u}, links)
  BY <1>3, <1>5, StillReachable
<1>12. QED
  BY <1>6, <1>10, <1>11 DEF Now

LEMMA DeleteOperationSound ==
  ASSUME Now, NEW o \in ops, DeleteOperation(o)
  PROVE  Now'
<1>1. /\ o.transfer = 0 /\ LinksOf(o) = {}
      /\ ops' = ops \ {o} /\ UNCHANGED <<links, lineVars, movement, drifted>>
  BY DEF DeleteOperation, Commit
<1>2. Of(links, o) = {}
  BY <1>1 DEF LinksOf, Of
<1>3. Sound(ops \ {o}, links, value, ignored, movement, drifted)
  <2>1. \A x \in {o} : Of(links, x) = {}
    BY <1>2
  <2>2. \A x \in {o}, p \in ops : x.transfer # 0 /\ p.transfer = x.transfer => p \in {o}
    BY <1>1
  <2>3. Sound(ops, links, value, ignored, movement, drifted)
    BY DEF Now
  <2>4. QED
    BY <2>1, <2>2, <2>3, Dropped
<1>4. Reachable(ops \ {o}, links)
  BY StillReachable DEF Now
<1>5. QED
  BY <1>1, <1>3, <1>4 DEF Now

\* A transfer has no links: nothing of it is reconcilable.
LEMMA DeleteTransferSound ==
  ASSUME Now, NEW t, t # 0, DeleteTransfer(t)
  PROVE  Now'
<1>1. PICK X : X = {o \in ops : o.transfer = t}
  OBVIOUS
<1>2. ops' = ops \ X /\ UNCHANGED <<links, lineVars, movement, drifted>>
  BY <1>1 DEF DeleteTransfer, Commit
<1>3. Sound(ops, links, value, ignored, movement, drifted) /\ Reachable(ops, links)
  BY DEF Now
<1>4. ASSUME NEW o \in X PROVE Of(links, o) = {}
  <2>1. o \in ops /\ o.transfer = t
    BY <1>1
  <2>2. o.kind \in {"transfer_out", "transfer_in"}
    <3>1. PICK a \in ops, b \in ops : Legs(ops, o.transfer, a, b)
      BY <1>3, <2>1 DEF Sound, Paired
    <3>2. o \in {a, b}
      BY <2>1, <3>1 DEF Legs
    <3>3. QED
      BY <3>1, <3>2 DEF Legs
  <2>3. ASSUME NEW k \in Of(links, o) PROVE FALSE
    <3>1. k \in links /\ k.op = o.id
      BY DEF Of
    <3>2. PICK p \in ops : p.id = k.op /\ p.kind \in Reconcilable
      BY <1>3, <3>1 DEF Sound, Explained, Explains
    <3>3. p = o
      BY <1>3, <2>1, <3>1, <3>2 DEF Sound, Rows, OneId
    <3>4. QED
      BY <2>2, <3>2, <3>3 DEF Reconcilable
  <2>4. QED
    BY <2>3
<1>5. Sound(ops \ X, links, value, ignored, movement, drifted)
  <2>1. \A x \in X, o \in ops : x.transfer # 0 /\ o.transfer = x.transfer => o \in X
    BY <1>1
  <2>2. QED
    BY <1>3, <1>4, <2>1, Dropped
<1>6. Reachable(ops \ X, links)
  BY <1>3, StillReachable
<1>7. QED
  BY <1>2, <1>5, <1>6 DEF Now

LEMMA CreateTransferSound ==
  ASSUME Now, BookInv, NEW p \in positions, NEW to \in positions, NEW q \in Quantities, NEW d \in Days,
         CreateTransfer(p, to, q, d)
  PROVE  Now'
<1>1. PICK a : a = Leg("transfer_out", p, NextId(ops), q, d)
  OBVIOUS
<1>2. PICK b : b = Leg("transfer_in", to, NextId(ops) + 1, q, d)
  OBVIOUS
<1>3. /\ ops' = ops \cup {a, b} /\ UNCHANGED <<links, lineVars, movement, drifted>>
      /\ Room(2) /\ p[2] = to[2] /\ p[1] # to[1]
  BY <1>1, <1>2 DEF CreateTransfer, Commit
<1>4. Sound(ops, links, value, ignored, movement, drifted) /\ Reachable(ops, links) /\ Rows(ops, links)
  BY DEF Now, Sound
<1>5. PICK t : t = NextId(ops)
  OBVIOUS
<1>6. /\ t \in 1 .. MaxRows /\ t + 1 \in 1 .. MaxRows
      /\ \A o \in ops : o.id < t /\ o.id < t + 1
  <2>1. /\ t \in Nat /\ \A i \in 1 .. 2 : t + i - 1 \in 1 .. MaxRows
        /\ \A o \in ops : o.id < t /\ \A i \in 1 .. 2 : o.id < t + i - 1
    BY <1>3, <1>4, <1>5, RoomFor
  <2>2. 1 \in 1 .. 2 /\ 2 \in 1 .. 2
    OBVIOUS
  <2>3. t + 1 - 1 \in 1 .. MaxRows /\ t + 2 - 1 \in 1 .. MaxRows /\ \A o \in ops : o.id < t /\ o.id < t + 2 - 1
    BY <2>1, <2>2
  <2>4. t + 1 - 1 = t /\ t + 2 - 1 = t + 1
    BY <2>1
  <2>5. QED
    BY <2>3, <2>4
<1>7. /\ a = [id |-> t, source |-> "manual", transfer |-> t, account |-> p[1], position |-> p,
              kind |-> "transfer_out", day |-> d, amount |-> 0, quantity |-> q, extra |-> 0]
      /\ b = [id |-> t + 1, source |-> "manual", transfer |-> t, account |-> to[1], position |-> to,
              kind |-> "transfer_in", day |-> d, amount |-> 0, quantity |-> q, extra |-> 0]
  BY <1>1, <1>2, <1>5 DEF Leg
<1>8. a \in Operation /\ b \in Operation
  <2>1. p \in Positions /\ to \in Positions
    BY DEF BookInv
  <2>2. p[1] \in Manual /\ to[1] \in Manual
    BY <2>1 DEF Positions
  <2>3. q \in Nat /\ t \in 0 .. MaxRows
    BY <1>6, InvestmentsAssumption
  <2>4. QED
    BY <1>6, <1>7, <2>1, <2>2, <2>3 DEF Operation, Kinds
<1>9. PICK N : N = {a, b}
  OBVIOUS
<1>10. /\ a.id = t /\ b.id = t + 1 /\ a.transfer = t /\ b.transfer = t
       /\ a.source = "manual" /\ b.source = "manual"
       /\ a.kind = "transfer_out" /\ b.kind = "transfer_in"
       /\ a.quantity = b.quantity /\ a.day = b.day
       /\ a.position = p /\ b.position = to /\ a.account = p[1] /\ b.account = to[1]
  BY <1>7
<1>11. Sound(ops \cup N, links, value, ignored, movement, drifted)
  <2>1. OneId(N)
    BY <1>6, <1>9, <1>10 DEF OneId
  <2>2. Legs(N, t, a, b)
    BY <1>3, <1>9, <1>10 DEF Legs
  <2>3. Paired(N)
    BY <1>9, <1>10, <2>2 DEF Paired
  <2>4. \A x \in N, o \in ops : o.id < x.id
    BY <1>6, <1>9, <1>10
  <2>5. N \subseteq Operation
    BY <1>8, <1>9
  <2>6. QED
    BY <1>4, <2>1, <2>3, <2>4, <2>5, Grown
<1>12. Reachable(ops \cup N, links)
  <2>1. \A o \in ops \cup N : o \in ops \/ o.source # "synced"
    BY <1>9, <1>10
  <2>2. QED
    BY <1>4, <2>1, StillReachable
<1>13. QED
  BY <1>3, <1>9, <1>11, <1>12 DEF Now

\* The operation derived for a movement is an operation of its own.
LEMMA PivotType ==
  ASSUME Reported, NEW m \in Movements, NEW o, o = PivotOf(m), NextId(ops) \in 1 .. MaxRows
  PROVE  o \in Operation /\ o.id = NextId(ops) /\ o.transfer = 0
<1>1. PICK kind : kind = CASE movement[m].direction = "inflow" -> "deposit"
                           [] movement[m].interest -> "income"
                           [] OTHER -> "withdrawal"
  OBVIOUS
<1>2. kind \in Kinds
  BY <1>1 DEF Kinds
<1>3. o = [id |-> NextId(ops), source |-> "synced", transfer |-> 0, account |-> movement[m].account,
           position |-> None, day |-> movement[m].day, amount |-> movement[m].amount,
           quantity |-> 0, extra |-> 0, kind |-> kind]
  BY <1>1 DEF PivotOf
<1>4. /\ movement[m].account \in Integrated
      /\ movement[m].amount \in Nat /\ movement[m].day \in Days
  BY DEF Reported, MovementRow
<1>5. 0 \in 0 .. MaxRows
  BY InvestmentsAssumption
<1>6. QED
  BY <1>2, <1>3, <1>4, <1>5 DEF Operation

LEMMA DerivePivotSound ==
  ASSUME Now, Reported, NEW w \in Wanted, DerivePivot(w)
  PROVE  Now'
<1>1. PICK o : o = PivotOf(w.movement)
  OBVIOUS
<1>2. /\ w.movement # None /\ Room(2) /\ NewLink(o, w)
      /\ ops' = ops \cup {o} /\ UNCHANGED <<lineVars, movement, drifted>>
  BY <1>1 DEF DerivePivot
<1>3. Sound(ops, links, value, ignored, movement, drifted) /\ Reachable(ops, links) /\ Rows(ops, links)
  BY DEF Now, Sound
<1>4. /\ NextId(ops) \in 1 .. MaxRows /\ \A p \in ops : p.id < NextId(ops)
      /\ NextId(links) \in 1 .. MaxRows /\ \A k \in links : k.id < NextId(links)
  <2>1. PICK t : t = NextId(ops)
    OBVIOUS
  <2>2. /\ t \in Nat /\ \A i \in 1 .. 2 : t + i - 1 \in 1 .. MaxRows
        /\ \A p \in ops : p.id < t
        /\ NextId(links) \in 1 .. MaxRows /\ \A k \in links : k.id < NextId(links)
    BY <1>2, <1>3, <2>1, RoomFor
  <2>3. 1 \in 1 .. 2 /\ t + 1 - 1 = t
    BY <2>2
  <2>4. t \in 1 .. MaxRows
    BY <2>2, <2>3
  <2>5. QED
    BY <2>1, <2>2, <2>4
<1>5. o \in Operation /\ o.id = NextId(ops) /\ o.transfer = 0
  <2>1. w.movement \in Movements
    BY <1>2 DEF Wanted
  <2>2. QED
    BY <1>1, <1>4, <2>1, PivotType
<1>6. PICK N : N = {o}
  OBVIOUS
<1>7. Sound(ops \cup N, links, value, ignored, movement, drifted)
  <2>1. N \subseteq Operation /\ OneId(N)
    BY <1>5, <1>6 DEF OneId
  <2>2. Paired(N)
    BY <1>5, <1>6 DEF Paired
  <2>3. \A x \in N, p \in ops : p.id < x.id
    BY <1>4, <1>5, <1>6
  <2>4. QED
    BY <1>3, <2>1, <2>2, <2>3, Grown
<1>8. /\ Sound(ops \cup N, links', value, ignored, movement, drifted)
      /\ links \subseteq links'
      /\ \E k \in links' : k.op = o.id /\ k.movement = w.movement
  BY <1>2, <1>4, <1>6, <1>7, NewLinkSound
<1>9. Reachable(ops \cup N, links')
  BY <1>2, <1>3, <1>6, <1>8 DEF Reachable
<1>10. QED
  BY <1>2, <1>6, <1>8, <1>9 DEF Now

LEMMA NewLinkKeepsSound ==
  ASSUME Now, Room(1), NEW o \in ops, NEW w \in Wanted, NewLink(o, w), UNCHANGED <<ops, lineVars, movement, drifted>>
  PROVE  Now'
<1>1. Sound(ops, links, value, ignored, movement, drifted) /\ Reachable(ops, links) /\ Rows(ops, links)
  BY DEF Now, Sound
<1>2. NextId(links) \in 1 .. MaxRows /\ \A k \in links : k.id < NextId(links)
  BY <1>1, RoomFor
<1>3. Sound(ops, links', value, ignored, movement, drifted) /\ links \subseteq links'
  BY <1>1, <1>2, NewLinkSound
<1>4. Reachable(ops, links')
  BY <1>1, <1>3, StillReachable
<1>5. QED
  BY <1>3, <1>4 DEF Now

LEMMA CreatePositionSound ==
  ASSUME Now, NEW p \in Positions, NEW opening \in Openings, CreatePosition(p, opening)
  PROVE  Now'
<1> DEFINE units == IF opening.quantity > 0 THEN opening.quantity ELSE 1
           initial == [account |-> p[1], position |-> p, kind |-> "initial_balance", day |-> opening.day,
                       amount |-> opening.total, quantity |-> units, extra |-> 0]
<1>1. PICK in : in = initial
  OBVIOUS
<1>2. PICK o : o = AsOperation(in, NextId(ops))
  OBVIOUS
<1>3. UNCHANGED <<links, lineVars, movement, drifted>>
  BY DEF CreatePosition
<1>4. ops' = ops \/ (Room(1) /\ ops' = ops \cup {o})
  BY <1>1, <1>2 DEF CreatePosition, Commit
<1>5. Sound(ops, links, value, ignored, movement, drifted) /\ Reachable(ops, links) /\ Rows(ops, links)
  BY DEF Now, Sound
<1>6. CASE ops' = ops
  BY <1>3, <1>5, <1>6 DEF Now
<1>7. CASE Room(1) /\ ops' = ops \cup {o}
  <2>1. opening.quantity \in Nat /\ opening.total \in Nat /\ opening.day \in Days
    BY InvestmentsAssumption
  <2>2. in \in Input
    <3>1. p[1] \in Manual
      BY DEF Positions
    <3>2. units \in Nat
      BY <2>1
    <3> HIDE DEF units
    <3>3. QED
      BY <1>1, <2>1, <3>1, <3>2 DEF Input, Kinds
  <2>3. NextId(ops) \in 1 .. MaxRows /\ \A x \in ops : x.id < NextId(ops)
    <3>1. PICK t : t = NextId(ops)
      OBVIOUS
    <3>2. t \in Nat /\ (\A i \in 1 .. 1 : t + i - 1 \in 1 .. MaxRows) /\ \A x \in ops : x.id < t
      BY <1>5, <1>7, <3>1, RoomFor
    <3>3. 1 \in 1 .. 1 /\ t + 1 - 1 = t
      BY <3>2
    <3>4. t \in 1 .. MaxRows
      BY <3>2, <3>3
    <3>5. QED
      BY <3>1, <3>2, <3>4
  <2>4. o \in Operation /\ o.id = NextId(ops) /\ o.transfer = 0 /\ o.source = "manual"
    BY <1>2, <2>2, <2>3, AsOperationType
  <2>5. PICK N : N = {o}
    OBVIOUS
  <2>6. N \subseteq Operation /\ OneId(N)
    BY <2>4, <2>5 DEF OneId
  <2>7. Paired(N)
    BY <2>4, <2>5 DEF Paired
  <2>8. \A x \in N, y \in ops : y.id < x.id
    BY <2>3, <2>4, <2>5
  <2>9. Sound(ops \cup N, links, value, ignored, movement, drifted)
    BY <1>5, <2>6, <2>7, <2>8, Grown
  <2>10. Reachable(ops \cup N, links)
    BY <1>5, <2>4, <2>5, StillReachable
  <2>11. QED
    BY <1>3, <1>7, <2>5, <2>9, <2>10 DEF Now
<1>8. QED
  BY <1>4, <1>6, <1>7

LEMMA DeleteReconciliationSound ==
  ASSUME Now, NEW k \in links, DeleteReconciliation(k)
  PROVE  Now'
<1>1. RemoveLinks({k}) /\ UNCHANGED <<lineVars, movement>>
  BY DEF DeleteReconciliation
<1>2. /\ Left(ops, links, ops', links') /\ OneId(links') /\ Reachable(ops', links')
      /\ drifted' \subseteq drifted
      /\ \A x \in drifted \ drifted' : \A m \in links' : x \notin {m.line, m.movement}
  BY <1>1, RemovalLeaves
<1>3. Sound(ops, links, value, ignored, movement, drifted)
  BY DEF Now
<1>4. Sound(ops', links', value, ignored, movement, drifted')
  BY <1>2, <1>3, Unlinked
<1>5. QED
  BY <1>1, <1>2, <1>4 DEF Now

\* A line is ignored once its links are undone.
LEMMA IgnoreLineSound ==
  ASSUME Now, NEW l \in Lines, IgnoreLine(l)
  PROVE  Now'
<1>1. RemoveLinks(OnLine(l)) /\ UNCHANGED <<value, movement>> /\ ignored' = ignored \cup {l}
  BY DEF IgnoreLine
<1>2. OnLine(l) \subseteq links
  BY DEF OnLine
<1>3. /\ Left(ops, links, ops', links') /\ OneId(links') /\ Reachable(ops', links')
      /\ \A m \in links' : \E k \in links \ OnLine(l) : m.line = k.line
      /\ drifted' \subseteq drifted
      /\ \A x \in drifted \ drifted' : \A m \in links' : x \notin {m.line, m.movement}
  BY <1>1, <1>2, RemovalLeaves
<1>4. Sound(ops, links, value, ignored, movement, drifted)
  BY DEF Now
<1>5. Sound(ops', links', value, ignored, movement, drifted')
  BY <1>3, <1>4, Unlinked
<1>6. On(links', l) = {}
  BY <1>3 DEF On, OnLine
<1>7. /\ value \in [Lines -> LineValues \cup {0}] /\ ignored \subseteq Lines
      /\ drifted' \subseteq Lines \cup Movements
  BY <1>5 DEF Sound
<1>8. PICK J : J = ignored \cup {l}
  OBVIOUS
<1>9. J \subseteq Lines /\ \A m \in Lines : m # l => (m \in ignored <=> m \in J)
  BY <1>7, <1>8
<1>10. PICK E : E = drifted'
  OBVIOUS
<1>11. \A m \in Lines : \/ m \in E
                         \/ On(links', m) = {}
                         \/ (value[m] = value[m] /\ (m \in ignored <=> m \in J))
  BY <1>6, <1>9
<1>12. Sound(ops', links', value, J, movement, E)
  BY <1>5, <1>7, <1>9, <1>10, <1>11, Restated
<1>13. Sound(ops', links', value', ignored', movement', drifted')
  BY <1>1, <1>8, <1>10, <1>12
<1>14. QED
  BY <1>3, <1>13 DEF Now

\* A line that has links is there and counted, or was changed under them.
LEMMA CountedLines ==
  ASSUME Now, NEW l \in Lines, value[l] = 0 \/ l \in ignored
  PROVE  l \in drifted \/ On(links, l) = {}
<1>1. ASSUME NEW k \in links, k.line = l, l \notin drifted PROVE FALSE
  <2>1. l # None
    BY InvestmentsAssumption
  <2>2. PICK o \in ops : Explains(value, ignored, movement, drifted, o, k)
    BY DEF Now, Sound, Explained
  <2>3. QED
    BY <1>1, <2>1, <2>2 DEF Explains
<1>2. QED
  BY <1>1 DEF On

\* A line without links, or changed under them, takes any change.
LEMMA LineSound ==
  ASSUME Now, NEW l \in Lines, NEW E, E \in {drifted, drifted \cup {l}},
         l \in E \/ On(links, l) = {}, NEW v \in LineValues \cup {0},
         value' = [value EXCEPT ![l] = v], ignored' \in {ignored, ignored \ {l}, ignored \cup {l}},
         drifted' = E, UNCHANGED <<ops, links, movement>>
  PROVE  Now'
<1>1. Sound(ops, links, value, ignored, movement, drifted) /\ Reachable(ops, links)
  BY DEF Now
<1>2. /\ value \in [Lines -> LineValues \cup {0}] /\ ignored \subseteq Lines
      /\ drifted \subseteq Lines \cup Movements
  BY <1>1 DEF Sound
<1>3. PICK J, W : J = ignored' /\ W = value'
  OBVIOUS
<1>4. J \subseteq Lines /\ \A m \in Lines : m # l => (m \in ignored <=> m \in J)
  BY <1>2, <1>3
<1>5. W \in [Lines -> LineValues \cup {0}] /\ \A m \in Lines : m # l => W[m] = value[m]
  BY <1>2, <1>3
<1>6. drifted \subseteq E /\ E \subseteq Lines \cup Movements
  BY <1>2
<1>7. \A m \in Lines : \/ m \in E
                         \/ On(links, m) = {}
                         \/ (W[m] = value[m] /\ (m \in ignored <=> m \in J))
  BY <1>4, <1>5
<1>8. Sound(ops, links, W, J, movement, E)
  BY <1>1, <1>4, <1>5, <1>6, <1>7, Restated
<1>9. QED
  BY <1>1, <1>3, <1>8 DEF Now

\* A synchronization changes a line or a movement, and the history notes what
\* had links.
LEMMA SyncLineSound ==
  ASSUME Now, NEW l \in Lines, NEW v \in LineValues, NEW ruled \in BOOLEAN, SyncLine(l, v, ruled)
  PROVE  Now'
<1>1. /\ value' = [value EXCEPT ![l] = v] /\ ignored' \in {ignored, ignored \cup {l}}
      /\ UNCHANGED <<ops, links, movement>>
  BY DEF SyncLine
<1>2. OnLine(l) = On(links, l)
  BY DEF OnLine, On
<1>3. CASE OnLine(l) = {}
  <2>1. drifted' = drifted
    BY <1>3 DEF SyncLine, Drift
  <2>2. QED
    BY <1>1, <1>2, <1>3, <2>1, LineSound
<1>4. CASE OnLine(l) # {}
  <2>1. drifted' = drifted \cup {l}
    BY <1>4 DEF SyncLine, Drift
  <2>2. PICK E : E = drifted \cup {l}
    OBVIOUS
  <2>3. l \in E /\ drifted' = E
    BY <2>1, <2>2
  <2>4. QED
    BY <1>1, <2>2, <2>3, LineSound
<1>5. QED
  BY <1>3, <1>4

LEMMA SyncMovementSound ==
  ASSUME Now, Reported, NEW m \in Movements, NEW row \in Reports[m], SyncMovement(m, row)
  PROVE  Now'
<1>1. /\ movement' = [movement EXCEPT ![m] = row]
      /\ UNCHANGED <<ops, links, lineVars>>
      /\ drifted' = IF OnMovement(m) = {} THEN drifted ELSE drifted \cup {m}
  BY DEF SyncMovement, Drift
<1>2. Sound(ops, links, value, ignored, movement, drifted) /\ Reachable(ops, links)
  BY DEF Now
<1>3. /\ value \in [Lines -> LineValues \cup {0}] /\ ignored \subseteq Lines
      /\ drifted \subseteq Lines \cup Movements
  BY <1>2 DEF Sound
<1>4. PICK Q, E : Q = movement' /\ E = drifted'
  OBVIOUS
<1>5. drifted \subseteq E /\ E \subseteq Lines \cup Movements
  BY <1>1, <1>3, <1>4
<1>6. \A x \in Movements : \/ x \in E \/ \A k \in links : k.movement # x
                            \/ Q[x] = movement[x]
  <2>1. ASSUME NEW x \in Movements, x # m PROVE Q[x] = movement[x]
    BY <1>1, <1>4, <2>1 DEF Reported
  <2>2. CASE OnMovement(m) = {}
    BY <2>1, <2>2 DEF OnMovement
  <2>3. CASE OnMovement(m) # {}
    BY <1>1, <1>4, <2>1, <2>3
  <2>4. QED
    BY <2>2, <2>3
<1>7. \A l \in Lines : \/ l \in E \/ On(links, l) = {}
                        \/ (value[l] = value[l] /\ (l \in ignored <=> l \in ignored))
  OBVIOUS
<1>8. Sound(ops, links, value, ignored, Q, E)
  BY <1>2, <1>3, <1>5, <1>6, <1>7, Restated
<1>9. QED
  BY <1>1, <1>2, <1>4, <1>8 DEF Now

LEMMA InitNow == Init => Now
<1>1. SUFFICES ASSUME Init PROVE Now
  OBVIOUS
<1>2. ops = {} /\ links = {} /\ ignored = {} /\ drifted = {} /\ value = [l \in Lines |-> 0]
  BY <1>1 DEF Init
<1>3. Rows({}, {}) /\ Paired({}) /\ Reachable({}, {})
  BY DEF Rows, Paired, Reachable, OneId
<1>4. Explained({}, {}, value, {}, movement, {})
  BY DEF Explained
<1>5. Capable({}, {}, value, {})
  <2>1. ASSUME NEW l \in Lines PROVE Amount(On({}, l)) <= Abs(value[l])
    <3>1. On({}, l) = {} /\ value[l] = 0
      BY <1>2 DEF On
    <3>2. Abs(0) = 0
      BY DEF Abs
    <3>3. QED
      BY <3>1, <3>2, NothingSums
  <2>2. QED
    BY <2>1 DEF Capable
<1>6. QED
  BY <1>2, <1>3, <1>4, <1>5 DEF Now, Sound

LEMMA NowPreserved ==
  ASSUME Now, BookInv, Reported, [Next]_vars
  PROVE  Now'
<1>1. ASSUME UNCHANGED <<ops, links, lineVars, movement, drifted>> PROVE Now'
  BY <1>1 DEF Now
<1>2. ASSUME OperationNext PROVE Now'
  BY <1>2, CreateOperationsSound, UpdateOperationSound, DeleteOperationSound,
     CreateTransferSound, DeleteTransferSound DEF OperationNext
<1>3. ASSUME LinkNext PROVE Now'
  <2>1. ASSUME NEW o \in ops, NEW w \in Wanted, CreateReconciliation(o, w) PROVE Now'
    BY <2>1, NewLinkKeepsSound DEF CreateReconciliation
  <2>2. ASSUME NEW w \in Wanted, ReusePivot(w) PROVE Now'
    <3>1. PICK o \in PivotsOf(w.movement) : NewLink(o, [w EXCEPT !.movement = None])
      BY <2>2 DEF ReusePivot
    <3>2. o \in ops
      BY <3>1 DEF PivotsOf
    <3>3. [w EXCEPT !.movement = None] \in Wanted
      BY DEF Wanted
    <3>4. Room(1) /\ UNCHANGED <<ops, lineVars, movement, drifted>>
      BY <2>2 DEF ReusePivot
    <3>5. QED
      BY <3>1, <3>2, <3>3, <3>4, NewLinkKeepsSound
  <2>3. QED
    BY <1>3, <2>1, <2>2, DerivePivotSound, DeleteReconciliationSound DEF LinkNext
<1>4. ASSUME BookNext PROVE Now'
  <2>1. ASSUME NEW a \in Manual, CreateAccount(a) \/ DeleteAccount(a) PROVE Now'
    BY <1>1, <2>1 DEF CreateAccount, DeleteAccount
  <2>2. ASSUME EnsureIntegratedAccounts PROVE Now'
    BY <1>1, <2>2 DEF EnsureIntegratedAccounts
  <2>3. ASSUME NEW p \in positions, DeletePosition(p) PROVE Now'
    BY <1>1, <2>3 DEF DeletePosition
  <2>4. QED
    BY <1>4, <2>1, <2>2, <2>3, CreatePositionSound DEF BookNext
<1>5. ASSUME LineNext PROVE Now'
  <2>1. \A l : OnLine(l) = On(links, l)
    BY DEF OnLine, On
  <2>2. ASSUME NEW l \in Lines, NEW v \in LineValues, CreateManual(l, v) PROVE Now'
    <3>1. l \in drifted \/ On(links, l) = {}
      BY <2>2, CountedLines DEF CreateManual
    <3>2. QED
      BY <2>2, <3>1, LineSound DEF CreateManual
  <2>3. ASSUME NEW l \in Lines, NEW v \in LineValues, UpdateManual(l, v) PROVE Now'
    BY <2>1, <2>3, LineSound DEF UpdateManual
  <2>4. ASSUME NEW l \in Lines, DeleteManual(l) PROVE Now'
    BY <2>1, <2>4, LineSound DEF DeleteManual
  <2>5. ASSUME NEW l \in Lines, ConsiderLine(l) PROVE Now'
    <3>1. l \in drifted \/ On(links, l) = {}
      BY <2>5, CountedLines DEF ConsiderLine
    <3>2. value \in [Lines -> LineValues \cup {0}]
      BY DEF Now, Sound
    <3>3. PICK v : v = value[l]
      OBVIOUS
    <3>4. v \in LineValues \cup {0} /\ value = [value EXCEPT ![l] = v]
      BY <3>2, <3>3
    <3>5. /\ value' = [value EXCEPT ![l] = v] /\ ignored' = ignored \ {l}
          /\ UNCHANGED <<ops, links, movement, drifted>>
      BY <2>5, <3>4 DEF ConsiderLine
    <3>6. QED
      BY <3>1, <3>4, <3>5, LineSound
  <2>6. QED
    BY <1>5, <2>2, <2>3, <2>4, <2>5, IgnoreLineSound DEF LineNext
<1>6. ASSUME SyncNext PROVE Now'
  BY <1>6, SyncLineSound, SyncMovementSound DEF SyncNext
<1>7. QED
  BY <1>1, <1>2, <1>3, <1>4, <1>5, <1>6 DEF Next

\* The inductive invariant of operations and links: Now, beside the books.
THEOREM Inductive == Spec => []Now
<1>1. Init => Now
  BY InitNow
<1>2. Now /\ BookInv /\ Reported /\ [Next]_vars => Now'
  BY NowPreserved
<1>3. Spec => []BookInv
  BY BooksInvariant, PTL
<1>4. QED
  BY <1>1, <1>2, <1>3, ReportedAlways, PTL DEF Spec

\* The tables hold what their columns may. (storage.go, ledger.go, scanOperation,
\* reconciliations.go, scanReconciliation)
THEOREM TypeCorrect == Spec => []TypeOK
<1> DEFINE Known == accounts \subseteq Manual \cup Integrated
<1>1. Init => Known
  BY DEF Init
<1>2. ASSUME Known, Reported, [Next]_vars PROVE Known'
  <2>1. ASSUME NEW w \in Wanted, DerivePivot(w) PROVE Known'
    <3>1. w.movement \in Movements /\ accounts' = accounts \cup {movement[w.movement].account}
      BY <2>1 DEF DerivePivot, Wanted
    <3>2. movement[w.movement].account \in Integrated
      BY <1>2, <3>1 DEF Reported, MovementRow
    <3>3. QED
      BY <1>2, <3>1, <3>2
  <2>2. CASE OperationNext
    BY <1>2, <2>2 DEF OperationNext, CreateOperations, UpdateOperation, DeleteOperation,
                      CreateTransfer, DeleteTransfer
  <2>3. CASE LinkNext
    BY <1>2, <2>1, <2>3 DEF LinkNext, CreateReconciliation, ReusePivot, DeleteReconciliation
  <2>4. CASE BookNext
    BY <1>2, <2>4 DEF BookNext, CreateAccount, DeleteAccount, EnsureIntegratedAccounts,
                      CreatePosition, DeletePosition
  <2>5. CASE LineNext
    BY <1>2, <2>5 DEF LineNext, CreateManual, UpdateManual, DeleteManual, IgnoreLine, ConsiderLine
  <2>6. CASE SyncNext
    BY <1>2, <2>6 DEF SyncNext, SyncLine, SyncMovement
  <2>7. QED
    BY <1>2, <2>2, <2>3, <2>4, <2>5, <2>6 DEF Next
<1>3. Known /\ BookInv /\ Now /\ Reported => TypeOK
  BY DEF BookInv, Reported, Now, Sound, Rows, TypeOK
<1> HIDE DEF Known
<1>4. Spec => []BookInv
  BY BooksInvariant, PTL
<1>5. QED
  BY <1>1, <1>2, <1>3, <1>4, ReportedAlways, Inductive, PTL DEF Spec

\* A transfer keeps its two legs through everything: only DeleteTransfer takes
\* them, together, and no leg is linked, corrected or derived. (operations.go,
\* CreateTransfer, DeleteTransfer)
THEOREM TransfersStayPaired == Spec => []TransfersBalance
<1>1. ASSUME Now PROVE TransfersBalance
  <2>1. SUFFICES ASSUME NEW o \in ops, o.transfer # 0
                 PROVE  \E p \in ops : /\ {x \in ops : x.transfer = o.transfer} = {o, p}
                                       /\ {o.kind, p.kind} = {"transfer_out", "transfer_in"}
                                       /\ o.quantity = p.quantity
                                       /\ o.day = p.day
                                       /\ o.position[2] = p.position[2]
                                       /\ o.account # p.account
    BY DEF TransfersBalance
  <2>2. PICK a \in ops, b \in ops : Legs(ops, o.transfer, a, b)
    BY <1>1, <2>1 DEF Now, Sound, Paired
  <2>3. {x \in ops : x.transfer = o.transfer} = {a, b}
    BY <2>2 DEF Legs
  <2>4. CASE o = a
    BY <2>2, <2>3, <2>4 DEF Legs
  <2>5. CASE o = b
    BY <2>2, <2>3, <2>5 DEF Legs
  <2>6. o = a \/ o = b
    BY <2>3
  <2>7. QED
    BY <2>4, <2>5, <2>6
<1>2. QED
  BY <1>1, Inductive, PTL

\* No correction, edit, decision or hand-off leaves a link that no longer says
\* what was confirmed. (reconciliations.go, validateOperationLinks,
\* financialTransactionValue, keepPivotReachable)
THEOREM LinksStayTrue == Spec => []LinksExplain
<1>1. Now => LinksExplain
  BY DEF Now, Sound, Explained, Explains, LinksExplain, LineMatches
<1>2. QED
  BY <1>1, Inductive, PTL

\* The sums hold whatever the number of parcels, amounts and corrections.
\* (reconciliations.go, sumReconciliations, createReconciliation)
THEOREM NothingExplainedTwice == Spec => []CapacityKept
<1>1. ASSUME Now PROVE CapacityKept
  <2>1. (\A l \in Lines : OnLine(l) = On(links, l)) /\ \A o \in ops : LinksOf(o) = Of(links, o)
    BY DEF OnLine, On, LinksOf, Of
  <2>2. Capable(ops, links, value, drifted)
    BY <1>1 DEF Now, Sound
  <2>3. QED
    BY <2>1, <2>2 DEF Capable, CapacityKept
<1>2. QED
  BY <1>1, Inductive, PTL

\* Whichever parcels of a movement are undone, in whatever order, the operation
\* derived from it is found or gone. (reconciliations.go, removeLink,
\* keepPivotReachable)
THEOREM PivotsStayReachable == Spec => []PivotReachable
<1>1. Now => PivotReachable
  BY DEF Now, Reachable, PivotReachable, LinksOf
<1>2. QED
  BY <1>1, Inductive, PTL
=============================================================================
