---------------------------- MODULE Investments ----------------------------
(***************************************************************************)
(* The local investment book: custody accounts, their positions, the       *)
(* operations a replay turns into cash and units, and the reconciliations  *)
(* that say an operation, a bank line and an imported movement are one     *)
(* event.  (internal/investments, and the guards of                        *)
(* internal/transactions/manual.go)                                        *)
(*                                                                         *)
(* An action is a request.  Most are one transaction; those that check and *)
(* then write (DeleteAccount, DeletePosition, UpdateManual) or write in    *)
(* several statements (IgnoreLine) are one action here, the requests being *)
(* one user's and completed: Obligations has what happens when an          *)
(* inclusion change is not.  Beside them synchronizations restate the      *)
(* imported lines and movements, one transaction each, without a look at   *)
(* the links.  Cost basis, unit prices, names and portfolios are left out: *)
(* nothing below depends on them.  A position is known by its account and  *)
(* asset, which are unique.                                                *)
(***************************************************************************)
EXTENDS Integers, Sequences, FiniteSetsExt

CONSTANTS
  Manual,       \* custody accounts kept by hand
  Integrated,   \* custody accounts of the provider connections
  Assets,
  Lines,        \* bank lines
  Imported,     \* those a synchronization stores, the others are entered by hand
  LineValues,   \* the signed values a line is given
  Movements,    \* movements imported from the provider
  Reports,      \* Reports[m]: what the provider says of m over time
  Batches,      \* the sequences of operations a request carries
  Corrections,  \* the operations an update asks for
  Openings,     \* opening quantity, total and day of a new position
  Amounts,      \* amounts of reconciliations
  Quantities,   \* quantities of transfers
  Days,
  None,
  MaxRows       \* bound on operations and reconciliations, by their identities

Kinds == {"initial_balance", "deposit", "withdrawal", "buy", "sell", "income", "fee",
          "tax", "valuation", "transfer_out", "transfer_in"}
Reconcilable == {"deposit", "withdrawal", "income", "fee", "tax"}
BankOutflow == {"deposit", "fee", "tax"}

Positions == Manual \X Assets
\* fees and taxes only ever appear as their sum, extra; quantity 0: absent.
MovementRow == [account : Integrated, direction : {"inflow", "outflow", "unknown"},
                interest : BOOLEAN, amount : Nat, day : Days]
Input == [account : Manual \cup Integrated, position : Positions \cup {None}, kind : Kinds,
          day : Days, amount : Nat, quantity : Nat, extra : Nat]

ASSUME InvestmentsAssumption ==
  /\ Manual \cap Integrated = {}
  /\ None \notin Positions \cup Lines \cup Movements
  /\ Lines \cap Movements = {} /\ Imported \subseteq Lines
  /\ MaxRows \in Nat
  /\ Days \subseteq Nat
  /\ Quantities \subseteq Nat \ {0}
  /\ Amounts \subseteq Nat \ {0}
  /\ LineValues \subseteq Int \ {0}
  /\ Corrections \subseteq Input
  /\ Batches \subseteq Seq(Input) \ {<<>>}
  /\ Openings \subseteq [quantity : Nat, total : Nat, day : Days]
  /\ Reports \in [Movements -> (SUBSET MovementRow) \ {{}}]
  /\ \A m \in Movements : \A r, t \in Reports[m] : r.account = t.account

VARIABLES
  accounts,   \* rows of investment_accounts
  positions,  \* rows of investment_positions
  ops,        \* rows of investment_operations; identities rise with created_at
  links,      \* rows of investment_reconciliations; likewise
  value,      \* value[l]: signed amount of bank line l, 0 when there is none
  ignored,    \* lines whose inclusion decision is "ignored"
  movement,   \* rows of financial_investment_transactions
  drifted     \* history: linked lines and movements a synchronization changed

bookVars == <<accounts, positions>>
lineVars == <<value, ignored>>
vars == <<bookVars, ops, links, lineVars, movement, drifted>>

\* transfer: what the legs of a transfer share, 0 outside of one.
Operation == [id : 1 .. MaxRows, source : {"manual", "synced"}, transfer : 0 .. MaxRows,
              account : Manual \cup Integrated, position : Positions \cup {None}, kind : Kinds,
              day : Days, amount : Nat, quantity : Nat, extra : Nat]
Link == {k \in [id : 1 .. MaxRows, op : 1 .. MaxRows, line : Lines \cup {None},
                 movement : Movements \cup {None}, amount : Amounts] :
           k.line # None \/ k.movement # None}

TypeOK ==
  /\ accounts \subseteq Manual \cup Integrated
  /\ positions \subseteq Positions
  /\ ops \subseteq Operation
  /\ links \subseteq Link
  /\ value \in [Lines -> LineValues \cup {0}]
  /\ ignored \subseteq Lines
  /\ movement \in [Movements -> MovementRow]
  /\ drifted \subseteq Lines \cup Movements

Init ==
  /\ accounts = {}
  /\ positions = {}
  /\ ops = {}
  /\ links = {}
  /\ value = [l \in Lines |-> 0]
  /\ ignored = {}
  /\ \E first \in [Movements -> UNION Range(Reports)] :
       movement = first /\ \A m \in Movements : first[m] \in Reports[m]
  /\ drifted = {}

\* Rows are numbered as they are created; n more must fit.
LastId(S) == Max({0} \cup {x.id : x \in S})
NextId(S) == LastId(S) + 1
Room(n) == LastId(ops) + LastId(links) + n <= MaxRows

-----------------------------------------------------------------------------
(* The replay *)

ValidShape(o) ==
  LET bare == o.quantity = 0 /\ o.extra = 0 IN
  \/ /\ o.kind = "initial_balance"
     /\ IF o.position # None THEN o.quantity > 0 ELSE o.amount > 0 /\ bare
  \/ o.kind \in Reconcilable /\ o.position = None /\ o.amount > 0 /\ bare
  \/ o.kind \in {"buy", "sell"} /\ o.position # None /\ o.quantity > 0 /\ o.amount > 0
  \/ o.kind = "valuation" /\ o.position # None /\ bare
  \/ o.kind \in {"transfer_out", "transfer_in"} /\ o.position # None /\ o.quantity > 0
     /\ o.transfer # 0 /\ o.extra = 0

\* What o adds to the cash of its account, and to the units of its position.
CashOf(o) ==
  CASE o.kind \in {"deposit", "income"} -> o.amount
    [] o.kind = "initial_balance" -> IF o.position = None THEN o.amount ELSE 0
    [] o.kind \in {"withdrawal", "fee", "tax"} -> - o.amount
    [] o.kind = "buy" -> - (o.amount + o.extra)
    [] o.kind = "sell" -> o.amount - o.extra
    [] OTHER -> 0

UnitsOf(o) ==
  CASE o.kind \in {"initial_balance", "buy", "transfer_in"} -> o.quantity
    [] o.kind \in {"sell", "transfer_out"} -> - o.quantity
    [] OTHER -> 0

EmptyBook == [ok |-> TRUE, cash |-> 0, units |-> [p \in Positions |-> 0]]

ApplyOperation(book, o) ==
  LET cash == book.cash + CashOf(o)
      held == IF o.position = None THEN 0 ELSE book.units[o.position]
  IN [ok |-> /\ book.ok
             /\ ValidShape(o)
             /\ o.kind \in {"sell", "transfer_out"} => held >= o.quantity
             /\ o.kind = "valuation" => held > 0
             /\ cash >= 0,
      cash |-> cash,
      units |-> IF o.position = None THEN book.units
                ELSE [book.units EXCEPT ![o.position] = @ + UnitsOf(o)]]

\* operationOrder: by day, then by creation.
Earlier(o, p) == o.day < p.day \/ (o.day = p.day /\ o.id < p.id)

Latest(O) == CHOOSE o \in O : \A p \in O : p = o \/ Earlier(p, o)

ReplayOf(O) ==
  LET replay[S \in SUBSET O] ==
        IF S = {} THEN EmptyBook ELSE ApplyOperation(replay[S \ {Latest(S)}], Latest(S))
  IN replay[O]
Replays(O) == ReplayOf(O).ok
Book(O, a) == {o \in O : o.account = a}

\* mutateLedger: O replaces the operations when every account touched replays;
\* an integrated account never does, its balances are the provider's.
Commit(O, touched) ==
  /\ \A a \in touched \cap Manual : Replays(Book(O, a))
  /\ ops' = O

-----------------------------------------------------------------------------
(* Reconciliations *)

Amount(L) == MapThenSumSet(LAMBDA k : k.amount, L)
Abs(n) == IF n < 0 THEN - n ELSE n

LinksOf(o) == {k \in links : k.op = o.id}
OnLine(l) == {k \in links : k.line = l}
OnMovement(m) == {k \in links : k.movement = m}

\* financialTransactionValue refuses a line that is gone or ignored; the sign
\* must say which way the money of the operation went.
LineMatches(o, l) ==
  /\ value[l] # 0
  /\ l \notin ignored
  /\ (value[l] < 0) <=> (o.kind \in BankOutflow)

MovementMatches(o, row) ==
  /\ row.direction = IF o.kind = "deposit" THEN "inflow" ELSE "outflow"
  /\ row.amount > 0
  /\ o.account \in Integrated => o.account = row.account

\* Defect: what the line already explains is not counted.
LinkableLine(o, w) ==
  /\ w.line # None \/ w.movement # None
  /\ o.kind \in Reconcilable
  /\ \A k \in LinksOf(o) : /\ w.line # None => k.line # w.line
                           /\ w.movement # None => k.movement # w.movement
  /\ Amount(LinksOf(o)) + w.amount <= o.amount
  /\ w.line # None => LineMatches(o, w.line)
  /\ w.movement # None => /\ MovementMatches(o, movement[w.movement])
                          /\ Amount(OnMovement(w.movement)) + w.amount <= movement[w.movement].amount

\* createReconciliation's judgement of a link w to the operation o.
Linkable(o, w) ==
  /\ w.line # None \/ w.movement # None
  /\ o.kind \in Reconcilable
  /\ \A k \in LinksOf(o) : /\ w.line # None => k.line # w.line
                           /\ w.movement # None => k.movement # w.movement
  /\ Amount(LinksOf(o)) + w.amount <= o.amount
  /\ w.line # None => /\ LineMatches(o, w.line)
                      /\ Amount(OnLine(w.line)) + w.amount <= Abs(value[w.line])
  /\ w.movement # None => /\ MovementMatches(o, movement[w.movement])
                          /\ Amount(OnMovement(w.movement)) + w.amount <= movement[w.movement].amount

NewLink(o, w) ==
  /\ Linkable(o, w)
  /\ links' = links \cup {[id |-> NextId(links), op |-> o.id, line |-> w.line,
                           movement |-> w.movement, amount |-> w.amount]}

\* validateOperationLinks: the links an operation carries still fit it as o.
LinksStillFit(o) ==
  LinksOf(o) # {} =>
    /\ o.kind \in Reconcilable
    /\ \A k \in LinksOf(o) : /\ k.movement # None => MovementMatches(o, movement[k.movement])
                             /\ k.line # None => LineMatches(o, k.line)
    /\ Amount(LinksOf(o)) <= o.amount

Wanted == [line : Lines \cup {None}, movement : Movements \cup {None}, amount : Amounts]

CreateReconciliation(o, w) ==
  /\ Room(1)
  /\ NewLink(o, w)
  /\ UNCHANGED <<bookVars, ops, lineVars, movement, drifted>>

\* The operation of movement m is found by a link that records m.
PivotsOf(m) == {o \in ops : o.source = "synced" /\ OnMovement(m) \cap LinksOf(o) # {}}

\* Without an operation, a further parcel of a movement joins its pivot; it
\* records the line alone.
ReusePivot(w) ==
  /\ Room(1)
  /\ w.movement # None
  /\ w.line # None
  /\ \E o \in PivotsOf(w.movement) :
       /\ \A p \in PivotsOf(w.movement) : o.id <= p.id
       /\ NewLink(o, [w EXCEPT !.movement = None])
  /\ UNCHANGED <<bookVars, ops, lineVars, movement, drifted>>

PivotOf(m) ==
  LET mv == movement[m] IN
  [id |-> NextId(ops), source |-> "synced", transfer |-> 0, account |-> mv.account,
   position |-> None, day |-> mv.day, amount |-> mv.amount, quantity |-> 0, extra |-> 0,
   kind |-> CASE mv.direction = "inflow" -> "deposit"
              [] mv.interest -> "income"
              [] OTHER -> "withdrawal"]

\* The first parcel derives the operation, and the account when it is missing.
DerivePivot(w) ==
  /\ w.movement # None
  /\ PivotsOf(w.movement) = {}
  /\ movement[w.movement].direction # "unknown"
  /\ movement[w.movement].amount > 0
  /\ Room(2)
  /\ NewLink(PivotOf(w.movement), w)
  /\ ops' = ops \cup {PivotOf(w.movement)}
  /\ accounts' = accounts \cup {movement[w.movement].account}
  /\ UNCHANGED <<positions, lineVars, movement, drifted>>

\* keepPivotReachable: of the parcels that remain of a derived operation, the
\* oldest without a movement takes over the one its deleted sibling k recorded.
Heirs(k, remaining) ==
  {r \in remaining :
     /\ k.movement # None
     /\ \E o \in ops : o.id = k.op /\ o.source = "synced"
     /\ r.op = k.op /\ r.movement = None
     /\ \A s \in remaining : s.op = k.op /\ s.movement = None => r.id <= s.id}

StillLinked == {x \in drifted : \E k \in links' : x \in {k.line, k.movement}}

\* Defect: the movement is not handed to a sibling.
RemoveLinksForgetting(K) ==
  LET remaining == links \ K
  IN /\ links' = remaining
     /\ ops' = {o \in ops : \/ o.source # "synced"
                            \/ o.id \notin {k.op : k \in K}
                            \/ o.id \in {r.op : r \in remaining}}
     /\ drifted' = StillLinked

\* removeLink for each link of K, no two of which are of one operation.
RemoveLinks(K) ==
  LET remaining == links \ K
      TakeOver(r) == IF \E k \in K : r \in Heirs(k, remaining)
                     THEN [r EXCEPT !.movement = (CHOOSE k \in K : r \in Heirs(k, remaining)).movement]
                     ELSE r
  IN /\ links' = {TakeOver(r) : r \in remaining}
     /\ ops' = {o \in ops : \/ o.source # "synced"
                            \/ o.id \notin {k.op : k \in K}
                            \/ o.id \in {r.op : r \in remaining}}
     /\ drifted' = StillLinked

DeleteReconciliation(k) ==
  /\ RemoveLinks({k})
  /\ UNCHANGED <<bookVars, lineVars, movement>>

-----------------------------------------------------------------------------
(* Operations *)

NoWanted == [line |-> None, movement |-> None, amount |-> 0]

AsOperation(in, id) ==
  [id |-> id, source |-> "manual", transfer |-> 0, account |-> in.account, position |-> in.position,
   kind |-> in.kind, day |-> in.day, amount |-> in.amount, quantity |-> in.quantity, extra |-> in.extra]

\* validateOperationAccount and requirePositionOfAccount.
Acceptable(in) ==
  /\ in.account \in accounts
  /\ in.account \in Integrated => in.kind \in Reconcilable /\ in.position = None
  /\ ValidShape(AsOperation(in, 0))
  /\ in.position # None => in.position \in positions /\ in.position[1] = in.account

\* All the operations of the batch and the link of the first, or none.
CreateOperations(batch, w) ==
  LET new == [i \in DOMAIN batch |-> AsOperation(batch[i], NextId(ops) + i - 1)]
  IN /\ Room(Len(batch) + (IF w = NoWanted THEN 0 ELSE 1))
     /\ \A i \in DOMAIN batch : Acceptable(batch[i])
     /\ IF w = NoWanted THEN UNCHANGED links ELSE NewLink(new[1], w)
     /\ Commit(ops \cup Range(new), {batch[i].account : i \in DOMAIN batch})
     /\ UNCHANGED <<bookVars, lineVars, movement, drifted>>

\* Defect: only the account the operation ends up in is replayed.
UpdateOperationOneBook(o, in) ==
  LET updated == AsOperation(in, o.id)
  IN /\ o.transfer = 0
     /\ o.source = "manual"
     /\ Acceptable(in)
     /\ LinksStillFit(updated)
     /\ Commit((ops \ {o}) \cup {updated}, {in.account})
     /\ UNCHANGED <<bookVars, links, lineVars, movement, drifted>>

\* The account left behind is replayed with the one the operation moves to.
UpdateOperation(o, in) ==
  LET updated == AsOperation(in, o.id)
  IN /\ o.transfer = 0
     /\ o.source = "manual"
     /\ Acceptable(in)
     /\ LinksStillFit(updated)
     /\ Commit((ops \ {o}) \cup {updated}, {in.account, o.account})
     /\ UNCHANGED <<bookVars, links, lineVars, movement, drifted>>

\* Defect: one leg of a transfer may be deleted.
DeleteOperationAnyLeg(o) ==
  /\ o.source = "manual"
  /\ LinksOf(o) = {}
  /\ Commit(ops \ {o}, {o.account})
  /\ UNCHANGED <<bookVars, links, lineVars, movement, drifted>>

DeleteOperation(o) ==
  /\ o.transfer = 0
  /\ o.source = "manual"
  /\ LinksOf(o) = {}
  /\ Commit(ops \ {o}, {o.account})
  /\ UNCHANGED <<bookVars, links, lineVars, movement, drifted>>

Leg(kind, p, id, q, d) ==
  [id |-> id, source |-> "manual", transfer |-> NextId(ops), account |-> p[1], position |-> p,
   kind |-> kind, day |-> d, amount |-> 0, quantity |-> q, extra |-> 0]

\* The units must have been there on the day; the replay of both accounts then
\* judges the days that follow.  A leg's amount is cost basis: left out.
CreateTransfer(p, to, q, d) ==
  LET before == ReplayOf({o \in Book(ops, p[1]) : o.day <= d})
      legs == {Leg("transfer_out", p, NextId(ops), q, d), Leg("transfer_in", to, NextId(ops) + 1, q, d)}
  IN /\ {p, to} \subseteq positions
     /\ p[2] = to[2]
     /\ p[1] # to[1]
     /\ Room(2)
     /\ before.ok
     /\ before.units[p] >= q
     /\ Commit(ops \cup legs, {p[1], to[1]})
     /\ UNCHANGED <<bookVars, links, lineVars, movement, drifted>>

DeleteTransfer(t) ==
  LET legs == {o \in ops : o.transfer = t}
  IN /\ Cardinality(legs) = 2
     /\ Commit(ops \ legs, {o.account : o \in legs})
     /\ UNCHANGED <<bookVars, links, lineVars, movement, drifted>>

-----------------------------------------------------------------------------
(* Accounts, positions and bank lines *)

CreateAccount(a) ==
  /\ a \notin accounts
  /\ accounts' = accounts \cup {a}
  /\ UNCHANGED <<positions, ops, links, lineVars, movement, drifted>>

\* The connection has holdings, and a read of the book notices.
EnsureIntegratedAccounts ==
  /\ accounts' = accounts \cup Integrated
  /\ accounts' # accounts
  /\ UNCHANGED <<positions, ops, links, lineVars, movement, drifted>>

DeleteAccount(a) ==
  /\ a \in accounts \cap Manual
  /\ \A p \in positions : p[1] # a
  /\ Book(ops, a) = {}
  /\ accounts' = accounts \ {a}
  /\ UNCHANGED <<positions, ops, links, lineVars, movement, drifted>>

\* A position may open empty; an amount is one initial_balance, of one unit
\* unless a quantity is given, and a quantity without an amount is refused.
CreatePosition(p, opening) ==
  LET units == IF opening.quantity > 0 THEN opening.quantity ELSE 1
      initial == [account |-> p[1], position |-> p, kind |-> "initial_balance", day |-> opening.day,
                  amount |-> opening.total, quantity |-> units, extra |-> 0]
  IN /\ opening.quantity > 0 => opening.total > 0
     /\ p[1] \in accounts
     /\ p \notin positions
     /\ positions' = positions \cup {p}
     /\ IF opening.total > 0
        THEN Room(1) /\ Commit(ops \cup {AsOperation(initial, NextId(ops))}, {p[1]})
        ELSE UNCHANGED ops
     /\ UNCHANGED <<accounts, links, lineVars, movement, drifted>>

DeletePosition(p) ==
  /\ \A o \in ops : o.position # p
  /\ positions' = positions \ {p}
  /\ UNCHANGED <<accounts, ops, links, lineVars, movement, drifted>>

CreateManual(l, v) ==
  /\ l \notin Imported
  /\ value[l] = 0
  /\ value' = [value EXCEPT ![l] = v]
  /\ UNCHANGED <<bookVars, ops, links, ignored, movement, drifted>>

\* Defect: a linked line may be edited.
UpdateManualLinked(l, v) ==
  /\ l \notin Imported
  /\ value[l] # 0
  /\ value' = [value EXCEPT ![l] = v]
  /\ UNCHANGED <<bookVars, ops, links, ignored, movement, drifted>>

UpdateManual(l, v) ==
  /\ l \notin Imported
  /\ value[l] # 0
  /\ OnLine(l) = {}
  /\ value' = [value EXCEPT ![l] = v]
  /\ UNCHANGED <<bookVars, ops, links, ignored, movement, drifted>>

DeleteManual(l) ==
  /\ l \notin Imported
  /\ value[l] # 0
  /\ OnLine(l) = {}
  /\ value' = [value EXCEPT ![l] = 0]
  /\ ignored' = ignored \ {l}
  /\ UNCHANGED <<bookVars, ops, links, movement, drifted>>

\* onIgnoredHook: the line gives up its links with the decision.
IgnoreLine(l) ==
  /\ value[l] # 0
  /\ ignored' = ignored \cup {l}
  /\ RemoveLinks(OnLine(l))
  /\ UNCHANGED <<bookVars, value, movement>>

ConsiderLine(l) ==
  /\ l \in ignored
  /\ ignored' = ignored \ {l}
  /\ UNCHANGED <<bookVars, ops, links, value, movement, drifted>>

-----------------------------------------------------------------------------
(* Synchronizations *)

\* Upserts look at no link: what is linked drifts from what was confirmed.
Drift(x, linked) == drifted' = IF linked = {} THEN drifted ELSE drifted \cup {x}

\* A line is stored as the provider reports it, and a rule may ignore it; the
\* hook of synchronizations detaches obligations and leaves the links.
SyncLine(l, v, ruled) ==
  /\ l \in Imported
  /\ value' = [value EXCEPT ![l] = v]
  /\ ignored' = IF ruled THEN ignored \cup {l} ELSE ignored
  /\ lineVars' # lineVars
  /\ Drift(l, OnLine(l))
  /\ UNCHANGED <<bookVars, ops, links, movement>>

SyncMovement(m, row) ==
  /\ row \in Reports[m] \ {movement[m]}
  /\ movement' = [movement EXCEPT ![m] = row]
  /\ Drift(m, OnMovement(m))
  /\ UNCHANGED <<bookVars, ops, links, lineVars>>

-----------------------------------------------------------------------------
OperationNext ==
  \/ \E batch \in Batches, w \in Wanted \cup {NoWanted} : CreateOperations(batch, w)
  \/ \E o \in ops, in \in Corrections : UpdateOperation(o, in)
  \/ \E o \in ops : DeleteOperation(o)
  \/ \E p, to \in positions, q \in Quantities, d \in Days : CreateTransfer(p, to, q, d)
  \/ \E o \in ops : o.transfer # 0 /\ DeleteTransfer(o.transfer)

LinkNext ==
  \/ \E o \in ops, w \in Wanted : CreateReconciliation(o, w)
  \/ \E w \in Wanted : ReusePivot(w)
  \/ \E w \in Wanted : DerivePivot(w)
  \/ \E k \in links : DeleteReconciliation(k)

BookNext ==
  \/ \E a \in Manual : CreateAccount(a) \/ DeleteAccount(a)
  \/ EnsureIntegratedAccounts
  \/ \E p \in Positions, opening \in Openings : CreatePosition(p, opening)
  \/ \E p \in positions : DeletePosition(p)

LineNext ==
  \/ \E l \in Lines, v \in LineValues : CreateManual(l, v) \/ UpdateManual(l, v)
  \/ \E l \in Lines : DeleteManual(l) \/ IgnoreLine(l) \/ ConsiderLine(l)

SyncNext ==
  \/ \E l \in Lines, v \in LineValues, ruled \in BOOLEAN : SyncLine(l, v, ruled)
  \/ \E m \in Movements : \E row \in Reports[m] : SyncMovement(m, row)

Next == OperationNext \/ LinkNext \/ BookNext \/ LineNext \/ SyncNext

Spec == Init /\ [][Next]_vars

-----------------------------------------------------------------------------
(* Properties *)

\* Whatever is created, corrected, moved to another account or undone, on any
\* past day, every hand-kept book can still be replayed: a request that would
\* leave one of the books it touches broken changes nothing.
\* (operations.go, mutateLedger; positions.go, CreatePosition)
BooksReplay == \A a \in Manual : Replays(Book(ops, a))

Placed(o) ==
  /\ o.account \in accounts
  /\ o.position # None => o.position \in positions /\ o.position[1] = o.account
  /\ o.account \in Integrated => o.kind \in Reconcilable
  /\ o.source = "synced" => o.account \in Integrated

\* Every operation is in an account that exists, on a position of that account
\* if any; a provider's account holds nothing local that could move its
\* balances; a derived operation is never in a hand-kept account.
\* (operations.go, requirePositionOfAccount, validateOperationAccount)
WithinTheBook ==
  /\ \A p \in positions : p[1] \in accounts
  /\ \A o \in ops : Placed(o)

\* Custody moves units, it makes none: each transfer has exactly its two legs,
\* the same units of one asset on one day, out of one account and into another,
\* whatever is later updated or deleted around it. (operations.go, CreateTransfer,
\* DeleteTransfer and the refusals of UpdateOperation and DeleteOperation)
TransfersBalance ==
  \A o \in ops : o.transfer # 0 =>
    \E p \in ops : /\ {x \in ops : x.transfer = o.transfer} = {o, p}
                   /\ {o.kind, p.kind} = {"transfer_out", "transfer_in"}
                   /\ o.quantity = p.quantity
                   /\ o.day = p.day
                   /\ o.position[2] = p.position[2]
                   /\ o.account # p.account

\* A link stays the statement the user confirmed: its line is there, counted and
\* flows the way of the operation, its movement too, under the operation's own
\* connection, through corrections of either side and hand-offs between parcels;
\* a line or movement that a synchronization changed under its links excepted,
\* until those links are gone.
\* (reconciliations.go, validateOperationLinks; manual.go, UpdateManual)
LinksExplain ==
  \A k \in links : \E o \in ops :
    /\ o.id = k.op
    /\ o.kind \in Reconcilable
    /\ k.line \notin drifted \cup {None} => LineMatches(o, k.line)
    /\ k.movement \notin drifted \cup {None} => MovementMatches(o, movement[k.movement])

\* Neither the parcels of an operation nor those of a line ever exceed it, but
\* for a line that a synchronization changed under its links.  (The parcels of a
\* movement may: see reconciliations.go, createReconciliation.)
CapacityKept ==
  /\ \A l \in Lines \ drifted : Amount(OnLine(l)) <= Abs(value[l])
  /\ \A o \in ops : Amount(LinksOf(o)) <= o.amount

\* A derived operation exists for its links only, and while it exists one of
\* them records a movement, so that further parcels can find it, whichever
\* parcel is undone first. (reconciliations.go, removeLink, keepPivotReachable)
PivotReachable ==
  \A o \in ops : o.source = "synced" => \E k \in LinksOf(o) : k.movement # None

=============================================================================
