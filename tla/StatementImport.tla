--------------------------- MODULE StatementImport ---------------------------
(***************************************************************************)
(* Importing a bank statement file: the preview that classifies every line *)
(* against the movements already stored, the user's confirmation of what   *)
(* the preview showed, and the transaction that classifies again and       *)
(* stores.  On Postgres two confirmations interleave: each reads, then     *)
(* writes, under read committed; the unique key on (source, identity) is   *)
(* all that keeps them apart.                                              *)
(*                                                                         *)
(* A line is the record the parser makes of it: its look (instant, text,   *)
(* amount and payment method, one value `base`), its resulting balance,    *)
(* its minute (0 when unreadable) and whether it parsed.                   *)
(***************************************************************************)
EXTENDS Integers, FiniteSets, Sequences

CONSTANTS
  Accounts,    \* ids of file accounts, those not created yet included
  Known,       \* the accounts there are before the first request
  NoAccount,   \* "import into a new account"
  Files,       \* the files a user may upload; one file, one SHA-256
  Content,     \* [Files -> Seq(line)]
  Plain,       \* the looks that SQL's LOWER(TRIM(..)) spells as Go's normalization does
  LookAlikes,  \* <<"manual", account, base>>, <<"pluggy", NoAccount, base>>: rows of other origins
  Legacy,      \* [Accounts -> SUBSET row]: rows stored by the v1 importer
  Requests,    \* the browser tabs that may be importing at once
  MaxImports   \* bound: how many files are imported in a behaviour

ASSUME ImportAssumption ==
  /\ Known \subseteq Accounts
  /\ NoAccount \notin Accounts
  /\ \A f \in Files :
       /\ DOMAIN Content[f] = 1 .. Len(Content[f])
       /\ \A i \in DOMAIN Content[f] :
            Content[f][i].at \in Nat /\ (Content[f][i].valid => Content[f][i].at > 0)
  /\ DOMAIN Legacy = Accounts
  /\ \A a \in Accounts : \A m \in Legacy[a] :
       m.id \in {<<"v1", m.base, n>> : n \in 1 .. Cardinality(Legacy[a])}

VARIABLES
  rows,      \* [Accounts -> set of stored movements]
  figure,    \* [Accounts -> the account's balance and the instant it is of; 0 is NULL]
  alike,     \* the look-alikes of other origins that exist (and are not deleted)
  existing,  \* the accounts created
  imported,  \* <<file, account, line>>: the `inserted` normalization events
  imports,   \* <<file, account>>: the statement_imports
  req        \* [Requests -> what the request's tab or transaction holds]

vars == <<rows, figure, alike, existing, imported, imports, req>>

Line(f, i) == Content[f][i]
Valid == [f \in Files |-> {i \in DOMAIN Content[f] : Line(f, i).valid}]

(* The parser's verdict on a line: only whole lines are movements; of an   *)
(* invalid one, the instant may still be readable.                         *)
Invalid(f) == DOMAIN Content[f] \ Valid[f]

-----------------------------------------------------------------------------
(* Classification.                                                         *)

RowsOf(a) == IF a = NoAccount THEN {} ELSE rows[a]

(* Which of the equal-looking lines of the file this one is: `legacySeen`  *)
(* counts by look, `seen` by look and balance.                             *)
Looks(f, i) == Cardinality({j \in Valid[f] : j <= i /\ Line(f, j).base = Line(f, i).base})
Repeats(f, i) == Cardinality({j \in Valid[f] : /\ j <= i
                                               /\ Line(f, j).base = Line(f, i).base
                                               /\ Line(f, j).bal = Line(f, i).bal})

Identity(f, i) == <<"v2", Line(f, i).base, Line(f, i).bal, Repeats(f, i)>>
LegacyIdentity(f, i) == <<"v1", Line(f, i).base, Looks(f, i)>>
ForcedIdentity(f, i) == <<"v3", f, i>>

WithIdentity(a, id) == {m \in RowsOf(a) : m.id = id}

(* Defect: the movements forced from this line are not looked for.         *)
MatchedWithoutForced(a, f, i) ==
  IF WithIdentity(a, Identity(f, i)) # {} THEN WithIdentity(a, Identity(f, i))
  ELSE {m \in WithIdentity(a, LegacyIdentity(f, i)) : m.bal = Line(f, i).bal}

(* The stored movement a line is matched to: the one forced from this very *)
(* line, else the one with its identity, else a v1 row if the balances agree.*)
Matched(a, f, i) ==
  CASE WithIdentity(a, ForcedIdentity(f, i)) # {} -> WithIdentity(a, ForcedIdentity(f, i))
    [] WithIdentity(a, ForcedIdentity(f, i)) = {} /\ WithIdentity(a, Identity(f, i)) # {} ->
         WithIdentity(a, Identity(f, i))
    [] OTHER -> {m \in WithIdentity(a, LegacyIdentity(f, i)) : m.bal = Line(f, i).bal}

(* A movement that looks the same with another balance: the v1 row in this *)
(* line's place, or any row SQL finds by its lower-cased text.             *)
BalanceDiffers(a, f, i) ==
  \E m \in RowsOf(a) : /\ m.base = Line(f, i).base
                       /\ m.bal # Line(f, i).bal
                       /\ m.id = LegacyIdentity(f, i) \/ m.base \in Plain

(* Rows of other origins that look like the line: typed into the account,  *)
(* or synchronized into any.                                               *)
Elsewhere(a, f, i) ==
  {kind \in {"manual", "pluggy"} : \E b \in {a, NoAccount} : <<kind, b, Line(f, i).base>> \in alike}

(* What the preview says of a line: its status and its warnings.           *)
Verdict(a, f, i) ==
  CASE i \in Invalid(f) -> [status |-> "invalid", warnings |-> {}]
    [] i \in Valid[f] /\ Matched(a, f, i) # {} ->
         IF \E m \in Matched(a, f, i) : m.file = f
         THEN [status |-> "duplicate", warnings |-> {}]
         ELSE [status |-> "ambiguous", warnings |-> {"other file"}]
    [] OTHER ->
         IF BalanceDiffers(a, f, i)
         THEN [status |-> "ambiguous", warnings |-> {"balance"} \cup Elsewhere(a, f, i)]
         ELSE [status |-> "new", warnings |-> Elsewhere(a, f, i)]

(* The preview and its fingerprint: the account and every line's verdict.  *)
Preview(a, f) == [account |-> a, lines |-> [i \in DOMAIN Content[f] |-> Verdict(a, f, i)]]
Having(preview, status) == {i \in DOMAIN preview.lines : preview.lines[i].status = status}

-----------------------------------------------------------------------------
(* The balance the file leaves the account with: that of its newest line,  *)
(* when nothing unreadable, later, simultaneous or doubtful is in the file.*)

Newest(f) == {i \in Valid[f] : \A j \in Valid[f] : Line(f, j).at <= Line(f, i).at}
NoFigure == [at |-> 0, bal |-> 0]
NoLaterInvalid(f, at) == \A j \in Invalid(f) : Line(f, j).at # 0 /\ Line(f, j).at < at

(* Defect: an invalid line with a later date is not looked at.             *)
LatestBalanceOfValid(f, preview) ==
  IF \E i \in Newest(f) : Newest(f) = {i} /\ "balance" \notin preview.lines[i].warnings
  THEN LET i == CHOOSE i \in Newest(f) : TRUE IN [at |-> Line(f, i).at, bal |-> Line(f, i).bal]
  ELSE NoFigure

LatestBalance(f, preview) ==
  IF \E i \in Newest(f) : /\ Newest(f) = {i}
                          /\ "balance" \notin preview.lines[i].warnings
                          /\ NoLaterInvalid(f, Line(f, i).at)
  THEN LET i == CHOOSE i \in Newest(f) : TRUE IN [at |-> Line(f, i).at, bal |-> Line(f, i).bal]
  ELSE NoFigure

-----------------------------------------------------------------------------
Idle == [step |-> "idle"]

Init ==
  /\ rows = Legacy
  /\ figure = [a \in Accounts |-> NoFigure]
  /\ alike = {}
  /\ existing = Known
  /\ imported = {}
  /\ imports = {}
  /\ req = [r \in Requests |-> Idle]

Answer(r, state) == req' = [req EXCEPT ![r] = state]

(* Reading the file, classifying it and showing the result: nothing is     *)
(* written; the tab keeps the fingerprint.                                 *)
ShowPreview(r) ==
  /\ req[r].step = "idle"
  /\ Cardinality(imports) < MaxImports
  /\ \E f \in Files, a \in existing \cup {NoAccount} :
       Answer(r, [step |-> "shown", file |-> f, seen |-> Preview(a, f)])
  /\ UNCHANGED <<rows, figure, alike, existing, imported, imports>>

(* Defect (AnyPreview): the fingerprint is not compared.                   *)
(* The confirmation's transaction begins: it classifies again, compares with*)
(* the preview the user saw, and takes the answer given for every ambiguous*)
(* line.  Any refusal (422, 409) rolls back and leaves the tab to preview  *)
(* again.  `lines` are the lines it is going to store, with their identity.*)
AnyPreview(r, preview) == preview.account = req[r].seen.account
Unchanged(r, preview) == preview = req[r].seen

Refused(r, preview, forced, partial) ==
  \/ ~Unchanged(r, preview)
  \/ preview.account = NoAccount /\ Having(preview, "new") \cup forced = {}
  \/ Having(preview, "invalid") # {} /\ ~partial

Confirm(r) ==
  /\ req[r].step = "shown"
  /\ LET f == req[r].file
         now == Preview(req[r].seen.account, f)
     IN \E forced \in SUBSET Having(now, "ambiguous"), partial \in BOOLEAN :
          IF Refused(r, now, forced, partial) THEN Answer(r, Idle)
          ELSE Answer(r, [step |-> "storing", file |-> f, seen |-> req[r].seen,
                          lines |-> {<<i, Identity(f, i)>> : i \in Having(now, "new")}
                                      \cup {<<i, ForcedIdentity(f, i)>> : i \in forced},
                          latest |-> LatestBalance(f, now)])
  /\ UNCHANGED <<rows, figure, alike, existing, imported, imports>>

Movement(f, take) ==
  [id |-> take[2], base |-> Line(f, take[1]).base, bal |-> Line(f, take[1]).bal, file |-> f]

(* The rest of the transaction, up to its commit: a new source and account *)
(* when one was asked for, the run, the raw import, every movement (an     *)
(* identity stored in the meantime is a 409 and a rollback), the balance if*)
(* it is newer than the account's, and the import's record.                *)
Conflicts(a, lines) == \E take \in lines : WithIdentity(a, take[2]) # {}
Newer(a, latest) == latest.at > figure[a].at

Store(r) ==
  /\ req[r].step = "storing"
  /\ \E a \in Accounts :
       /\ IF req[r].seen.account = NoAccount THEN a \notin existing ELSE a = req[r].seen.account
       /\ IF Conflicts(a, req[r].lines)
          THEN UNCHANGED <<rows, figure, existing, imported, imports>>
          ELSE LET f == req[r].file IN
               /\ rows' = [rows EXCEPT ![a] = @ \cup {Movement(f, take) : take \in req[r].lines}]
               /\ figure' = IF Newer(a, req[r].latest) THEN [figure EXCEPT ![a] = req[r].latest] ELSE figure
               /\ existing' = existing \cup {a}
               /\ imported' = imported \cup {<<f, a, take[1]>> : take \in req[r].lines}
               /\ imports' = imports \cup {<<f, a>>}
  /\ Answer(r, Idle)
  /\ UNCHANGED alike

(* A statement fails, or the process dies, before the commit: 503.         *)
Fail(r) ==
  /\ req[r].step = "storing"
  /\ Answer(r, Idle)
  /\ UNCHANGED <<rows, figure, alike, existing, imported, imports>>

(* Synchronizations, and movements typed and deleted by hand.              *)
OtherOrigin ==
  /\ \E look \in LookAlikes :
       alike' = IF look \in alike THEN alike \ {look} ELSE alike \cup {look}
  /\ UNCHANGED <<rows, figure, existing, imported, imports, req>>

Next ==
  \/ \E r \in Requests : ShowPreview(r) \/ Confirm(r) \/ Store(r) \/ Fail(r)
  \/ OtherOrigin

Spec == Init /\ [][Next]_vars

-----------------------------------------------------------------------------
(* Types.                                                                  *)
TypeOK ==
  /\ DOMAIN rows = Accounts /\ DOMAIN figure = Accounts
  /\ Known \subseteq existing /\ existing \subseteq Accounts
  /\ alike \subseteq LookAlikes
  /\ imports \subseteq Files \X Accounts
  /\ \A r \in Requests : req[r].step \in {"idle", "shown", "storing"}

(* Sending a file again finds nothing new in it: once a file was imported  *)
(* into an account, every line of it stays recognized, the stored ones as  *)
(* duplicates, whatever was imported before, meanwhile or since, and whether*)
(* a line was matched by its identity or forced by the user.               *)
ReimportFindsNothingNew ==
  \A f \in Files, a \in Accounts : <<f, a>> \in imports => \A i \in Valid[f] :
    /\ Verdict(a, f, i).status # "new"
    /\ <<f, a, i>> \in imported => Verdict(a, f, i).status = "duplicate"

(* Nothing is stored that the user did not see: an import stores, into the *)
(* account chosen, every line the preview showed as new, none it showed as *)
(* a duplicate or as invalid, and of the ambiguous ones at most all.       *)
Added(a, f) ==
  {i \in Valid[f] : \E m \in rows'[a] \ rows[a] : m.id \in {Identity(f, i), ForcedIdentity(f, i)}}

AsSeen(seen, a, added) ==
  /\ seen.account \in {a, NoAccount}
  /\ Having(seen, "new") \subseteq added
  /\ added \subseteq Having(seen, "new") \cup Having(seen, "ambiguous")

StoredAsSeen ==
  [][\A r \in Requests, a \in Accounts :
       req[r].step = "storing" /\ req'[r].step = "idle" /\ rows'[a] # rows[a] =>
         AsSeen(req[r].seen, a, Added(a, req[r].file))]_vars

(* An account's balance only moves forward in time, and only to the balance*)
(* of a line that the file being imported proves to be its last.           *)
ProvesLast(f, i) ==
  \A j \in DOMAIN Content[f] \ {i} : 0 < Line(f, j).at /\ Line(f, j).at < Line(f, i).at

BalanceMovesForward ==
  [][\A a \in Accounts : figure'[a] # figure[a] =>
       /\ figure'[a].at > figure[a].at
       /\ \E r \in Requests :
            /\ req[r].step = "storing"
            /\ \E i \in Valid[req[r].file] :
                 /\ ProvesLast(req[r].file, i)
                 /\ figure'[a] = [at |-> Line(req[r].file, i).at, bal |-> Line(req[r].file, i).bal]]_vars
=============================================================================
