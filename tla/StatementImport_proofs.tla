----------------------- MODULE StatementImport_proofs -----------------------
(***************************************************************************)
(* Proofs about StatementImport, for any files, accounts, browser tabs,    *)
(* rows of the first importer, look-alikes and number of imports.          *)
(***************************************************************************)
EXTENDS StatementImport, FiniteSetTheorems, TLAPS

\* A stored movement the line is matched to, or one it may be.
Found(a, f, i) ==
  \/ WithIdentity(a, ForcedIdentity(f, i)) # {}
  \/ WithIdentity(a, Identity(f, i)) # {}
  \/ {m \in WithIdentity(a, LegacyIdentity(f, i)) : m.bal = Line(f, i).bal} # {}
Recognized(a, f, i) == Found(a, f, i) \/ BalanceDiffers(a, f, i)

\* The line is stored, by its identity or forced.
Kept(a, f, i) ==
  \E m \in rows[a] : m.file = f /\ m.id \in {Identity(f, i), ForcedIdentity(f, i)}

\* The balance of line i, which the file proves to be its last.
LastOf(f, i, latest) ==
  /\ latest = [at |-> Line(f, i).at, bal |-> Line(f, i).bal]
  /\ ProvesLast(f, i)

-----------------------------------------------------------------------------
(* The inductive invariant                                                 *)

\* Only a confirmation of the file itself forces a line of it.
ForcedAreOwn ==
  \A a \in Accounts : \A m \in rows[a] : \A f \in Files : \A i \in Valid[f] :
    m.id = ForcedIdentity(f, i) => m.file = f

\* What the events say was stored is stored.
EventsTrue ==
  \A e \in imported : \E f \in Files, a \in Accounts : \E i \in Valid[f] :
    e = <<f, a, i>> /\ Kept(a, f, i)

\* Of a file that was imported, every line was stored or is recognized.
ImportsWhole ==
  \A f \in Files, a \in Accounts : <<f, a>> \in imports => \A i \in Valid[f] : Recognized(a, f, i)

\* A confirmation past its checks: its lines are those of the preview, and
\* what it leaves out is recognized already.
Lines(f, seen, forced) ==
  {<<i, Identity(f, i)>> : i \in Having(seen, "new")} \cup {<<i, ForcedIdentity(f, i)>> : i \in forced}

Fits(q) ==
  /\ q.file \in Files
  /\ q.seen.account \in existing \cup {NoAccount}
  /\ Having(q.seen, "new") \cup Having(q.seen, "ambiguous") \subseteq Valid[q.file]
  /\ \E forced \in SUBSET Having(q.seen, "ambiguous") : q.lines = Lines(q.file, q.seen, forced)
  /\ \A i \in Valid[q.file] \ Having(q.seen, "new") :
       q.seen.account \in Accounts /\ Recognized(q.seen.account, q.file, i)
  /\ q.latest = NoFigure \/ \E i \in Valid[q.file] : LastOf(q.file, i, q.latest)

Shown(q) == q.file \in Files /\ q.seen.account \in existing \cup {NoAccount}

RequestsFit ==
  /\ DOMAIN req = Requests
  /\ \A r \in Requests : req[r].step = "shown" => Shown(req[r])
  /\ \A r \in Requests : req[r].step = "storing" => Fits(req[r])

FiguresTyped == \A a \in Accounts : figure[a].at \in Nat

Inv == TypeOK /\ ForcedAreOwn /\ EventsTrue /\ ImportsWhole /\ RequestsFit /\ FiguresTyped

-----------------------------------------------------------------------------
(* Classification                                                          *)

\* Equal-looking lines of a file have different identities.
LEMMA DistinctIdentities ==
  ASSUME NEW f \in Files, NEW i \in Valid[f], NEW j \in Valid[f], Identity(f, i) = Identity(f, j)
  PROVE  i = j
<1> DEFINE Same(k) == {n \in Valid[f] : /\ n <= k /\ Line(f, n).base = Line(f, k).base
                                        /\ Line(f, n).bal = Line(f, k).bal}
<1>1. Valid[f] \subseteq 1 .. Len(Content[f]) /\ IsFiniteSet(1 .. Len(Content[f]))
  <2>1. DOMAIN Content[f] = 1 .. Len(Content[f])
    BY ImportAssumption
  <2>2. Valid[f] \subseteq DOMAIN Content[f]
    BY DEF Valid
  <2>3. IsFiniteSet(1 .. Len(Content[f]))
    BY FS_Interval
  <2>4. QED
    BY <2>1, <2>2, <2>3
<1>2. \A k \in Valid[f] : IsFiniteSet(Same(k)) /\ Cardinality(Same(k)) \in Nat
  <2>1. ASSUME NEW k \in Valid[f] PROVE IsFiniteSet(Same(k))
    <3>1. Same(k) \subseteq 1 .. Len(Content[f])
      BY <1>1
    <3>2. QED
      BY <1>1, <3>1, FS_Subset
  <2>2. QED
    BY <2>1, FS_CardinalityType
<1>3. ASSUME NEW k \in Valid[f], NEW l \in Valid[f], k < l,
             Line(f, k).base = Line(f, l).base, Line(f, k).bal = Line(f, l).bal
      PROVE  Cardinality(Same(k)) < Cardinality(Same(l))
  <2>1. k \in Int /\ l \in Int /\ \A n \in Valid[f] : n \in Int
    BY <1>1
  <2>2. l \notin Same(k) /\ Same(k) \cup {l} \subseteq Same(l)
    BY <1>3, <2>1
  <2>3. Cardinality(Same(k) \cup {l}) = Cardinality(Same(k)) + 1
    BY <1>2, <2>2, FS_AddElement
  <2>4. Cardinality(Same(k) \cup {l}) <= Cardinality(Same(l))
    BY <1>2, <2>2, FS_Subset
  <2>5. Cardinality(Same(k)) \in Nat /\ Cardinality(Same(l)) \in Nat
    BY <1>2
  <2>6. QED
    <3> HIDE DEF Same
    <3>1. QED
      BY <2>3, <2>4, <2>5
<1>4. /\ Line(f, i).base = Line(f, j).base /\ Line(f, i).bal = Line(f, j).bal
      /\ Cardinality(Same(i)) = Cardinality(Same(j))
  <2>1. PICK n, p : n = Cardinality(Same(i)) /\ p = Cardinality(Same(j))
    OBVIOUS
  <2>2. PICK base, bal, look, left : /\ base = Line(f, i).base /\ bal = Line(f, i).bal
                                     /\ look = Line(f, j).base /\ left = Line(f, j).bal
    OBVIOUS
  <2>3. Identity(f, i) = <<"v2", base, bal, n>> /\ Identity(f, j) = <<"v2", look, left, p>>
    BY <2>1, <2>2 DEF Identity, Repeats
  <2>4. <<"v2", base, bal, n>> = <<"v2", look, left, p>>
    BY <2>3
  <2>5. base = look /\ bal = left /\ n = p
    BY <2>4
  <2>6. QED
    <3> HIDE DEF Same
    <3>1. QED
      BY <2>1, <2>2, <2>5
<1>5. i \in Int /\ j \in Int
  BY <1>1
<1>6. Cardinality(Same(i)) \in Nat /\ Cardinality(Same(j)) \in Nat
  BY <1>2
<1>7. ~(i < j) /\ ~(j < i)
  <2> HIDE DEF Same
  <2>1. QED
    BY <1>3, <1>4, <1>6
<1>8. QED
  BY <1>5, <1>7

\* The three kinds of identities never meet.
LEMMA IdentitiesApart ==
  ASSUME NEW f, NEW i, NEW g, NEW j
  PROVE  /\ Identity(f, i) # ForcedIdentity(g, j)
         /\ ForcedIdentity(f, i) = ForcedIdentity(g, j) => f = g /\ i = j
BY DEF Identity, ForcedIdentity

\* What an account that is not there yet has stored, and what a line is then.
LEMMA NothingStored ==
  ASSUME NEW f, NEW i
  PROVE  ~Recognized(NoAccount, f, i)
<1>1. RowsOf(NoAccount) = {}
  BY DEF RowsOf
<1>2. \A id : WithIdentity(NoAccount, id) = {}
  BY <1>1 DEF WithIdentity
<1>3. QED
  BY <1>1, <1>2 DEF Recognized, Found, BalanceDiffers

\* A line is matched to something exactly if one of the three identities is
\* found, and shown as new exactly if it is not recognized.
LEMMA Verdicts ==
  ASSUME NEW a, NEW f, NEW i \in Valid[f]
  PROVE  /\ Verdict(a, f, i).status \in {"new", "ambiguous", "duplicate"}
         /\ Verdict(a, f, i).status = "new" <=> ~Recognized(a, f, i)
         /\ (\E m \in Matched(a, f, i) : m.file = f) => Verdict(a, f, i).status = "duplicate"
<1>1. Matched(a, f, i) # {} <=> Found(a, f, i)
  BY DEF Matched, Found
<1>2. i \notin Invalid(f)
  BY DEF Invalid
<1>3. CASE Matched(a, f, i) # {}
  <2>1. Recognized(a, f, i)
    BY <1>1, <1>3 DEF Recognized
  <2>2. CASE \E m \in Matched(a, f, i) : m.file = f
    <3>1. Verdict(a, f, i) = [status |-> "duplicate", warnings |-> {}]
      BY <1>2, <1>3, <2>2 DEF Verdict
    <3>2. Verdict(a, f, i).status = "duplicate"
      BY <3>1
    <3>3. QED
      BY <2>1, <3>2
  <2>3. CASE ~ \E m \in Matched(a, f, i) : m.file = f
    <3>1. PICK w : Verdict(a, f, i) = [status |-> "ambiguous", warnings |-> w]
      BY <1>2, <1>3, <2>3 DEF Verdict
    <3>2. Verdict(a, f, i).status = "ambiguous"
      BY <3>1
    <3>3. QED
      BY <2>1, <2>3, <3>2
  <2>4. QED
    BY <2>2, <2>3
<1>4. CASE Matched(a, f, i) = {}
  <2>1. Recognized(a, f, i) <=> BalanceDiffers(a, f, i)
    BY <1>1, <1>4 DEF Recognized
  <2>2. CASE BalanceDiffers(a, f, i)
    <3>1. PICK w : Verdict(a, f, i) = [status |-> "ambiguous", warnings |-> w]
      BY <1>2, <1>4, <2>2 DEF Verdict
    <3>2. Verdict(a, f, i).status = "ambiguous"
      BY <3>1
    <3>3. QED
      BY <1>4, <2>1, <2>2, <3>2
  <2>3. CASE ~BalanceDiffers(a, f, i)
    <3>1. Verdict(a, f, i) = [status |-> "new", warnings |-> Elsewhere(a, f, i)]
      BY <1>2, <1>4, <2>3 DEF Verdict
    <3>2. Verdict(a, f, i).status = "new"
      BY <3>1
    <3>3. QED
      BY <1>4, <2>1, <2>3, <3>2
  <2>4. QED
    BY <2>2, <2>3
<1>5. QED
  BY <1>3, <1>4

\* What a preview has of a status.
LEMMA HavingOf ==
  ASSUME NEW a, NEW f, NEW s
  PROVE  Having(Preview(a, f), s) = {i \in DOMAIN Content[f] : Verdict(a, f, i).status = s}
BY DEF Having, Preview

\* New and ambiguous lines are whole lines.
LEMMA WholeLines ==
  ASSUME NEW a, NEW f
  PROVE  Having(Preview(a, f), "new") \cup Having(Preview(a, f), "ambiguous") \subseteq Valid[f]
<1>1. ASSUME NEW i \in DOMAIN Content[f], i \notin Valid[f]
      PROVE  Verdict(a, f, i).status = "invalid"
  <2>1. Verdict(a, f, i) = [status |-> "invalid", warnings |-> {}]
    BY <1>1 DEF Verdict, Invalid
  <2>2. QED
    BY <2>1
<1>2. ASSUME NEW s \in {"new", "ambiguous"}, NEW i \in Having(Preview(a, f), s)
      PROVE  i \in Valid[f]
  <2>1. i \in DOMAIN Content[f] /\ Verdict(a, f, i).status = s
    BY HavingOf
  <2>2. QED
    BY <1>1, <2>1
<1>3. QED
  BY <1>2

\* A line that is kept is a duplicate: whatever it is matched to first is of
\* its own file.
LEMMA KeptIsDuplicate ==
  ASSUME ForcedAreOwn, NEW a \in Accounts, NEW f \in Files, NEW i \in Valid[f], Kept(a, f, i)
  PROVE  Verdict(a, f, i).status = "duplicate" /\ Recognized(a, f, i)
<1>1. RowsOf(a) = rows[a]
  BY ImportAssumption DEF RowsOf
<1>2. \E m \in Matched(a, f, i) : m.file = f
  <2>1. CASE WithIdentity(a, ForcedIdentity(f, i)) # {}
    <3>1. Matched(a, f, i) = WithIdentity(a, ForcedIdentity(f, i))
      BY <2>1 DEF Matched
    <3>2. QED
      BY <1>1, <2>1, <3>1 DEF WithIdentity, ForcedAreOwn
  <2>2. CASE WithIdentity(a, ForcedIdentity(f, i)) = {}
    <3>1. PICK m \in rows[a] : m.file = f /\ m.id = Identity(f, i)
      BY <1>1, <2>2 DEF Kept, WithIdentity
    <3>2. m \in WithIdentity(a, Identity(f, i))
      BY <1>1, <3>1 DEF WithIdentity
    <3>3. Matched(a, f, i) = WithIdentity(a, Identity(f, i))
      BY <2>2, <3>2 DEF Matched
    <3>4. QED
      BY <3>1, <3>2, <3>3
  <2>3. QED
    BY <2>1, <2>2
<1>3. QED
  BY <1>2, Verdicts

\* Rows are never taken away, so what is recognized or kept stays so.
LEMMA RecognizedStays ==
  ASSUME NEW a \in Accounts, rows[a] \subseteq rows'[a], NEW f, NEW i
  PROVE  /\ Recognized(a, f, i) => Recognized(a, f, i)'
         /\ Kept(a, f, i) => Kept(a, f, i)'
<1>1. RowsOf(a) = rows[a] /\ RowsOf(a)' = rows'[a]
  BY ImportAssumption DEF RowsOf
<1>2. \A id : WithIdentity(a, id) \subseteq WithIdentity(a, id)'
  BY <1>1 DEF WithIdentity
<1>3. Found(a, f, i) => Found(a, f, i)'
  <2>1. \A n \in {ForcedIdentity(f, i), Identity(f, i), LegacyIdentity(f, i)} :
          WithIdentity(a, n) \subseteq WithIdentity(a, n)'
    BY <1>2
  <2>2. QED
    BY <2>1 DEF Found
<1>4. BalanceDiffers(a, f, i) => BalanceDiffers(a, f, i)'
  BY <1>1 DEF BalanceDiffers
<1>5. Kept(a, f, i) => Kept(a, f, i)'
  BY DEF Kept
<1>6. QED
  BY <1>3, <1>4, <1>5 DEF Recognized

\* So a confirmation that fits goes on fitting while others store.
LEMMA FitsStays ==
  ASSUME NEW q, Fits(q), existing \subseteq existing', existing \subseteq Accounts,
         \A a \in Accounts : rows[a] \subseteq rows'[a]
  PROVE  Fits(q)'
<1>1. \A i \in Valid[q.file] \ Having(q.seen, "new") :
        q.seen.account \in Accounts /\ Recognized(q.seen.account, q.file, i)'
  BY RecognizedStays DEF Fits
<1>2. QED
  BY <1>1 DEF Fits

-----------------------------------------------------------------------------
(* The steps                                                               *)

\* What every step leaves true: rows, accounts, events and imports only grow.
LEMMA NothingStoredStep ==
  ASSUME Inv, UNCHANGED <<rows, figure, existing, imported, imports>>, alike' \subseteq LookAlikes,
         DOMAIN req' = Requests,
         \A r \in Requests : \/ req'[r] = req[r]
                             \/ req'[r].step = "idle"
                             \/ req'[r].step = "shown" /\ Shown(req'[r])
                             \/ req'[r].step = "storing" /\ Fits(req'[r])
  PROVE  Inv'
<1>1. TypeOK'
  BY DEF Inv, TypeOK, RequestsFit
<1>2. \A a \in Accounts : \A f, i : /\ Recognized(a, f, i) => Recognized(a, f, i)'
                                   /\ Kept(a, f, i) => Kept(a, f, i)'
  BY RecognizedStays
<1>3. ForcedAreOwn' /\ EventsTrue' /\ ImportsWhole' /\ FiguresTyped'
  <2>1. ForcedAreOwn' /\ FiguresTyped'
    BY DEF Inv, ForcedAreOwn, FiguresTyped
  <2>2. EventsTrue'
    <3>1. ASSUME NEW e \in imported
          PROVE  \E f \in Files, a \in Accounts : \E i \in Valid[f] :
                   e = <<f, a, i>> /\ Kept(a, f, i)'
      <4>1. PICK f \in Files, a \in Accounts : \E i \in Valid[f] : e = <<f, a, i>> /\ Kept(a, f, i)
        BY DEF Inv, EventsTrue
      <4>2. PICK i \in Valid[f] : e = <<f, a, i>> /\ Kept(a, f, i)
        BY <4>1
      <4>3. Kept(a, f, i)'
        BY <4>2, RecognizedStays
      <4>4. QED
        BY <4>2, <4>3
    <3>2. QED
      BY <3>1 DEF EventsTrue
  <2>3. ImportsWhole'
    <3>1. ASSUME NEW f \in Files, NEW a \in Accounts, <<f, a>> \in imports, NEW i \in Valid[f]
          PROVE  Recognized(a, f, i)'
      <4>1. Recognized(a, f, i)
        BY <3>1 DEF Inv, ImportsWhole
      <4>2. QED
        BY <4>1, RecognizedStays
    <3>2. QED
      BY <3>1 DEF ImportsWhole
  <2>4. QED
    BY <2>1, <2>2, <2>3
<1>4. ASSUME NEW r \in Requests
      PROVE  /\ req'[r].step = "shown" => Shown(req[r])'
             /\ req'[r].step = "storing" => Fits(req[r])'
  <2>1. PICK q : q = req'[r]
    OBVIOUS
  <2>2. q.step = "shown" => Shown(q)
    BY <2>1 DEF Inv, RequestsFit
  <2>3. q.step = "storing" => Fits(q)
    BY <2>1 DEF Inv, RequestsFit
  <2>4. Shown(q) => Shown(q)'
    BY DEF Shown
  <2>5. Fits(q) => Fits(q)'
    BY FitsStays DEF Inv, TypeOK
  <2>6. QED
    BY <2>1, <2>2, <2>3, <2>4, <2>5
<1>5. RequestsFit'
  BY <1>4 DEF RequestsFit
<1>6. QED
  BY <1>1, <1>3, <1>5 DEF Inv

\* The balance a file leaves is that of the line it proves to be its last.
LEMMA LatestIsLast ==
  ASSUME NEW f \in Files, NEW preview
  PROVE  \/ LatestBalance(f, preview) = NoFigure
         \/ \E i \in Valid[f] : LastOf(f, i, LatestBalance(f, preview))
<1> SUFFICES ASSUME LatestBalance(f, preview) # NoFigure
             PROVE  \E i \in Valid[f] : LastOf(f, i, LatestBalance(f, preview))
  OBVIOUS
<1>1. PICK i \in Newest(f) : /\ Newest(f) = {i}
                             /\ "balance" \notin preview.lines[i].warnings
                             /\ NoLaterInvalid(f, Line(f, i).at)
  BY DEF LatestBalance
<1>2. (CHOOSE n \in Newest(f) : TRUE) = i
  BY <1>1
<1>3. LatestBalance(f, preview) = [at |-> Line(f, i).at, bal |-> Line(f, i).bal]
  BY <1>1, <1>2 DEF LatestBalance
<1>4. \A j \in DOMAIN Content[f] : Line(f, j).at \in Nat /\ (j \in Valid[f] => Line(f, j).at > 0)
  BY ImportAssumption DEF Line, Valid
<1>5. i \in Valid[f] /\ Valid[f] \subseteq DOMAIN Content[f]
  BY <1>1 DEF Newest, Valid
<1>6. ASSUME NEW j \in DOMAIN Content[f] \ {i}
      PROVE  0 < Line(f, j).at /\ Line(f, j).at < Line(f, i).at
  <2>1. CASE j \in Valid[f]
    <3>1. \E k \in Valid[f] : ~(Line(f, k).at <= Line(f, j).at)
      BY <1>1, <2>1 DEF Newest
    <3>2. \A k \in Valid[f] : Line(f, k).at <= Line(f, i).at
      BY <1>1 DEF Newest
    <3>3. QED
      BY <1>4, <1>5, <2>1, <3>1, <3>2
  <2>2. CASE j \in Invalid(f)
    BY <1>1, <1>4, <2>2 DEF NoLaterInvalid, Invalid
  <2>3. QED
    BY <2>1, <2>2 DEF Invalid
<1>7. QED
  BY <1>3, <1>5, <1>6 DEF LastOf, ProvesLast

\* A confirmation that is accepted fits.
LEMMA ConfirmFits ==
  ASSUME NEW q, Shown(q), existing \subseteq Accounts,
         NEW forced \in SUBSET Having(q.seen, "ambiguous"), NEW latest, NEW step,
         q.seen = Preview(q.seen.account, q.file), latest = LatestBalance(q.file, q.seen)
  PROVE  Fits([step |-> step, file |-> q.file, seen |-> q.seen,
               lines |-> Lines(q.file, q.seen, forced), latest |-> latest])
<1>1. PICK a, f, seen : a = q.seen.account /\ f = q.file /\ seen = q.seen
  OBVIOUS
<1>2. f \in Files /\ a \in existing \cup {NoAccount} /\ seen = Preview(a, f) /\ seen.account = a
  BY <1>1 DEF Shown
<1>3. Having(seen, "new") \cup Having(seen, "ambiguous") \subseteq Valid[f]
  BY <1>2, WholeLines
<1>4. ASSUME NEW i \in Valid[f] \ Having(seen, "new")
      PROVE  a \in Accounts /\ Recognized(a, f, i)
  <2>1. Verdict(a, f, i).status # "new"
    BY <1>2, HavingOf DEF Valid
  <2>2. Recognized(a, f, i)
    BY <2>1, Verdicts
  <2>3. a # NoAccount
    BY <2>2, NothingStored
  <2>4. QED
    BY <1>2, <2>2, <2>3
<1>5. latest = NoFigure \/ \E i \in Valid[f] : LastOf(f, i, latest)
  BY <1>1, <1>2, LatestIsLast
<1>6. PICK t : t = [step |-> step, file |-> f, seen |-> seen,
                    lines |-> Lines(f, seen, forced), latest |-> latest]
  OBVIOUS
<1>7. /\ t.file = f /\ t.seen = seen /\ t.lines = Lines(f, seen, forced) /\ t.latest = latest
  BY <1>6
<1>8. Fits(t)
  BY <1>1, <1>2, <1>3, <1>4, <1>5, <1>7 DEF Fits
<1>9. QED
  BY <1>1, <1>6, <1>8

LEMMA ConfirmStep ==
  ASSUME Inv, NEW r \in Requests, Confirm(r)
  PROVE  Inv'
<1>1. PICK q : q = req[r]
  OBVIOUS
<1>2. Shown(q) /\ DOMAIN req = Requests /\ existing \subseteq Accounts /\ alike \subseteq LookAlikes
  BY <1>1 DEF Confirm, Inv, RequestsFit, TypeOK
<1>3. PICK now : now = Preview(q.seen.account, q.file)
  OBVIOUS
<1>4. PICK forced \in SUBSET Having(now, "ambiguous"), partial \in BOOLEAN :
        IF Refused(r, now, forced, partial) THEN Answer(r, Idle)
        ELSE Answer(r, [step |-> "storing", file |-> q.file, seen |-> q.seen,
                        lines |-> Lines(q.file, now, forced),
                        latest |-> LatestBalance(q.file, now)])
  <2>1. \E forced \in SUBSET Having(Preview(req[r].seen.account, req[r].file), "ambiguous"),
           partial \in BOOLEAN :
          IF Refused(r, Preview(req[r].seen.account, req[r].file), forced, partial)
          THEN Answer(r, Idle)
          ELSE Answer(r, [step |-> "storing", file |-> req[r].file, seen |-> req[r].seen,
                          lines |-> Lines(req[r].file, Preview(req[r].seen.account, req[r].file), forced),
                          latest |-> LatestBalance(req[r].file, Preview(req[r].seen.account, req[r].file))])
    BY Zenon DEF Confirm, Lines
  <2>2. QED
    BY <1>1, <1>3, <2>1
<1>5. UNCHANGED <<rows, figure, alike, existing, imported, imports>>
  BY DEF Confirm
<1>6. CASE Refused(r, now, forced, partial)
  <2>1. req' = [req EXCEPT ![r] = Idle]
    BY <1>4, <1>6 DEF Answer
  <2>2. QED
    BY <1>2, <1>5, <2>1, NothingStoredStep DEF Idle
<1>7. CASE ~Refused(r, now, forced, partial)
  <2>1. now = q.seen
    BY <1>1, <1>7 DEF Refused, Unchanged
  <2>2. PICK t : t = [step |-> "storing", file |-> q.file, seen |-> q.seen,
                      lines |-> Lines(q.file, q.seen, forced),
                      latest |-> LatestBalance(q.file, q.seen)]
    OBVIOUS
  <2>3. Fits(t)
    BY <1>2, <1>3, <2>1, <2>2, ConfirmFits
  <2>4. req' = [req EXCEPT ![r] = t]
    BY <1>4, <1>7, <2>1, <2>2 DEF Answer
  <2>5. t.step = "storing"
    BY <2>2
  <2>6. \A s \in Requests : req'[s] = req[s] \/ req'[s] = t
    BY <1>2, <2>4
  <2>7. DOMAIN req' = Requests
    BY <1>2, <2>4
  <2>8. QED
    BY <1>2, <1>5, <2>3, <2>5, <2>6, <2>7, NothingStoredStep
<1>8. QED
  BY <1>6, <1>7

\* What a confirmation in transaction is going to store.
LEMMA LinesOf ==
  ASSUME NEW f, NEW seen, NEW forced, NEW take \in Lines(f, seen, forced)
  PROVE  \/ \E i \in Having(seen, "new") : take = <<i, Identity(f, i)>>
         \/ \E i \in forced : take = <<i, ForcedIdentity(f, i)>>
BY DEF Lines

\* Storing into account a: nothing of what was there conflicts.
Stores(r, a) ==
  /\ a \in Accounts
  /\ req[r].step = "storing" /\ req' = [req EXCEPT ![r] = Idle] /\ alike' = alike
  /\ IF req[r].seen.account = NoAccount THEN a \notin existing ELSE a = req[r].seen.account
  /\ ~Conflicts(a, req[r].lines)
  /\ rows' = [rows EXCEPT ![a] = @ \cup {Movement(req[r].file, take) : take \in req[r].lines}]
  /\ figure' = IF Newer(a, req[r].latest) THEN [figure EXCEPT ![a] = req[r].latest] ELSE figure
  /\ existing' = existing \cup {a}
  /\ imported' = imported \cup {<<req[r].file, a, take[1]>> : take \in req[r].lines}
  /\ imports' = imports \cup {<<req[r].file, a>>}

LEMMA StoreCases ==
  ASSUME NEW r \in Requests, Store(r)
  PROVE  \/ \E a \in Accounts : Stores(r, a)
         \/ /\ UNCHANGED <<rows, figure, alike, existing, imported, imports>>
            /\ req' = [req EXCEPT ![r] = Idle]
BY Zenon DEF Store, Stores, Answer

\* What such a step adds to the account.
LEMMA StoredRows ==
  ASSUME Inv, NEW r \in Requests, NEW a \in Accounts, Stores(r, a),
         NEW q, q = req[r],
         NEW forced \in SUBSET Having(q.seen, "ambiguous"), q.lines = Lines(q.file, q.seen, forced)
  PROVE  /\ \A b \in Accounts : rows[b] \subseteq rows'[b] /\ (b # a => rows'[b] = rows[b])
         /\ \A i \in Having(q.seen, "new") :
              \E m \in rows'[a] \ rows[a] : m.id = Identity(q.file, i) /\ m.file = q.file
         /\ \A i \in forced :
              \E m \in rows'[a] \ rows[a] : m.id = ForcedIdentity(q.file, i) /\ m.file = q.file
         /\ \A m \in rows'[a] \ rows[a] :
              /\ m.file = q.file
              /\ \/ \E i \in Having(q.seen, "new") : m.id = Identity(q.file, i)
                 \/ \E i \in forced : m.id = ForcedIdentity(q.file, i)
<1>1. PICK new : new = {Movement(q.file, take) : take \in q.lines}
  OBVIOUS
<1>2. DOMAIN rows = Accounts /\ rows' = [rows EXCEPT ![a] = @ \cup new]
  BY <1>1 DEF Inv, TypeOK, Stores
<1>3. /\ rows'[a] = rows[a] \cup new
      /\ \A b \in Accounts : rows[b] \subseteq rows'[b] /\ (b # a => rows'[b] = rows[b])
  BY <1>2
<1>4. \A take : Movement(q.file, take).id = take[2] /\ Movement(q.file, take).file = q.file
  BY DEF Movement
<1>5. RowsOf(a) = rows[a]
  BY ImportAssumption DEF RowsOf
<1>6. \A take \in q.lines : Movement(q.file, take) \in rows'[a] \ rows[a]
  BY <1>1, <1>3, <1>4, <1>5 DEF Stores, Conflicts, WithIdentity
<1>7. ASSUME NEW i \in Having(q.seen, "new")
      PROVE  \E m \in rows'[a] \ rows[a] : m.id = Identity(q.file, i) /\ m.file = q.file
  <2>1. PICK take : take = <<i, Identity(q.file, i)>>
    OBVIOUS
  <2>2. take \in q.lines /\ take[2] = Identity(q.file, i)
    BY <2>1 DEF Lines
  <2>3. QED
    BY <1>4, <1>6, <2>2
<1>8. ASSUME NEW i \in forced
      PROVE  \E m \in rows'[a] \ rows[a] : m.id = ForcedIdentity(q.file, i) /\ m.file = q.file
  <2>1. PICK take : take = <<i, ForcedIdentity(q.file, i)>>
    OBVIOUS
  <2>2. take \in q.lines /\ take[2] = ForcedIdentity(q.file, i)
    BY <2>1 DEF Lines
  <2>3. QED
    BY <1>4, <1>6, <2>2
<1>9. ASSUME NEW m \in rows'[a] \ rows[a]
      PROVE  /\ m.file = q.file
             /\ \/ \E i \in Having(q.seen, "new") : m.id = Identity(q.file, i)
                \/ \E i \in forced : m.id = ForcedIdentity(q.file, i)
  <2>1. PICK take \in q.lines : m = Movement(q.file, take)
    BY <1>1, <1>3
  <2>2. \/ \E i \in Having(q.seen, "new") : take = <<i, Identity(q.file, i)>>
        \/ \E i \in forced : take = <<i, ForcedIdentity(q.file, i)>>
    BY LinesOf
  <2>3. QED
    BY <1>4, <2>1, <2>2
<1>10. QED
  BY <1>3, <1>7, <1>8, <1>9

LEMMA StoresStep ==
  ASSUME Inv, NEW r \in Requests, NEW a \in Accounts, Stores(r, a)
  PROVE  Inv'
<1>1. PICK q : q = req[r]
  OBVIOUS
<1>2. PICK f, seen : f = q.file /\ seen = q.seen
  OBVIOUS
<1>3. Fits(q)
  BY <1>1 DEF Stores, Inv, RequestsFit
<1>4. PICK forced \in SUBSET Having(seen, "ambiguous") : q.lines = Lines(f, seen, forced)
  BY <1>2, <1>3 DEF Fits
<1>5. /\ f \in Files /\ Having(seen, "new") \subseteq Valid[f] /\ forced \subseteq Valid[f]
  BY <1>2, <1>3 DEF Fits
<1>6. /\ \A b \in Accounts : rows[b] \subseteq rows'[b] /\ (b # a => rows'[b] = rows[b])
      /\ \A i \in Having(seen, "new") :
           \E m \in rows'[a] \ rows[a] : m.id = Identity(f, i) /\ m.file = f
      /\ \A i \in forced :
           \E m \in rows'[a] \ rows[a] : m.id = ForcedIdentity(f, i) /\ m.file = f
      /\ \A m \in rows'[a] \ rows[a] :
           /\ m.file = f
           /\ \/ \E i \in Having(seen, "new") : m.id = Identity(f, i)
              \/ \E i \in forced : m.id = ForcedIdentity(f, i)
  <2>1. forced \in SUBSET Having(q.seen, "ambiguous") /\ q.lines = Lines(q.file, q.seen, forced)
    BY <1>2, <1>4
  <2>2. QED
    BY <1>1, <1>2, <2>1, StoredRows
<1>7. TypeOK'
  <2>1. DOMAIN rows' = Accounts /\ DOMAIN figure' = Accounts
    BY DEF Stores, Inv, TypeOK
  <2>2. imports' \subseteq Files \X Accounts
    BY <1>1, <1>2, <1>5 DEF Stores, Inv, TypeOK
  <2>3. \A s \in Requests : req'[s].step \in {"idle", "shown", "storing"}
    BY DEF Stores, Inv, TypeOK, RequestsFit, Idle
  <2>4. QED
    BY <2>1, <2>2, <2>3 DEF Stores, Inv, TypeOK
<1>8. ForcedAreOwn'
  <2>1. ASSUME NEW b \in Accounts, NEW m \in rows'[b], NEW g \in Files, NEW i \in Valid[g],
               m.id = ForcedIdentity(g, i)
        PROVE  m.file = g
    <3>1. CASE m \in rows[b]
      BY <2>1, <3>1 DEF Inv, ForcedAreOwn
    <3>2. CASE m \notin rows[b]
      <4>1. b = a /\ m \in rows'[a] \ rows[a]
        BY <1>6, <3>2
      <4>2. m.file = f /\ \E j : m.id = Identity(f, j) \/ m.id = ForcedIdentity(f, j)
        BY <1>6, <4>1
      <4>3. QED
        BY <2>1, <4>2, IdentitiesApart
    <3>3. QED
      BY <3>1, <3>2
  <2>2. QED
    BY <2>1 DEF ForcedAreOwn
<1>9. \A i \in Having(seen, "new") \cup forced : Kept(a, f, i)'
  <2>1. ASSUME NEW i \in Having(seen, "new") \cup forced
        PROVE  \E m \in rows'[a] : m.file = f /\ m.id \in {Identity(f, i), ForcedIdentity(f, i)}
    BY <1>6
  <2>2. QED
    BY <2>1 DEF Kept
<1>10. EventsTrue'
  <2>1. ASSUME NEW e \in imported'
        PROVE  \E g \in Files, b \in Accounts : \E i \in Valid[g] : e = <<g, b, i>> /\ Kept(b, g, i)'
    <3>1. CASE e \in imported
      <4>1. PICK g \in Files, b \in Accounts : \E i \in Valid[g] : e = <<g, b, i>> /\ Kept(b, g, i)
        BY <3>1 DEF Inv, EventsTrue
      <4>2. PICK i \in Valid[g] : e = <<g, b, i>> /\ Kept(b, g, i)
        BY <4>1
      <4>3. Kept(b, g, i)'
        BY <1>6, <4>2, RecognizedStays
      <4>4. QED
        BY <4>2, <4>3
    <3>2. CASE e \notin imported
      <4>1. PICK take \in q.lines : e = <<f, a, take[1]>>
        BY <1>1, <1>2, <3>2 DEF Stores
      <4>2. PICK i \in Having(seen, "new") \cup forced : take[1] = i
        BY <1>4, LinesOf
      <4>3. QED
        BY <1>5, <1>9, <4>1, <4>2
    <3>3. QED
      BY <3>1, <3>2
  <2>2. QED
    BY <2>1 DEF EventsTrue
<1>11. \A i \in Having(seen, "new") : Recognized(a, f, i)'
  <2>1. RowsOf(a)' = rows'[a]
    BY ImportAssumption DEF RowsOf
  <2>2. ASSUME NEW i \in Having(seen, "new")
        PROVE  Found(a, f, i)'
    <3>1. PICK m \in rows'[a] : m.id = Identity(f, i)
      BY <1>6
    <3>2. m \in WithIdentity(a, Identity(f, i))'
      BY <2>1, <3>1 DEF WithIdentity
    <3>3. QED
      BY <3>2 DEF Found
  <2>3. QED
    BY <2>2 DEF Recognized
<1>12. ImportsWhole'
  <2>1. ASSUME NEW g \in Files, NEW b \in Accounts, <<g, b>> \in imports', NEW i \in Valid[g]
        PROVE  Recognized(b, g, i)'
    <3>1. CASE <<g, b>> \in imports
      <4>1. Recognized(b, g, i)
        BY <3>1 DEF Inv, ImportsWhole
      <4>2. QED
        BY <1>6, <4>1, RecognizedStays
    <3>2. CASE g = f /\ b = a /\ i \in Having(seen, "new")
      BY <1>11, <3>2
    <3>3. CASE g = f /\ b = a /\ i \notin Having(seen, "new")
      <4>1. seen.account \in Accounts /\ Recognized(seen.account, f, i)
        BY <1>2, <1>3, <3>3 DEF Fits
      <4>2. seen.account = a
        BY <1>1, <1>2, <4>1, ImportAssumption DEF Stores
      <4>3. Recognized(a, f, i)
        BY <4>1, <4>2
      <4>4. QED
        BY <1>6, <3>3, <4>3, RecognizedStays
    <3>4. QED
      BY <1>1, <1>2, <2>1, <3>1, <3>2, <3>3 DEF Stores
  <2>2. QED
    BY <2>1 DEF ImportsWhole
<1>13. RequestsFit'
  <2>1. DOMAIN req' = Requests /\ \A s \in Requests : req'[s] = IF s = r THEN Idle ELSE req[s]
    BY DEF Stores, Inv, RequestsFit
  <2>2. existing \subseteq existing' /\ existing \subseteq Accounts
    BY DEF Stores, Inv, TypeOK
  <2>3. ASSUME NEW s \in Requests
        PROVE  /\ req'[s].step = "shown" => Shown(req[s])'
               /\ req'[s].step = "storing" => Fits(req[s])'
    <3>1. PICK t : t = req'[s]
      OBVIOUS
    <3>2. CASE t = Idle
      BY <3>1, <3>2 DEF Idle
    <3>3. CASE t # Idle
      <4>1. t = req[s]
        BY <2>1, <3>1, <3>3
      <4>2. (t.step = "shown" => Shown(t)) /\ (t.step = "storing" => Fits(t))
        BY <4>1 DEF Inv, RequestsFit
      <4>3. Shown(t) => Shown(t)'
        BY <2>2 DEF Shown
      <4>4. Fits(t) => Fits(t)'
        BY <1>6, <2>2, FitsStays
      <4>5. QED
        BY <3>1, <4>2, <4>3, <4>4
    <3>4. QED
      BY <3>2, <3>3
  <2>4. QED
    BY <2>1, <2>3 DEF RequestsFit
<1>14. FiguresTyped'
  <2>1. q.latest.at \in Nat
    <3>1. CASE q.latest = NoFigure
      BY <3>1 DEF NoFigure
    <3>2. CASE \E i \in Valid[f] : LastOf(f, i, q.latest)
      BY <1>5, <3>2, ImportAssumption DEF LastOf, Line, Valid
    <3>3. QED
      BY <1>2, <1>3, <3>1, <3>2 DEF Fits
  <2>2. \A b \in Accounts : figure'[b] = figure[b] \/ figure'[b] = q.latest
    BY <1>1 DEF Stores, Inv, TypeOK
  <2>3. QED
    BY <2>1, <2>2 DEF Inv, FiguresTyped
<1>15. QED
  BY <1>7, <1>8, <1>10, <1>12, <1>13, <1>14 DEF Inv

\* Every step keeps the invariant.
LEMMA NextStep == Inv /\ [Next]_vars => Inv'
<1> SUFFICES ASSUME Inv, [Next]_vars PROVE Inv'
  OBVIOUS
<1>1. DOMAIN req = Requests /\ alike \subseteq LookAlikes
  BY DEF Inv, RequestsFit, TypeOK
<1>2. ASSUME NEW r \in Requests, ShowPreview(r) PROVE Inv'
  <2>1. PICK f \in Files, a \in existing \cup {NoAccount} :
          Answer(r, [step |-> "shown", file |-> f, seen |-> Preview(a, f)])
    BY <1>2 DEF ShowPreview
  <2>2. PICK t : t = [step |-> "shown", file |-> f, seen |-> Preview(a, f)]
    OBVIOUS
  <2>3. t.step = "shown" /\ Shown(t)
    BY <2>2 DEF Shown, Preview
  <2>4. req' = [req EXCEPT ![r] = t]
    BY <2>1, <2>2 DEF Answer
  <2>5. DOMAIN req' = Requests /\ \A s \in Requests : req'[s] = req[s] \/ req'[s] = t
    BY <1>1, <2>4
  <2>6. QED
    BY <1>1, <1>2, <2>3, <2>5, NothingStoredStep DEF ShowPreview
<1>3. ASSUME NEW r \in Requests, Confirm(r) PROVE Inv'
  BY <1>3, ConfirmStep
<1>4. ASSUME NEW r \in Requests, Store(r) \/ Fail(r) PROVE Inv'
  <2>1. CASE \E a \in Accounts : Stores(r, a)
    BY <2>1, StoresStep
  <2>2. CASE /\ UNCHANGED <<rows, figure, alike, existing, imported, imports>>
             /\ req' = [req EXCEPT ![r] = Idle]
    <3>1. DOMAIN req' = Requests /\ \A s \in Requests : req'[s] = req[s] \/ req'[s].step = "idle"
      BY <1>1, <2>2 DEF Idle
    <3>2. QED
      BY <1>1, <2>2, <3>1, NothingStoredStep
  <2>3. QED
    BY <1>4, <2>1, <2>2, StoreCases DEF Fail, Answer
<1>5. ASSUME OtherOrigin PROVE Inv'
  <2>1. alike' \subseteq LookAlikes
    BY <1>1, <1>5 DEF OtherOrigin
  <2>2. QED
    BY <1>1, <1>5, <2>1, NothingStoredStep DEF OtherOrigin
<1>6. ASSUME UNCHANGED vars PROVE Inv'
  BY <1>1, <1>6, NothingStoredStep DEF vars
<1>7. QED
  BY <1>2, <1>3, <1>4, <1>5, <1>6 DEF Next

LEMMA InitInv == Init => Inv
<1> SUFFICES ASSUME Init PROVE Inv
  OBVIOUS
<1>1. TypeOK /\ FiguresTyped /\ EventsTrue /\ ImportsWhole
  BY ImportAssumption DEF Init, TypeOK, FiguresTyped, EventsTrue, ImportsWhole, NoFigure, Idle
<1>2. RequestsFit
  BY DEF Init, RequestsFit, Idle
<1>3. ForcedAreOwn
  <2>1. ASSUME NEW a \in Accounts, NEW m \in rows[a], NEW f, NEW i
        PROVE  m.id # ForcedIdentity(f, i)
    <3>1. \E n : m.id = <<"v1", m.base, n>>
      BY ImportAssumption DEF Init
    <3>2. QED
      BY <3>1 DEF ForcedIdentity
  <2>2. QED
    BY <2>1 DEF ForcedAreOwn
<1>4. QED
  BY <1>1, <1>2, <1>3 DEF Inv

\* The invariant holds in every reachable state.
THEOREM Inductive == Spec => []Inv
BY InitInv, NextStep, PTL DEF Spec

\* Every variable keeps its type.
THEOREM TypeCorrect == Spec => []TypeOK
<1>1. Inv => TypeOK
  BY DEF Inv
<1>2. QED
  BY <1>1, Inductive, PTL

\* Sending a file again finds nothing new in it.
THEOREM ReimportIsIdle == Spec => []ReimportFindsNothingNew
<1>1. Inv => ReimportFindsNothingNew
  <2> SUFFICES ASSUME Inv, NEW f \in Files, NEW a \in Accounts, <<f, a>> \in imports, NEW i \in Valid[f]
               PROVE  /\ Verdict(a, f, i).status # "new"
                      /\ <<f, a, i>> \in imported => Verdict(a, f, i).status = "duplicate"
    BY DEF ReimportFindsNothingNew
  <2>1. Recognized(a, f, i)
    BY DEF Inv, ImportsWhole
  <2>2. ASSUME <<f, a, i>> \in imported PROVE Kept(a, f, i)
    BY <2>2 DEF Inv, EventsTrue
  <2>3. QED
    BY <2>1, <2>2, Verdicts, KeptIsDuplicate DEF Inv
<1>2. QED
  BY <1>1, Inductive, PTL

-----------------------------------------------------------------------------
(* What a step may do                                                      *)

\* Rows and figures change only when a confirmation stores.
LEMMA OnlyStores ==
  ASSUME [Next]_vars, rows' # rows \/ figure' # figure
  PROVE  \E r \in Requests, a \in Accounts : Stores(r, a)
<1>1. PICK r \in Requests : Store(r)
  BY DEF Next, vars, ShowPreview, Confirm, Fail, OtherOrigin
<1>2. QED
  BY <1>1, StoreCases

\* An import stores what the preview showed as new, and nothing it did not
\* show as new or ambiguous.
LEMMA StoringAsSeen ==
  ASSUME Inv, NEW r \in Requests, NEW a \in Accounts, Stores(r, a)
  PROVE  AsSeen(req[r].seen, a, Added(a, req[r].file))
<1>1. PICK q : q = req[r]
  OBVIOUS
<1>2. Fits(q)
  BY <1>1 DEF Stores, Inv, RequestsFit
<1>3. PICK f, seen : f = q.file /\ seen = q.seen
  OBVIOUS
<1>4. PICK forced \in SUBSET Having(seen, "ambiguous") : q.lines = Lines(f, seen, forced)
  BY <1>2, <1>3 DEF Fits
<1>5. /\ \A i \in Having(seen, "new") :
           \E m \in rows'[a] \ rows[a] : m.id = Identity(f, i) /\ m.file = f
      /\ \A m \in rows'[a] \ rows[a] :
           \/ \E i \in Having(seen, "new") : m.id = Identity(f, i)
           \/ \E i \in forced : m.id = ForcedIdentity(f, i)
  <2>1. forced \in SUBSET Having(q.seen, "ambiguous") /\ q.lines = Lines(q.file, q.seen, forced)
    BY <1>3, <1>4
  <2>2. QED
    BY <1>1, <1>3, <2>1, StoredRows
<1>6. f \in Files /\ Having(seen, "new") \cup Having(seen, "ambiguous") \subseteq Valid[f]
  BY <1>2, <1>3 DEF Fits
<1>7. seen.account \in {a, NoAccount}
  BY <1>1, <1>3 DEF Stores
<1>8. Having(seen, "new") \subseteq Added(a, f)
  BY <1>5, <1>6 DEF Added
<1>9. ASSUME NEW i \in Added(a, f)
      PROVE  i \in Having(seen, "new") \cup Having(seen, "ambiguous")
  <2>1. PICK m \in rows'[a] \ rows[a] : m.id \in {Identity(f, i), ForcedIdentity(f, i)}
    BY DEF Added
  <2>2. i \in Valid[f]
    BY DEF Added
  <2>3. CASE \E j \in Having(seen, "new") : m.id = Identity(f, j)
    <3>1. PICK j \in Having(seen, "new") : m.id = Identity(f, j)
      BY <2>3
    <3>2. Identity(f, i) = Identity(f, j)
      BY <2>1, <3>1, IdentitiesApart
    <3>3. i = j
      BY <1>6, <2>2, <3>2, DistinctIdentities
    <3>4. QED
      BY <3>3
  <2>4. CASE \E j \in forced : m.id = ForcedIdentity(f, j)
    <3>1. PICK j \in forced : m.id = ForcedIdentity(f, j)
      BY <2>4
    <3>2. i = j
      BY <2>1, <3>1, IdentitiesApart
    <3>3. QED
      BY <3>2
  <2>5. QED
    BY <1>5, <2>3, <2>4
<1>10. QED
  BY <1>1, <1>3, <1>7, <1>8, <1>9 DEF AsSeen

\* Nothing is stored that the user did not see, whatever is stored between
\* the preview, the confirmation and the write.
THEOREM StoresWhatWasSeen == Spec => StoredAsSeen
<1>1. ASSUME Inv, [Next]_vars, NEW r \in Requests, NEW a \in Accounts,
             req[r].step = "storing", req'[r].step = "idle", rows'[a] # rows[a]
      PROVE  AsSeen(req[r].seen, a, Added(a, req[r].file))
  <2>1. PICK s \in Requests, b \in Accounts : Stores(s, b)
    BY <1>1, OnlyStores
  <2>2. s = r
    BY <1>1, <2>1 DEF Stores, Inv, RequestsFit
  <2>3. b = a
    BY <1>1, <2>1 DEF Stores, Inv, TypeOK
  <2>4. QED
    BY <1>1, <2>1, <2>2, <2>3, StoringAsSeen
<1>2. Inv /\ [Next]_vars =>
        [\A r \in Requests, a \in Accounts :
           req[r].step = "storing" /\ req'[r].step = "idle" /\ rows'[a] # rows[a] =>
             AsSeen(req[r].seen, a, Added(a, req[r].file))]_vars
  BY <1>1
<1>3. QED
  BY <1>2, Inductive, PTL DEF Spec, StoredAsSeen

\* An account's balance only moves forward, to the balance of a line its
\* file proves to be the last.
THEOREM BalanceOnlyForward == Spec => BalanceMovesForward
<1>1. ASSUME Inv, [Next]_vars, NEW a \in Accounts, figure'[a] # figure[a]
      PROVE  /\ figure'[a].at > figure[a].at
             /\ \E r \in Requests :
                  /\ req[r].step = "storing"
                  /\ \E i \in Valid[req[r].file] :
                       /\ ProvesLast(req[r].file, i)
                       /\ figure'[a] = [at |-> Line(req[r].file, i).at, bal |-> Line(req[r].file, i).bal]
  <2>1. PICK r \in Requests, b \in Accounts : Stores(r, b)
    BY <1>1, OnlyStores
  <2>2. PICK q : q = req[r]
    OBVIOUS
  <2>3. Fits(q) /\ q.step = "storing"
    BY <1>1, <2>1, <2>2 DEF Stores, Inv, RequestsFit
  <2>4. Newer(b, q.latest) /\ b = a /\ figure'[a] = q.latest
    BY <1>1, <2>1, <2>2 DEF Stores, Inv, TypeOK
  <2>5. q.latest.at > figure[a].at /\ figure[a].at \in Nat
    BY <1>1, <2>4 DEF Newer, Inv, FiguresTyped
  <2>6. q.latest # NoFigure
    BY <2>5 DEF NoFigure
  <2>7. PICK i \in Valid[q.file] : LastOf(q.file, i, q.latest)
    BY <2>3, <2>6 DEF Fits
  <2>8. QED
    BY <2>2, <2>3, <2>4, <2>5, <2>7 DEF LastOf
<1>2. Inv /\ [Next]_vars =>
        [\A a \in Accounts : figure'[a] # figure[a] =>
           /\ figure'[a].at > figure[a].at
           /\ \E r \in Requests :
                /\ req[r].step = "storing"
                /\ \E i \in Valid[req[r].file] :
                     /\ ProvesLast(req[r].file, i)
                     /\ figure'[a] = [at |-> Line(req[r].file, i).at, bal |-> Line(req[r].file, i).bal]]_vars
  BY <1>1
<1>3. QED
  BY <1>2, Inductive, PTL DEF Spec, BalanceMovesForward
=============================================================================
