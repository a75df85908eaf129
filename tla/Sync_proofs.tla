---------------------------- MODULE Sync_proofs ----------------------------
(***************************************************************************)
(* Proofs about SyncRuns, for any runs, sources, workers, lease, number of *)
(* pages and bound on versions; and about SyncSchedule, for any sources,   *)
(* processes and number of occurrences.                                    *)
(***************************************************************************)
EXTENDS SyncRuns, SyncSchedule, TLAPS

-----------------------------------------------------------------------------
(* The runs                                                                *)

\* The tuples of variables, and the abbreviations of the type invariant.
USE DEF vars, rowVars, loopVars, scanVars, dataVars

\* A worker past the selection holds a run, and one about to store holds a page;
\* without these the types of page and stored are not inductive.
JobKnown == \A w \in Workers : pc[w] \in Busy \cup {"picked"} => job[w] \in Runs
PageKnown == \A w \in Workers : pc[w] \in {"received", "storing"} => page[w] \in Nat

Typed == TypeOK /\ JobKnown /\ PageKnown

\* A heartbeat keeps the types of what it writes.
LEMMA BeatTyped ==
  ASSUME TypeOK, NEW r \in Runs, Beat(r)
  PROVE  age' \in [Runs -> Ages] /\ moved' \in [Workers -> SUBSET Runs]
<1>1. 0 \in Ages
  BY ConstantsAssumption DEF Ages, Expired
<1>2. age' \in [Runs -> Ages]
  BY <1>1 DEF TypeOK, Beat
<1>3. ASSUME NEW v \in Workers
      PROVE  (IF r \in scan[v] THEN moved[v] \cup {r} ELSE moved[v]) \in SUBSET Runs
  BY DEF TypeOK
<1>4. moved' \in [Workers -> SUBSET Runs]
  BY <1>3 DEF Beat
<1>5. QED
  BY <1>2, <1>4

\* A worker that leaves its run holds nothing.
LEMMA LeaveTyped ==
  ASSUME TypeOK, NEW w \in Workers, Leave(w)
  PROVE  /\ pc' \in [Workers -> ProgramCounters]
         /\ job' \in [Workers -> Runs \cup {NoRun}]
         /\ left' \in [Workers -> 0 .. Pages]
         /\ page' \in [Workers -> Nat \cup {NoPage}]
<1>1. 0 \in 0 .. Pages
  BY ConstantsAssumption
<1>2. "idle" \in ProgramCounters
  BY DEF ProgramCounters, Alive
<1>3. QED
  BY <1>1, <1>2 DEF TypeOK, Leave

\* Typed is inductive.
LEMMA TypedInductive == Spec => []Typed
<1> USE ConstantsAssumption DEF Typed, JobKnown, PageKnown, TypeOK, Expired, Ages, Statuses, Verdicts, OwnerVerdicts,
      ProgramCounters, Alive, Busy
<1>1. Init => Typed
  BY DEF Init
<1>2. Typed /\ [Next]_vars => Typed'
  <2> SUFFICES ASSUME Typed, [Next]_vars PROVE Typed'
    OBVIOUS
  <2>1. ASSUME NEW r \in Runs, Enqueue(r) PROVE Typed'
    BY <2>1 DEF Enqueue, NextRun
  <2>2. ASSUME NEW s \in Sources, SetActive(s) PROVE Typed'
    BY <2>2 DEF SetActive, Flip
  <2>3. ASSUME NEW s \in Sources, Advance(s) PROVE Typed'
    BY <2>3 DEF Advance
  <2>4. ASSUME Tick PROVE Typed'
    BY <2>4 DEF Tick
  <2>5. ASSUME NEW w \in Workers, Start(w) PROVE Typed'
    BY <2>5 DEF Start
  <2>6. ASSUME NEW w \in Workers, ClaimSelect(w) PROVE Typed'
    BY <2>6 DEF ClaimSelect
  <2>7. ASSUME NEW w \in Workers, ClaimUpdate(w) PROVE Typed'
    <3>1. TypeOK'
      <4>1. CASE Pending(job[w])
        <5>1. job[w] \in Runs
          BY <2>7 DEF ClaimUpdate
        <5>2. Beat(job[w])
          BY <2>7, <4>1 DEF ClaimUpdate
        <5>3. age' \in [Runs -> Ages] /\ moved' \in [Workers -> SUBSET Runs]
          BY <5>1, <5>2, BeatTyped
        <5>4. /\ owner' = [owner EXCEPT ![job[w]] = w]
              /\ pc' = [pc EXCEPT ![w] = "claimed"]
              /\ UNCHANGED <<status, job, left, page, active, scan, dataVars>>
          BY <2>7, <4>1 DEF ClaimUpdate
        <5>5. owner' \in [Runs -> Workers \cup {NoWorker}]
          BY <5>1, <5>4
        <5>6. QED
          BY <5>3, <5>4, <5>5
      <4>2. CASE ~Pending(job[w])
        BY <2>7, <4>2, LeaveTyped DEF ClaimUpdate
      <4>3. QED
        BY <4>1, <4>2
    <3>2. JobKnown'
      BY <2>7 DEF ClaimUpdate, Beat, Leave, Pending, InProgress
    <3>3. PageKnown'
      BY <2>7 DEF ClaimUpdate, Beat, Leave, Pending, InProgress
    <3>4. QED
      BY <3>1, <3>2, <3>3
  <2>8. ASSUME NEW w \in Workers, Lookup(w) PROVE Typed'
    <3>1. TypeOK'
      BY <2>8 DEF Lookup
    <3>2. JobKnown'
      BY <2>8 DEF Lookup
    <3>3. PageKnown'
      BY <2>8 DEF Lookup
    <3>4. QED
      BY <3>1, <3>2, <3>3
  <2>9. ASSUME NEW w \in Workers, Receive(w) PROVE Typed'
    <3>1. TypeOK'
      <4>1. job[w] \in Runs
        BY <2>9 DEF Receive
      <4>2. offered[SourceOf[job[w]]] \in Nat
        BY <4>1
      <4>3. QED
        BY <2>9, <4>2 DEF Receive
    <3>2. JobKnown'
      BY <2>9 DEF Receive
    <3>3. PageKnown'
      BY <2>9 DEF Receive
    <3>4. QED
      BY <3>1, <3>2, <3>3
  <2>10. ASSUME NEW w \in Workers, SaveRaw(w) PROVE Typed'
    <3>1. TypeOK'
      <4>1. CASE Owns(w)
        <5>1. job[w] \in Runs /\ Beat(job[w])
          BY <2>10, <4>1 DEF SaveRaw
        <5>2. age' \in [Runs -> Ages] /\ moved' \in [Workers -> SUBSET Runs]
          BY <5>1, BeatTyped
        <5>3. QED
          BY <2>10, <4>1, <5>2 DEF SaveRaw
      <4>2. CASE ~Owns(w)
        BY <2>10, <4>2, LeaveTyped DEF SaveRaw
      <4>3. QED
        BY <4>1, <4>2
    <3>2. JobKnown'
      BY <2>10 DEF SaveRaw, Beat, Leave
    <3>3. PageKnown'
      BY <2>10 DEF SaveRaw, Beat, Leave
    <3>4. QED
      BY <3>1, <3>2, <3>3
  <2>11. ASSUME NEW w \in Workers, Store(w) PROVE Typed'
    <3>1. TypeOK'
      <4>1. CASE Owns(w)
        <5>1. job[w] \in Runs /\ Beat(job[w]) /\ page[w] \in Nat
          BY <2>11, <4>1 DEF Store
        <5>2. age' \in [Runs -> Ages] /\ moved' \in [Workers -> SUBSET Runs]
          BY <5>1, BeatTyped
        <5>3. QED
          BY <2>11, <4>1, <5>1, <5>2 DEF Store
      <4>2. CASE ~Owns(w)
        BY <2>11, <4>2, LeaveTyped DEF Store
      <4>3. QED
        BY <4>1, <4>2
    <3>2. JobKnown'
      BY <2>11 DEF Store, Beat, Leave
    <3>3. PageKnown'
      BY <2>11 DEF Store, Beat, Leave
    <3>4. QED
      BY <3>1, <3>2, <3>3
  <2>12. ASSUME NEW w \in Workers, NEW v \in OwnerVerdicts, EndRun(w, v) PROVE Typed'
    <3>1. TypeOK'
      <4>1. v \in Statuses
        OBVIOUS
      <4>2. status' \in [Runs -> Statuses]
        BY <2>12, <4>1 DEF EndRun
      <4>3. QED
        BY <2>12, <4>2, LeaveTyped DEF EndRun
    <3>2. JobKnown'
      BY <2>12 DEF EndRun, Leave
    <3>3. PageKnown'
      BY <2>12 DEF EndRun, Leave
    <3>4. QED
      BY <3>1, <3>2, <3>3
  <2>13. ASSUME NEW w \in Workers, Abandon(w) PROVE Typed'
    <3>1. TypeOK'
      BY <2>13, LeaveTyped DEF Abandon
    <3>2. JobKnown'
      BY <2>13 DEF Abandon, Leave
    <3>3. PageKnown'
      BY <2>13 DEF Abandon, Leave
    <3>4. QED
      BY <3>1, <3>2, <3>3
  <2>14. ASSUME NEW w \in Workers, Heartbeat(w) PROVE Typed'
    <3>1. TypeOK'
      <4>1. CASE Owns(w)
        <5>1. job[w] \in Runs /\ Beat(job[w])
          BY <2>14, <4>1 DEF Heartbeat
        <5>2. age' \in [Runs -> Ages] /\ moved' \in [Workers -> SUBSET Runs]
          BY <5>1, BeatTyped
        <5>3. QED
          BY <2>14, <4>1, <5>2 DEF Heartbeat
      <4>2. CASE ~Owns(w)
        BY <2>14, <4>2, LeaveTyped DEF Heartbeat
      <4>3. QED
        BY <4>1, <4>2
    <3>2. JobKnown'
      BY <2>14 DEF Heartbeat, Beat, Leave
    <3>3. PageKnown'
      BY <2>14 DEF Heartbeat, Beat, Leave
    <3>4. QED
      BY <3>1, <3>2, <3>3
  <2>15. ASSUME NEW w \in Workers, Scan(w) PROVE Typed'
    BY <2>15 DEF Scan
  <2>16. ASSUME NEW w \in Workers, NEW r \in Runs, Recover(w, r) PROVE Typed'
    BY <2>16 DEF Recover
  <2>17. ASSUME NEW w \in Workers, RecoverError(w) PROVE Typed'
    BY <2>17 DEF RecoverError
  <2>18. ASSUME NEW w \in Workers, Crash(w) PROVE Typed'
    <3>1. TypeOK'
      BY <2>18 DEF Crash
    <3>2. JobKnown'
      BY <2>18 DEF Crash
    <3>3. PageKnown'
      BY <2>18 DEF Crash
    <3>4. QED
      BY <3>1, <3>2, <3>3
  <2>19. CASE UNCHANGED vars
    BY <2>19
  <2>20. QED
    BY <2>1, <2>2, <2>3, <2>4, <2>5, <2>6, <2>7, <2>8, <2>9, <2>10, <2>11, <2>12, <2>13,
       <2>14, <2>15, <2>16, <2>17, <2>18, <2>19 DEF Next, Work, Finalize, FailGeneral, FailRun
<1>3. QED
  BY <1>1, <1>2, PTL DEF Spec

\* Every variable keeps its type: sync_runs rows, worker memory and data.
THEOREM TypeCorrect == Spec => []TypeOK
  BY TypedInductive, PTL DEF Typed

-----------------------------------------------------------------------------
(* The inductive invariant, one lemma per conjunct.  Only Enqueue, EndRun  *)
(* and Recover write status; only ClaimUpdate writes owner.                *)

\* The status column changes in three places only.
LEMMA StatusWriters ==
  ASSUME [Next]_vars
  PROVE  \/ \E r \in Runs : Enqueue(r)
         \/ \E w \in Workers, v \in OwnerVerdicts : pc[w] \in Busy /\ EndRun(w, v)
         \/ \E w \in Workers, r \in Runs : Recover(w, r)
         \/ UNCHANGED status
  BY DEF Next, Work, Start, ClaimSelect, ClaimUpdate, Lookup, Receive, SaveRaw, Store,
     Finalize, FailGeneral, FailRun, Abandon, Heartbeat, Scan, RecoverError, Crash,
     SetActive, Flip, Advance, Tick, OwnerVerdicts, Verdicts, Busy

\* Only the claim of a pending run writes worker_id.
LEMMA OwnerWriters ==
  ASSUME [Next]_vars
  PROVE  \/ \E w \in Workers : ClaimUpdate(w) /\ Pending(job[w])
         \/ UNCHANGED owner
  BY DEF Next, Work, Start, ClaimSelect, ClaimUpdate, Lookup, Receive, SaveRaw, Store,
     Finalize, FailGeneral, FailRun, EndRun, Abandon, Heartbeat, Scan, Recover, RecoverError,
     Crash, SetActive, Flip, Advance, Tick, Enqueue, NextRun

\* At most one run per source is in progress.
LEMMA OneActiveStep ==
  ASSUME Typed, OneActiveRun, [Next]_vars
  PROVE  OneActiveRun'
<1> USE ConstantsAssumption DEF Typed, TypeOK, OneActiveRun, InProgress
<1>1. ASSUME NEW r \in Runs, Enqueue(r) PROVE OneActiveRun'
  BY <1>1 DEF Enqueue, NextRun, SourceFree
<1>2. ASSUME NEW w \in Workers, NEW v \in OwnerVerdicts, EndRun(w, v) PROVE OneActiveRun'
  BY <1>2 DEF EndRun, OwnerVerdicts, Verdicts
<1>3. ASSUME NEW w \in Workers, NEW r \in Runs, Recover(w, r) PROVE OneActiveRun'
  BY <1>3 DEF Recover
<1>4. CASE UNCHANGED status
  BY <1>4
<1>5. QED
  BY <1>1, <1>2, <1>3, <1>4, StatusWriters

\* A worker executes only the run it claimed, and no unborn run has an owner.
LEMMA ClaimsStep ==
  ASSUME Typed, ClaimsCoherent, [Next]_vars
  PROVE  ClaimsCoherent'
<1> USE ConstantsAssumption DEF Typed, TypeOK, ClaimsCoherent, Busy
<1>1. ASSUME NEW r \in Runs, Enqueue(r) PROVE ClaimsCoherent'
  BY <1>1 DEF Enqueue, NextRun
<1>2. ASSUME NEW s \in Sources, SetActive(s) \/ Advance(s) PROVE ClaimsCoherent'
  BY <1>2 DEF SetActive, Flip, Advance
<1>3. ASSUME Tick PROVE ClaimsCoherent'
  BY <1>3 DEF Tick
<1>4. ASSUME NEW w \in Workers, Start(w) PROVE ClaimsCoherent'
  BY <1>4 DEF Start
<1>5. ASSUME NEW w \in Workers, ClaimSelect(w) PROVE ClaimsCoherent'
  BY <1>5 DEF ClaimSelect, Pending, InProgress
<1>6. ASSUME NEW w \in Workers, ClaimUpdate(w) PROVE ClaimsCoherent'
  <2>1. CASE Pending(job[w])
    <3>1. /\ job[w] \in Runs
          /\ job' = job
          /\ status' = status
          /\ status[job[w]] = "in_progress"
          /\ owner' = [owner EXCEPT ![job[w]] = w]
          /\ pc' = [pc EXCEPT ![w] = "claimed"]
      BY <1>6, <2>1 DEF ClaimUpdate, Pending, InProgress
    <3>2. \A v \in Workers : pc[v] \in Busy => job[v] # job[w]
      BY <2>1 DEF Pending
    <3>3. QED
      BY <3>1, <3>2
  <2>2. CASE ~Pending(job[w])
    <3>1. Leave(w) /\ UNCHANGED rowVars
      BY <1>6, <2>2 DEF ClaimUpdate
    <3>2. QED
      BY <3>1 DEF Leave
  <2>3. QED
    BY <2>1, <2>2
<1>7. ASSUME NEW w \in Workers, Lookup(w) PROVE ClaimsCoherent'
  BY <1>7 DEF Lookup
<1>8. ASSUME NEW w \in Workers, Receive(w) PROVE ClaimsCoherent'
  BY <1>8 DEF Receive
<1>9. ASSUME NEW w \in Workers, SaveRaw(w) PROVE ClaimsCoherent'
  BY <1>9 DEF SaveRaw, Leave
<1>10. ASSUME NEW w \in Workers, Store(w) PROVE ClaimsCoherent'
  BY <1>10 DEF Store, Leave
<1>11. ASSUME NEW w \in Workers, NEW v \in OwnerVerdicts, pc[w] \in Busy, EndRun(w, v)
       PROVE ClaimsCoherent'
  BY <1>11 DEF EndRun, Leave, OwnerVerdicts, Verdicts
<1>12. ASSUME NEW w \in Workers, Abandon(w) PROVE ClaimsCoherent'
  BY <1>12 DEF Abandon, Leave
<1>13. ASSUME NEW w \in Workers, Heartbeat(w) PROVE ClaimsCoherent'
  BY <1>13 DEF Heartbeat, Leave
<1>14. ASSUME NEW w \in Workers, Scan(w) \/ RecoverError(w) PROVE ClaimsCoherent'
  BY <1>14 DEF Scan, RecoverError
<1>15. ASSUME NEW w \in Workers, NEW r \in Runs, Recover(w, r) PROVE ClaimsCoherent'
  BY <1>15 DEF Recover, InProgress
<1>16. ASSUME NEW w \in Workers, Crash(w) PROVE ClaimsCoherent'
  BY <1>16 DEF Crash
<1>17. CASE UNCHANGED vars
  BY <1>17
<1>18. QED
  BY <1>1, <1>2, <1>3, <1>4, <1>5, <1>6, <1>7, <1>8, <1>9, <1>10, <1>11, <1>12, <1>13,
     <1>14, <1>15, <1>16, <1>17
     DEF Next, Work, Finalize, FailGeneral, FailRun, OwnerVerdicts, Verdicts

\* A heartbeat takes its run out of the unmoved candidates and leaves the others.
LEMMA BeatStep ==
  ASSUME Typed, CandidatesStale, NEW r \in Runs, Beat(r),
         scan' = scan, status' = status,
         \A q \in Runs : q # r => owner'[q] = owner[q]
  PROVE  CandidatesStale'
<1> USE DEF Typed, TypeOK, CandidatesStale, Stale, Claimed, InProgress, Beat
<1>1. ASSUME NEW w \in Workers, NEW q \in scan'[w] PROVE status'[q] # "none"
  BY <1>1
<1>2. ASSUME NEW w \in Workers, NEW q \in scan'[w] \ moved'[w], InProgress(q)' PROVE Stale(q)'
  <2>1. q # r /\ q \in scan[w] \ moved[w]
    BY <1>2
  <2>2. Stale(q)
    BY <1>2, <2>1
  <2>3. QED
    BY <1>2, <2>1, <2>2
<1>3. QED
  BY <1>1, <1>2

\* Ending runs and dropping candidates leaves the other candidates stale.
LEMMA FewerCandidates ==
  ASSUME CandidatesStale, UNCHANGED <<owner, age>>,
         \A q \in Runs : status'[q] \in {status[q]} \cup Verdicts,
         \A w \in Workers : /\ scan[w] \subseteq Runs
                            /\ scan'[w] \subseteq scan[w]
                            /\ scan'[w] \ moved'[w] \subseteq scan[w] \ moved[w]
  PROVE  CandidatesStale'
<1> USE DEF CandidatesStale
<1>1. ASSUME NEW w \in Workers, NEW q \in scan'[w] PROVE status'[q] # "none"
  <2>1. q \in Runs /\ status[q] # "none"
    BY <1>1
  <2>2. QED
    BY <2>1 DEF Verdicts
<1>2. ASSUME NEW w \in Workers, NEW q \in scan'[w] \ moved'[w], InProgress(q)' PROVE Stale(q)'
  <2>1. q \in Runs /\ q \in scan[w] \ moved[w]
    BY <1>2
  <2>2. InProgress(q)
    BY <1>2, <2>1 DEF InProgress, Verdicts
  <2>3. Stale(q)
    BY <2>1, <2>2
  <2>4. QED
    BY <1>2, <2>3 DEF Stale, Claimed, InProgress
<1>3. QED
  BY <1>1, <1>2

\* A candidate whose heartbeat did not move is still silent beyond the lease: a
\* heartbeat marks the run in every scan it is a candidate of, and only time
\* changes the other ages, upwards.
LEMMA CandidatesStep ==
  ASSUME Typed, ClaimsCoherent, CandidatesStale, [Next]_vars
  PROVE  CandidatesStale'
<1> USE ConstantsAssumption DEF Typed, TypeOK, CandidatesStale, Stale, Claimed, InProgress
<1>1. ASSUME NEW r \in Runs, Enqueue(r) PROVE CandidatesStale'
  BY <1>1 DEF Enqueue, NextRun
<1>2. ASSUME NEW s \in Sources, SetActive(s) \/ Advance(s) PROVE CandidatesStale'
  BY <1>2 DEF SetActive, Flip, Advance
<1>3. ASSUME Tick PROVE CandidatesStale'
  BY <1>3 DEF Tick, Expired, Ages
<1>4. ASSUME NEW w \in Workers, Start(w) \/ ClaimSelect(w) \/ Lookup(w) \/ Receive(w) \/ Abandon(w)
      PROVE CandidatesStale'
  BY <1>4 DEF Start, ClaimSelect, Lookup, Receive, Abandon, Leave
<1>5. ASSUME NEW w \in Workers, ClaimUpdate(w) PROVE CandidatesStale'
  <2>1. CASE Pending(job[w])
    BY <1>5, <2>1, BeatStep DEF ClaimUpdate, Pending, JobKnown
  <2>2. CASE ~Pending(job[w])
    BY <1>5, <2>2 DEF ClaimUpdate, Leave
  <2>3. QED
    BY <2>1, <2>2
<1>6. ASSUME NEW w \in Workers, SaveRaw(w) \/ Store(w) \/ Heartbeat(w) PROVE CandidatesStale'
  <2>1. CASE Owns(w)
    BY <1>6, <2>1, BeatStep DEF SaveRaw, Store, Heartbeat, JobKnown, Busy
  <2>2. CASE ~Owns(w)
    BY <1>6, <2>2 DEF SaveRaw, Store, Heartbeat, Leave
  <2>3. QED
    BY <2>1, <2>2
<1>7. ASSUME NEW w \in Workers, NEW v \in OwnerVerdicts, EndRun(w, v) PROVE CandidatesStale'
  <2>1. \A q \in Runs : status'[q] \in {status[q]} \cup Verdicts
    BY <1>7 DEF EndRun, OwnerVerdicts
  <2>2. UNCHANGED <<owner, age, scan, moved>>
    BY <1>7 DEF EndRun
  <2>3. QED
    BY <2>1, <2>2, FewerCandidates
<1>8. ASSUME NEW w \in Workers, Scan(w) PROVE CandidatesStale'
  BY <1>8 DEF Scan
<1>9. ASSUME NEW w \in Workers, NEW r \in Runs, Recover(w, r) PROVE CandidatesStale'
  <2>1. \A q \in Runs : status'[q] \in {status[q]} \cup Verdicts
    BY <1>9 DEF Recover, Verdicts
  <2>2. \A v \in Workers : /\ scan'[v] \subseteq scan[v]
                         /\ scan'[v] \ moved'[v] \subseteq scan[v] \ moved[v]
    BY <1>9 DEF Recover
  <2>3. UNCHANGED <<owner, age>>
    BY <1>9 DEF Recover
  <2>4. QED
    BY <2>1, <2>2, <2>3, FewerCandidates
<1>10. ASSUME NEW w \in Workers, RecoverError(w) \/ Crash(w) PROVE CandidatesStale'
  <2>1. UNCHANGED <<status, owner, age>>
    BY <1>10 DEF RecoverError, Crash
  <2>2. \A v \in Workers : /\ scan'[v] \subseteq scan[v]
                         /\ scan'[v] \ moved'[v] \subseteq scan[v] \ moved[v]
    BY <1>10 DEF RecoverError, Crash
  <2>3. QED
    BY <2>1, <2>2, FewerCandidates
<1>11. CASE UNCHANGED vars
  BY <1>11
<1>12. QED
  BY <1>1, <1>2, <1>3, <1>4, <1>5, <1>6, <1>7, <1>8, <1>9, <1>10, <1>11
     DEF Next, Work, Finalize, FailGeneral, FailRun, OwnerVerdicts, Verdicts

\* The owner of a run holds a page at least as new as what is stored: it is the
\* only writer of the source since the claim.
LEMMA PageStep ==
  ASSUME Typed, OneActiveRun, ClaimsCoherent, PageCurrent, [Next]_vars
  PROVE  PageCurrent'
<1> USE ConstantsAssumption DEF Typed, TypeOK, PageKnown, ClaimsCoherent, PageCurrent, Owns, InProgress
<1>1. ASSUME NEW r \in Runs, Enqueue(r) PROVE PageCurrent'
  BY <1>1 DEF Enqueue, NextRun, Busy
<1>2. ASSUME NEW s \in Sources, SetActive(s) PROVE PageCurrent'
  BY <1>2 DEF SetActive, Flip
<1>3. ASSUME NEW s \in Sources, Advance(s) PROVE PageCurrent'
  BY <1>3 DEF Advance, Busy
<1>4. ASSUME Tick PROVE PageCurrent'
  BY <1>4 DEF Tick
<1>5. ASSUME NEW w \in Workers, Start(w) \/ ClaimSelect(w) \/ Lookup(w) \/ Abandon(w)
      PROVE PageCurrent'
  BY <1>5 DEF Start, ClaimSelect, Lookup, Abandon, Leave
<1>6. ASSUME NEW w \in Workers, ClaimUpdate(w) PROVE PageCurrent'
  BY <1>6 DEF ClaimUpdate, Leave, Busy
<1>7. ASSUME NEW w \in Workers, Receive(w) PROVE PageCurrent'
  <2>1. job[w] \in Runs /\ SourceOf[job[w]] \in Sources
    BY <1>7 DEF Receive, Busy
  <2>2. page'[w] = offered[SourceOf[job[w]]]
    BY <1>7 DEF Receive
  <2>3. QED
    BY <1>7, <2>1, <2>2 DEF Receive
<1>8. ASSUME NEW w \in Workers, SaveRaw(w) \/ Heartbeat(w) PROVE PageCurrent'
  BY <1>8 DEF SaveRaw, Heartbeat, Leave
<1>9. ASSUME NEW w \in Workers, Store(w) PROVE PageCurrent'
  <2>1. CASE Owns(w)
    <3>1. /\ job[w] \in Runs
          /\ page[w] \in Nat
          /\ page[w] <= offered[SourceOf[job[w]]]
      BY <1>9, <2>1 DEF Store, Busy
    <3>2. ASSUME NEW v \in Workers, v # w, Owns(v), pc[v] \in {"received", "storing"}
          PROVE SourceOf[job[v]] # SourceOf[job[w]]
      BY <2>1, <3>1, <3>2 DEF OneActiveRun, Busy
    <3>3. \A s \in Sources : stored'[s] <= offered'[s]
      BY <1>9, <2>1, <3>1 DEF Store
    <3>4. ASSUME NEW v \in Workers, pc'[v] \in {"received", "storing"}
          PROVE /\ v # w
                /\ pc[v] \in {"received", "storing"}
                /\ page'[v] = page[v]
                /\ page[v] \in Nat
                /\ Owns(v)' => Owns(v)
      BY <1>9, <2>1, <3>4 DEF Store
    <3>5. ASSUME NEW v \in Workers, pc'[v] \in {"received", "storing"}, Owns(v)'
          PROVE /\ stored'[SourceOf[job'[v]]] <= page'[v]
                /\ page'[v] <= offered'[SourceOf[job'[v]]]
      <4>1. SourceOf[job[v]] # SourceOf[job[w]]
        BY <3>2, <3>4, <3>5
      <4>2. job[v] \in Runs
        BY <3>4, <3>5 DEF Busy
      <4>3. SourceOf[job[v]] \in Sources
        BY <4>2
      <4>4. stored' = [stored EXCEPT ![SourceOf[job[w]]] = page[w]]
        BY <1>9, <2>1 DEF Store
      <4>5. stored'[SourceOf[job[v]]] = stored[SourceOf[job[v]]]
        BY <4>1, <4>3, <4>4
      <4>6. QED
        BY <1>9, <2>1, <3>4, <3>5, <4>5 DEF Store
    <3>6. QED
      BY <3>3, <3>4, <3>5
  <2>2. CASE ~Owns(w)
    BY <1>9, <2>2 DEF Store, Leave
  <2>3. QED
    BY <2>1, <2>2
<1>10. ASSUME NEW w \in Workers, NEW v \in OwnerVerdicts, EndRun(w, v) PROVE PageCurrent'
  BY <1>10 DEF EndRun, OwnerVerdicts, Verdicts, Leave
<1>11. ASSUME NEW w \in Workers, Scan(w) \/ RecoverError(w) \/ Crash(w) PROVE PageCurrent'
  BY <1>11 DEF Scan, RecoverError, Crash
<1>12. ASSUME NEW w \in Workers, NEW r \in Runs, Recover(w, r) PROVE PageCurrent'
  BY <1>12 DEF Recover
<1>13. CASE UNCHANGED vars
  BY <1>13
<1>14. QED
  BY <1>1, <1>2, <1>3, <1>4, <1>5, <1>6, <1>7, <1>8, <1>9, <1>10, <1>11, <1>12, <1>13
     DEF Next, Work, Finalize, FailGeneral, FailRun, OwnerVerdicts, Verdicts

-----------------------------------------------------------------------------
\* The inductive invariant holds: overlapping runs, foreign executions, outdated
\* pages in an owner's hands and live candidates never occur.
THEOREM Invariance == Spec => []Inv
<1>1. Init => Inv
  BY ConstantsAssumption
     DEF Init, Inv, OneActiveRun, ClaimsCoherent, PageCurrent, CandidatesStale, InProgress, Busy
<1>2. Typed /\ Inv /\ [Next]_vars => Inv'
  BY OneActiveStep, ClaimsStep, PageStep, CandidatesStep DEF Inv
<1>3. QED
  BY <1>1, <1>2, TypedInductive, PTL DEF Spec

\* Stored provider data never goes back, whichever workers are paused, declared
\* dead or restarted while they hold a page.
THEOREM StoredNeverGoesBack == Spec => StoredForward
<1>1. Typed /\ Inv /\ [Next]_vars => [\A s \in Sources : stored'[s] >= stored[s]]_vars
  <2> SUFFICES ASSUME Typed, Inv, [Next]_vars, NEW s \in Sources PROVE stored'[s] >= stored[s]
    OBVIOUS
  <2> USE DEF Typed, TypeOK
  <2>1. ASSUME NEW w \in Workers, Store(w) PROVE stored'[s] >= stored[s]
    <3>1. CASE Owns(w)
      <4>1. /\ page[w] \in Nat
            /\ stored[SourceOf[job[w]]] <= page[w]
        BY <2>1, <3>1 DEF Store, Inv, PageCurrent
      <4>2. QED
        BY <2>1, <3>1, <4>1 DEF Store
    <3>2. CASE ~Owns(w)
      BY <2>1, <3>2 DEF Store
    <3>3. QED
      BY <3>1, <3>2
  <2>2. CASE UNCHANGED stored
    BY <2>2
  <2>3. QED
    BY <2>1, <2>2
       DEF Next, Work, Start, ClaimSelect, ClaimUpdate, Lookup, Receive, SaveRaw, Finalize,
           FailGeneral, FailRun, EndRun, Abandon, Heartbeat, Scan, Recover, RecoverError, Crash,
           SetActive, Flip, Advance, Tick, Enqueue, NextRun
<1>2. QED
  BY <1>1, TypedInductive, Invariance, PTL DEF Spec, StoredForward

\* A run keeps its first verdict.
THEOREM OneVerdict == Spec => VerdictFinal
<1>1. Typed /\ [Next]_vars =>
        [\A r \in Runs : status[r] \in Verdicts => status'[r] = status[r]]_vars
  <2> SUFFICES ASSUME Typed, [Next]_vars, NEW r \in Runs, status[r] \in Verdicts
               PROVE  status'[r] = status[r]
    OBVIOUS
  <2> USE DEF Typed, TypeOK, Verdicts
  <2>1. ASSUME NEW q \in Runs, Enqueue(q) PROVE status'[r] = status[r]
    BY <2>1 DEF Enqueue, NextRun
  <2>2. ASSUME NEW w \in Workers, NEW v \in OwnerVerdicts, EndRun(w, v) PROVE status'[r] = status[r]
    BY <2>2 DEF EndRun, Owns, InProgress
  <2>3. ASSUME NEW w \in Workers, NEW q \in Runs, Recover(w, q) PROVE status'[r] = status[r]
    BY <2>3 DEF Recover, InProgress
  <2>4. CASE UNCHANGED status
    BY <2>4
  <2>5. QED
    BY <2>1, <2>2, <2>3, <2>4, StatusWriters
<1>2. QED
  BY <1>1, TypedInductive, PTL DEF Spec, VerdictFinal

\* A run has one claimant for ever.
THEOREM OneClaimant == Spec => ClaimedOnce
<1>1. Typed /\ [Next]_vars =>
        [\A r \in Runs : owner[r] # NoWorker => owner'[r] = owner[r]]_vars
  <2> SUFFICES ASSUME Typed, [Next]_vars, NEW r \in Runs, owner[r] # NoWorker
               PROVE  owner'[r] = owner[r]
    OBVIOUS
  <2>1. ASSUME NEW w \in Workers, ClaimUpdate(w), Pending(job[w]) PROVE owner'[r] = owner[r]
    BY <2>1 DEF ClaimUpdate, Pending, Typed, TypeOK
  <2>2. QED
    BY <2>1, OwnerWriters
<1>2. QED
  BY <1>1, TypedInductive, PTL DEF Spec, ClaimedOnce

\* Recovery never fails a run whose owner was heard of within the lease.
THEOREM OnlySilentRecovered == Spec => RecoversOnlySilent
<1>1. Typed /\ Inv /\ [Next]_vars =>
        [\A r \in Runs : status[r] # "interrupted" /\ status'[r] = "interrupted" => Stale(r)]_vars
  <2> SUFFICES ASSUME Typed, Inv, [Next]_vars, NEW r \in Runs,
                      status[r] # "interrupted", status'[r] = "interrupted"
               PROVE  Stale(r)
    OBVIOUS
  <2> USE DEF Typed, TypeOK
  <2>1. ASSUME NEW q \in Runs, Enqueue(q) PROVE FALSE
    BY <2>1 DEF Enqueue, NextRun
  <2>2. ASSUME NEW w \in Workers, NEW v \in OwnerVerdicts, EndRun(w, v) PROVE FALSE
    BY <2>2 DEF EndRun, OwnerVerdicts
  <2>3. ASSUME NEW w \in Workers, NEW q \in Runs, Recover(w, q) PROVE Stale(r)
    BY <2>3 DEF Recover, Inv, CandidatesStale
  <2>4. QED
    BY <2>1, <2>2, <2>3, StatusWriters
<1>2. QED
  BY <1>1, TypedInductive, Invariance, PTL DEF Spec, RecoversOnlySilent

-----------------------------------------------------------------------------
(* SyncRuns implements SyncSlot. *)

\* The slot of a source as its run in progress shows it.
SlotView ==
  /\ slotPhase \in [Sources -> Slot!Phases]
  /\ slotHolder \in [Sources -> Workers \cup {NoWorker}]
  /\ \A s \in Sources : SourceFree(s) => slotPhase[s] = "idle" /\ slotHolder[s] = NoWorker
  /\ \A r \in Runs : InProgress(r) =>
       /\ slotPhase[SourceOf[r]] = IF owner[r] = NoWorker THEN "requested" ELSE "running"
       /\ slotHolder[SourceOf[r]] = owner[r]

\* With one active run per source, RunOf is that run.
LEMMA SlotViewed ==
  ASSUME Typed, OneActiveRun
  PROVE  SlotView
<1> USE ConstantsAssumption DEF Typed, TypeOK
<1>1. ASSUME NEW s \in Sources, ~SourceFree(s)
      PROVE  RunOf(s) \in Runs /\ SourceOf[RunOf(s)] = s /\ InProgress(RunOf(s))
  BY <1>1 DEF SourceFree, RunOf
<1>2. ASSUME NEW r \in Runs, InProgress(r)
      PROVE  ~SourceFree(SourceOf[r]) /\ RunOf(SourceOf[r]) = r
  <2>1. SourceOf[r] \in Sources /\ ~SourceFree(SourceOf[r])
    BY <1>2 DEF SourceFree
  <2>2. QED
    BY <1>1, <1>2, <2>1 DEF OneActiveRun
<1>3. slotPhase \in [Sources -> Slot!Phases]
  BY DEF slotPhase, Slot!Phases
<1>4. slotHolder \in [Sources -> Workers \cup {NoWorker}]
  BY <1>1 DEF slotHolder
<1>5. ASSUME NEW s \in Sources, SourceFree(s)
      PROVE  slotPhase[s] = "idle" /\ slotHolder[s] = NoWorker
  BY <1>5 DEF slotPhase, slotHolder
<1>6. ASSUME NEW r \in Runs, InProgress(r)
      PROVE  /\ slotPhase[SourceOf[r]] = IF owner[r] = NoWorker THEN "requested" ELSE "running"
             /\ slotHolder[SourceOf[r]] = owner[r]
  BY <1>2, <1>6 DEF slotPhase, slotHolder
<1>7. QED
  BY <1>3, <1>4, <1>5, <1>6 DEF SlotView

\* A source none of whose runs starts, ends or is claimed keeps its slot.
LEMMA SlotKept ==
  ASSUME SlotView, SlotView', NEW s \in Sources,
         \A r \in Runs : SourceOf[r] = s =>
           (InProgress(r)' <=> InProgress(r)) /\ owner'[r] = owner[r]
  PROVE  slotPhase'[s] = slotPhase[s] /\ slotHolder'[s] = slotHolder[s]
<1>1. CASE SourceFree(s)
  BY <1>1 DEF SlotView, SourceFree
<1>2. CASE ~SourceFree(s)
  <2>1. PICK r \in Runs : SourceOf[r] = s /\ InProgress(r)
    BY <1>2 DEF SourceFree
  <2>2. QED
    BY <2>1 DEF SlotView
<1>3. QED
  BY <1>1, <1>2

\* Ending a claimed run releases its slot.
LEMMA SlotReleased ==
  ASSUME Typed, OneActiveRun, SlotView, SlotView', NEW r \in Runs, Claimed(r),
         NEW v \in Verdicts, status' = [status EXCEPT ![r] = v],
         UNCHANGED <<owner, offered, stored>>
  PROVE  Slot!Release(SourceOf[r])
<1> DEFINE s == SourceOf[r]
<1>1. s \in Sources /\ slotPhase[s] = "running"
  BY ConstantsAssumption DEF SlotView, Claimed
<1>2. SourceFree(s)'
  BY DEF SourceFree, OneActiveRun, InProgress, Claimed, Typed, TypeOK, Verdicts
<1>3. slotPhase'[s] = "idle" /\ slotHolder'[s] = NoWorker
  BY <1>1, <1>2 DEF SlotView
<1>4. ASSUME NEW t \in Sources, t # s
      PROVE  slotPhase'[t] = slotPhase[t] /\ slotHolder'[t] = slotHolder[t]
  BY <1>4, SlotKept DEF InProgress, Typed, TypeOK
<1>5. slotPhase' = [slotPhase EXCEPT ![s] = "idle"]
  BY <1>3, <1>4 DEF SlotView
<1>6. slotHolder' = [slotHolder EXCEPT ![s] = NoWorker]
  BY <1>3, <1>4 DEF SlotView
<1>7. QED
  BY <1>1, <1>5, <1>6 DEF Slot!Release

\* Every step is a step of the slot of one source, or none.
LEMMA SlotStep ==
  ASSUME Typed, Inv, SlotView, SlotView', [Next]_vars
  PROVE  [Slot!Next]_(Slot!slotVars)
<1> USE ConstantsAssumption DEF Typed, TypeOK, Inv
<1>1. ASSUME NEW r \in Runs, Enqueue(r) PROVE Slot!Next
  <2> DEFINE s == SourceOf[r]
  <2>1. s \in Sources /\ slotPhase[s] = "idle" /\ slotHolder[s] = NoWorker
    BY <1>1 DEF Enqueue, NextRun, SlotView
  <2>2. InProgress(r)' /\ owner'[r] = NoWorker
    BY <1>1 DEF Enqueue, NextRun, InProgress, ClaimsCoherent
  <2>3. slotPhase'[s] = "requested" /\ slotHolder'[s] = NoWorker
    BY <2>2 DEF SlotView
  <2>4. ASSUME NEW t \in Sources, t # s
        PROVE  slotPhase'[t] = slotPhase[t] /\ slotHolder'[t] = slotHolder[t]
    BY <1>1, <2>4, SlotKept DEF Enqueue, NextRun, InProgress
  <2>5. slotPhase' = [slotPhase EXCEPT ![s] = "requested"] /\ slotHolder' = slotHolder
    BY <2>1, <2>3, <2>4 DEF SlotView
  <2>6. Slot!Request(s)
    BY <1>1, <2>1, <2>5 DEF Enqueue, NextRun, Slot!Request
  <2>7. QED
    BY <2>1, <2>6 DEF Slot!Next
<1>2. ASSUME NEW w \in Workers, ClaimUpdate(w), Pending(job[w]) PROVE Slot!Next
  <2>1. PICK r \in Runs : r = job[w] /\ InProgress(r) /\ owner[r] = NoWorker
    BY <1>2 DEF ClaimUpdate, Pending, JobKnown
  <2> DEFINE s == SourceOf[r]
  <2>2. s \in Sources /\ slotPhase[s] = "requested" /\ slotHolder[s] = NoWorker
    BY <2>1 DEF SlotView
  <2>3. InProgress(r)' /\ owner'[r] = w /\ w # NoWorker
    BY <1>2, <2>1 DEF ClaimUpdate, InProgress
  <2>4. slotPhase'[s] = "running" /\ slotHolder'[s] = w
    BY <2>3 DEF SlotView
  <2>5. ASSUME NEW t \in Sources, t # s
        PROVE  slotPhase'[t] = slotPhase[t] /\ slotHolder'[t] = slotHolder[t]
    BY <1>2, <2>1, <2>5, SlotKept DEF ClaimUpdate, InProgress
  <2>6. /\ slotPhase' = [slotPhase EXCEPT ![s] = "running"]
        /\ slotHolder' = [slotHolder EXCEPT ![s] = w]
    BY <2>2, <2>4, <2>5 DEF SlotView
  <2>7. Slot!Take(s, w)
    BY <1>2, <2>1, <2>2, <2>6 DEF ClaimUpdate, Slot!Take
  <2>8. QED
    BY <2>2, <2>7 DEF Slot!Next
<1>3. ASSUME UNCHANGED <<status, owner>>
      PROVE  slotPhase' = slotPhase /\ slotHolder' = slotHolder
  <2>1. ASSUME NEW t \in Sources
        PROVE  slotPhase'[t] = slotPhase[t] /\ slotHolder'[t] = slotHolder[t]
    BY <1>3, SlotKept DEF InProgress
  <2>2. QED
    BY <2>1 DEF SlotView
<1>4. ASSUME NEW w \in Workers, Store(w), Owns(w) PROVE Slot!Next
  <2> DEFINE s == SourceOf[job[w]]
  <2>1. job[w] \in Runs /\ s \in Sources
    BY <1>4 DEF Store, JobKnown, Busy
  <2>2. slotPhase[s] = "running" /\ slotHolder[s] = w
    <3>1. w # NoWorker /\ InProgress(job[w]) /\ owner[job[w]] = w
      BY <1>4 DEF Owns
    <3>2. QED
      BY <2>1, <3>1 DEF SlotView
  <2>3. slotPhase' = slotPhase /\ slotHolder' = slotHolder
    BY <1>3, <1>4 DEF Store, Beat
  <2>4. page[w] \in stored[s] .. offered[s]
    BY <1>4, <2>1 DEF Store, PageCurrent
  <2>5. Slot!Store(s, w)
    BY <1>4, <2>2, <2>3, <2>4 DEF Store, Slot!Store
  <2>6. QED
    BY <2>1, <2>5 DEF Slot!Next
<1>5. ASSUME NEW s \in Sources, Advance(s) PROVE Slot!Next
  BY <1>3, <1>5 DEF Advance, Slot!Advance, Slot!Next
<1>6. ASSUME NEW w \in Workers, NEW v \in OwnerVerdicts, pc[w] \in Busy, EndRun(w, v), Owns(w)
      PROVE  Slot!Next
  <2> DEFINE r == job[w]
  <2>1. r \in Runs /\ Claimed(r) /\ SourceOf[r] \in Sources
    BY <1>6 DEF JobKnown, Owns, Claimed
  <2>2. status' = [status EXCEPT ![r] = v] /\ v \in Verdicts
    BY <1>6 DEF EndRun, OwnerVerdicts
  <2>3. UNCHANGED <<owner, offered, stored>>
    BY <1>6 DEF EndRun
  <2>4. Slot!Release(SourceOf[r])
    BY <2>1, <2>2, <2>3, SlotReleased
  <2>5. QED
    BY <2>1, <2>4 DEF Slot!Next
<1>7. ASSUME NEW w \in Workers, NEW r \in Runs, Recover(w, r), InProgress(r), r \notin moved[w]
      PROVE  Slot!Next
  <2>1. Claimed(r) /\ SourceOf[r] \in Sources
    BY <1>7 DEF Recover, CandidatesStale, Stale
  <2>2. status' = [status EXCEPT ![r] = "interrupted"] /\ "interrupted" \in Verdicts
    BY <1>7 DEF Recover, Verdicts
  <2>3. UNCHANGED <<owner, offered, stored>>
    BY <1>7 DEF Recover
  <2>4. Slot!Release(SourceOf[r])
    BY <2>1, <2>2, <2>3, SlotReleased
  <2>5. QED
    BY <2>1, <2>4 DEF Slot!Next
<1>8. ASSUME UNCHANGED <<status, owner, offered, stored>> PROVE UNCHANGED Slot!slotVars
  BY <1>3, <1>8 DEF Slot!slotVars
<1>9. \/ \E r \in Runs : Enqueue(r)
      \/ \E w \in Workers : ClaimUpdate(w) /\ Pending(job[w])
      \/ \E w \in Workers : Store(w) /\ Owns(w)
      \/ \E s \in Sources : Advance(s)
      \/ \E w \in Workers, v \in OwnerVerdicts : pc[w] \in Busy /\ EndRun(w, v) /\ Owns(w)
      \/ \E w \in Workers, r \in Runs : Recover(w, r) /\ InProgress(r) /\ r \notin moved[w]
      \/ UNCHANGED <<status, owner, offered, stored>>
  <2> HIDE DEF Typed, TypeOK, Inv
  <2>1. ASSUME NEW w \in Workers, Work(w)
        PROVE  \/ ClaimUpdate(w) /\ Pending(job[w])
               \/ Store(w) /\ Owns(w)
               \/ \E v \in OwnerVerdicts : pc[w] \in Busy /\ EndRun(w, v) /\ Owns(w)
               \/ UNCHANGED <<status, owner, offered, stored>>
    <3>1. CASE ClaimSelect(w) \/ Lookup(w) \/ Receive(w) \/ SaveRaw(w)
      BY <3>1 DEF ClaimSelect, Lookup, Receive, SaveRaw, rowVars, dataVars
    <3>2. CASE ClaimUpdate(w)
      BY <3>2 DEF ClaimUpdate, rowVars, dataVars
    <3>3. CASE Store(w)
      BY <3>3 DEF Store, rowVars, dataVars
    <3>4. CASE Finalize(w) \/ FailRun(w)
      BY <3>4 DEF Finalize, FailRun, EndRun, OwnerVerdicts, Verdicts, Busy, dataVars
    <3>5. QED
      BY <2>1, <3>1, <3>2, <3>3, <3>4 DEF Work
  <2>2. ASSUME NEW w \in Workers, FailGeneral(w)
        PROVE  \/ \E v \in OwnerVerdicts : pc[w] \in Busy /\ EndRun(w, v) /\ Owns(w)
               \/ UNCHANGED <<status, owner, offered, stored>>
    BY <2>2 DEF FailGeneral, EndRun, OwnerVerdicts, Verdicts, Busy, dataVars
  <2>3. ASSUME NEW w \in Workers,
               Start(w) \/ Abandon(w) \/ Heartbeat(w) \/ Scan(w) \/ RecoverError(w) \/ Crash(w)
        PROVE  UNCHANGED <<status, owner, offered, stored>>
    BY <2>3 DEF Start, Abandon, Heartbeat, Scan, RecoverError, Crash, rowVars, dataVars
  <2>4. ASSUME NEW w \in Workers, NEW r \in Runs, Recover(w, r)
        PROVE  \/ InProgress(r) /\ r \notin moved[w]
               \/ UNCHANGED <<status, owner, offered, stored>>
    BY <2>4 DEF Recover, dataVars
  <2>5. CASE Tick \/ \E s \in Sources : SetActive(s)
    BY <2>5 DEF Tick, SetActive, Flip, rowVars, dataVars
  <2>6. CASE UNCHANGED vars
    BY <2>6 DEF vars, rowVars, dataVars
  <2>7. QED
    BY <2>1, <2>2, <2>3, <2>4, <2>5, <2>6 DEF Next
<1>10. QED
  BY <1>1, <1>2, <1>4, <1>5, <1>6, <1>7, <1>8, <1>9

\* The rows, leases and fences implement one exclusive slot per source.
THEOREM RunsImplementSlot == Spec => ImplementsSlot
<1>1. Init => Slot!Init
  BY ConstantsAssumption
     DEF Init, Slot!Init, slotPhase, slotHolder, SourceFree, InProgress
<1>2. Spec => []SlotView
  BY SlotViewed, TypedInductive, Invariance, PTL DEF Inv
<1>3. Typed /\ Inv /\ SlotView /\ SlotView' /\ [Next]_vars => [Slot!Next]_(Slot!slotVars)
  BY SlotStep
<1>4. QED
  BY <1>1, <1>2, <1>3, TypedInductive, Invariance, PTL DEF Spec, ImplementsSlot, Slot!Spec

-----------------------------------------------------------------------------
(* The daily schedule, of the same connections                             *)

USE DEF dailyVars, sourceVars, callVars, history

\* Nothing is dated after the present.
NoFuture ==
  /\ \A s \in Sources : latest[s] <= day
  /\ \A p \in Processes : due[p] <= day

\* A run the schedule made for an occurrence started no earlier than it.
MadeMeansStarted == \A s \in Sources, d \in Days : made[s][d] > 0 => latest[s] >= d

\* The source in hand has no run the schedule made for the occurrence at hand:
\* nothing but the only process up makes one between Count and Insert.
PickIsFree ==
  \A p \in Processes : loop[p] = "insert" =>
    pick[p] \in Sources /\ made[pick[p]][due[p]] = 0

OneProcess == \A p, q \in Processes : Up(p) /\ Up(q) => p = q

\* The inductive invariant for NeverRepeats.
ScheduleInv == DailyTypeOK /\ NoFuture /\ MadeMeansStarted /\ PickIsFree /\ OneProcess /\ NeverRepeats

\* The wake-up was planned before the call's reading of the clock.
PlannedBefore ==
  \A p \in Processes :
    /\ loop[p] = "call" => wake[p] <= day + 1
    /\ loop[p] \in {"list", "count", "insert", "asleep"} => wake[p] <= due[p] + 1

\* Dealing with a source keeps the types of what it writes.
LEMMA HandledTyped ==
  ASSUME DailyTypeOK, NEW p \in Processes, NEW s \in Sources, Handled(p, s)
  PROVE  /\ todo' \in [Processes -> SUBSET Sources]
         /\ pick' \in [Processes -> Sources \cup {NoSource}]
         /\ passed' \in [Sources -> Days]
         /\ loop' \in [Processes -> LoopStates]
<1>1. todo' \in [Processes -> SUBSET Sources]
  BY DEF DailyTypeOK, Handled
<1>2. pick' \in [Processes -> Sources \cup {NoSource}]
  BY DEF DailyTypeOK, Handled
<1>3. passed' \in [Sources -> Days]
  BY DEF DailyTypeOK, Handled
<1>4. loop' \in [Processes -> LoopStates]
  BY DEF DailyTypeOK, Handled, LoopStates
<1>5. QED
  BY <1>1, <1>2, <1>3, <1>4

\* The entries of the tables a step looks at have their types.
LEMMA EntriesTyped ==
  ASSUME DailyTypeOK, NEW p \in Processes, NEW s \in Sources
  PROVE  /\ day \in Days /\ due[p] \in Days /\ latest[s] \in Days /\ Days \subseteq Nat
         /\ made[s] \in [Days -> Nat] /\ made[s][due[p]] \in Nat
<1>1. day \in Days /\ due[p] \in Days /\ latest[s] \in Days /\ made[s] \in [Days -> Nat]
  BY DEF DailyTypeOK
<1>2. Days \subseteq Nat
  BY DEF Days
<1>3. QED
  BY <1>1, <1>2

\* What Insert writes when it creates a run.
LEMMA InsertMakes ==
  ASSUME DailyTypeOK, NEW p \in Processes, NEW s \in Sources, Insert(p, s), ~open[s]
  PROVE  /\ latest' \in [Sources -> Days]
         /\ made' \in [Sources -> [Days -> Nat]]
         /\ \A x \in Sources : latest'[x] = IF x = s /\ due[p] > latest[s] THEN due[p] ELSE latest[x]
         /\ \A x \in Sources, d \in Days :
              made'[x][d] = IF x = s /\ d = due[p] THEN made[x][d] + 1 ELSE made[x][d]
         /\ UNCHANGED <<day, active, wake, due>>
<1>1. due[p] \in Days /\ made[s] \in [Days -> Nat] /\ made[s][due[p]] \in Nat
  BY EntriesTyped
<1>2. /\ latest' = [latest EXCEPT ![s] = IF due[p] > @ THEN due[p] ELSE @]
      /\ made' = [made EXCEPT ![s] = [made[s] EXCEPT ![due[p]] = made[s][due[p]] + 1]]
      /\ UNCHANGED <<day, active, wake, due>>
  BY DEF Insert
<1>3. latest \in [Sources -> Days] /\ made \in [Sources -> [Days -> Nat]]
  BY DEF DailyTypeOK
<1>4. [made[s] EXCEPT ![due[p]] = made[s][due[p]] + 1] \in [Days -> Nat]
  BY <1>1
<1>5. made' \in [Sources -> [Days -> Nat]]
  BY <1>2, <1>3, <1>4
<1>6. latest' \in [Sources -> Days]
  BY <1>1, <1>2, <1>3
<1>7. \A x \in Sources : latest'[x] = IF x = s /\ due[p] > latest[s] THEN due[p] ELSE latest[x]
  BY <1>2, <1>3
<1>8. \A x \in Sources, d \in Days :
        made'[x][d] = IF x = s /\ d = due[p] THEN made[x][d] + 1 ELSE made[x][d]
  BY <1>1, <1>2, <1>3
<1>9. QED
  BY <1>2, <1>5, <1>6, <1>7, <1>8

\* A process that lets go of its call keeps the types of what it writes.
LEMMA LetGoTyped ==
  ASSUME DailyTypeOK, NEW p \in Processes, Fail(p) \/ Stop(p)
  PROVE  DailyTypeOK'
<1>1. 0 \in Days /\ 0 \in 0 .. MaxDay + 1
  BY ScheduleAssumption DEF Days
<1>2. loop' \in [Processes -> LoopStates]
  BY DEF DailyTypeOK, Fail, Stop, LoopStates
<1>3. wake' \in [Processes -> 0 .. MaxDay + 1]
  BY <1>1 DEF DailyTypeOK, Fail, Stop
<1>4. due' \in [Processes -> Days]
  BY <1>1 DEF DailyTypeOK, Fail, Stop
<1>5. todo' \in [Processes -> SUBSET Sources]
  BY DEF DailyTypeOK, Fail, Stop
<1>6. pick' \in [Processes -> Sources \cup {NoSource}]
  BY DEF DailyTypeOK, Fail, Stop
<1>7. UNCHANGED <<day, sourceVars, history>>
  BY DEF Fail, Stop
<1>8. QED
  BY <1>2, <1>3, <1>4, <1>5, <1>6, <1>7 DEF DailyTypeOK

\* Every variable keeps its type.
THEOREM ScheduleTyped == DailySpec => []DailyTypeOK
<1> USE ScheduleAssumption DEF DailyTypeOK, LoopStates, Days
<1>1. DailyInit => DailyTypeOK
  BY DEF DailyInit
<1>2. DailyTypeOK /\ [DailyNext]_dailyVars => DailyTypeOK'
  <2> SUFFICES ASSUME DailyTypeOK, [DailyNext]_dailyVars PROVE DailyTypeOK'
    OBVIOUS
  <2>1. ASSUME Occur PROVE DailyTypeOK'
    BY <2>1 DEF Occur
  <2>2. ASSUME NEW s \in Sources, Toggle(s) PROVE DailyTypeOK'
    BY <2>2 DEF Toggle, Flip
  <2>3. ASSUME NEW s \in Sources, Request(s) PROVE DailyTypeOK'
    BY <2>3 DEF Request
  <2>4. ASSUME NEW s \in Sources, RunEnds(s) PROVE DailyTypeOK'
    BY <2>4 DEF RunEnds
  <2>5. ASSUME NEW p \in Processes, StartLoop(p) PROVE DailyTypeOK'
    BY <2>5 DEF StartLoop
  <2>6. ASSUME NEW p \in Processes, Plan(p) PROVE DailyTypeOK'
    BY <2>6 DEF Plan
  <2>7. ASSUME NEW p \in Processes, Call(p) PROVE DailyTypeOK'
    BY <2>7 DEF Call
  <2>8. ASSUME NEW p \in Processes, List(p) PROVE DailyTypeOK'
    BY <2>8 DEF List
  <2>9. ASSUME NEW p \in Processes, NEW s \in Sources, Count(p, s) PROVE DailyTypeOK'
    <3>1. CASE Handled(p, s) /\ UNCHANGED <<day, sourceVars, wake, due, made>>
      BY <3>1, HandledTyped
    <3>2. CASE /\ pick' = [pick EXCEPT ![p] = s]
               /\ loop' = [loop EXCEPT ![p] = "insert"]
               /\ UNCHANGED <<day, sourceVars, wake, due, todo, history>>
      BY <3>2
    <3>3. QED
      BY <2>9, <3>1, <3>2 DEF Count
  <2>10. ASSUME NEW p \in Processes, NEW s \in Sources, Insert(p, s) PROVE DailyTypeOK'
    <3>1. Handled(p, s)
      BY <2>10 DEF Insert
    <3>2. CASE open[s]
      BY <2>10, <3>1, <3>2, HandledTyped DEF Insert
    <3>3. CASE ~open[s]
      <4>1. open' \in [Sources -> BOOLEAN]
        BY <2>10, <3>3 DEF Insert
      <4>2. /\ todo' \in [Processes -> SUBSET Sources]
            /\ pick' \in [Processes -> Sources \cup {NoSource}]
            /\ passed' \in [Sources -> Days]
            /\ loop' \in [Processes -> LoopStates]
        BY <3>1, HandledTyped
      <4>3. /\ latest' \in [Sources -> Days]
            /\ made' \in [Sources -> [Days -> Nat]]
            /\ UNCHANGED <<day, active, wake, due>>
        BY <2>10, <3>3, InsertMakes
      <4>4. QED
        BY <4>1, <4>2, <4>3
    <3>4. QED
      BY <3>2, <3>3
  <2>11. ASSUME NEW p \in Processes, Done(p) PROVE DailyTypeOK'
    BY <2>11 DEF Done
  <2>12. ASSUME NEW p \in Processes, Fail(p) PROVE DailyTypeOK'
    BY <2>12, LetGoTyped
  <2>13. ASSUME NEW p \in Processes, Wake(p) PROVE DailyTypeOK'
    BY <2>13 DEF Wake
  <2>14. ASSUME NEW p \in Processes, Stop(p) PROVE DailyTypeOK'
    BY <2>14, LetGoTyped
  <2>15. CASE UNCHANGED dailyVars
    BY <2>15
  <2>16. QED
    BY <2>1, <2>2, <2>3, <2>4, <2>5, <2>6, <2>7, <2>8, <2>9, <2>10, <2>11, <2>12, <2>13, <2>14, <2>15 DEF DailyNext, Loop
<1>3. QED
  BY <1>1, <1>2, PTL DEF DailySpec

\* A step keeps the invariant.
LEMMA ScheduleInductive == ScheduleInv /\ DailyTypeOK' /\ [DailyNext]_dailyVars => ScheduleInv'
<1> SUFFICES ASSUME ScheduleInv, DailyTypeOK', [DailyNext]_dailyVars PROVE ScheduleInv'
  OBVIOUS
<1>1. ASSUME Occur PROVE ScheduleInv'
  BY <1>1 DEF Occur, ScheduleInv, NoFuture, MadeMeansStarted, PickIsFree, OneProcess, NeverRepeats, Up, DailyTypeOK,
     Days
<1>2. ASSUME NEW s \in Sources, Toggle(s) PROVE ScheduleInv'
  BY <1>2 DEF Toggle, Flip, ScheduleInv, NoFuture, MadeMeansStarted, PickIsFree, OneProcess, NeverRepeats, Up, DailyTypeOK,
     Days
<1>3. ASSUME NEW s \in Sources, Request(s) PROVE ScheduleInv'
  <2>1. NoFuture'
    BY <1>3 DEF Request, ScheduleInv, NoFuture, DailyTypeOK, Days
  <2>2. MadeMeansStarted'
    BY <1>3 DEF Request, ScheduleInv, MadeMeansStarted, NoFuture, DailyTypeOK, Days
  <2>3. PickIsFree'
    BY <1>3 DEF Request, ScheduleInv, PickIsFree, OneProcess, Up, MadeMeansStarted, DailyTypeOK, Days
  <2>4. OneProcess'
    BY <1>3 DEF Request, ScheduleInv, OneProcess, Up, DailyTypeOK
  <2>5. NeverRepeats'
    BY <1>3 DEF Request, ScheduleInv, NeverRepeats
  <2>6. QED
    BY <2>1, <2>2, <2>3, <2>4, <2>5 DEF ScheduleInv
<1>4. ASSUME NEW s \in Sources, RunEnds(s) PROVE ScheduleInv'
  BY <1>4 DEF RunEnds, ScheduleInv, NoFuture, MadeMeansStarted, PickIsFree, OneProcess, NeverRepeats, Up, DailyTypeOK,
     Days
<1>5. ASSUME NEW p \in Processes, StartLoop(p) PROVE ScheduleInv'
  BY <1>5 DEF StartLoop, ScheduleInv, NoFuture, MadeMeansStarted, PickIsFree, OneProcess, NeverRepeats, Up, DailyTypeOK,
     Days
<1>6. ASSUME NEW p \in Processes, Plan(p) PROVE ScheduleInv'
  BY <1>6 DEF Plan, ScheduleInv, NoFuture, MadeMeansStarted, PickIsFree, OneProcess, NeverRepeats, Up, DailyTypeOK,
     Days
<1>7. ASSUME NEW p \in Processes, Call(p) PROVE ScheduleInv'
  <2>1. NoFuture'
    BY <1>7 DEF Call, ScheduleInv, NoFuture, DailyTypeOK, Days
  <2>2. MadeMeansStarted'
    BY <1>7 DEF Call, ScheduleInv, MadeMeansStarted, NoFuture, DailyTypeOK, Days
  <2>3. PickIsFree'
    BY <1>7 DEF Call, ScheduleInv, PickIsFree, OneProcess, Up, MadeMeansStarted, DailyTypeOK, Days
  <2>4. OneProcess'
    BY <1>7 DEF Call, ScheduleInv, OneProcess, Up, DailyTypeOK
  <2>5. NeverRepeats'
    BY <1>7 DEF Call, ScheduleInv, NeverRepeats
  <2>6. QED
    BY <2>1, <2>2, <2>3, <2>4, <2>5 DEF ScheduleInv
<1>8. ASSUME NEW p \in Processes, List(p) PROVE ScheduleInv'
  <2>1. NoFuture'
    BY <1>8 DEF List, ScheduleInv, NoFuture, DailyTypeOK, Days
  <2>2. MadeMeansStarted'
    BY <1>8 DEF List, ScheduleInv, MadeMeansStarted, NoFuture, DailyTypeOK, Days
  <2>3. PickIsFree'
    BY <1>8 DEF List, ScheduleInv, PickIsFree, OneProcess, Up, MadeMeansStarted, DailyTypeOK, Days
  <2>4. OneProcess'
    BY <1>8 DEF List, ScheduleInv, OneProcess, Up, DailyTypeOK
  <2>5. NeverRepeats'
    BY <1>8 DEF List, ScheduleInv, NeverRepeats
  <2>6. QED
    BY <2>1, <2>2, <2>3, <2>4, <2>5 DEF ScheduleInv
<1>9. ASSUME NEW p \in Processes, NEW s \in Sources, Count(p, s) PROVE ScheduleInv'
  <2>1. NoFuture'
    <3>1. UNCHANGED <<day, latest, due>>
      BY <1>9 DEF Count
    <3>2. QED
      BY <3>1 DEF ScheduleInv, NoFuture
  <2>2. MadeMeansStarted'
    <3>1. UNCHANGED <<latest, made>>
      BY <1>9 DEF Count
    <3>2. QED
      BY <3>1 DEF ScheduleInv, MadeMeansStarted
  <2>3. PickIsFree'
    <3>1. loop[p] = "count" /\ made' = made /\ due' = due
      BY <1>9 DEF Count, Handled
    <3>2. ASSUME NEW q \in Processes, loop'[q] = "insert" PROVE q = p
      BY <1>9, <3>1, <3>2 DEF Count, Handled, ScheduleInv, OneProcess, Up, DailyTypeOK
    <3>3. CASE loop'[p] = "insert"
      <4>1. latest[s] < due[p] /\ pick' = [pick EXCEPT ![p] = s]
        BY <1>9, <3>3 DEF Count, Handled, ScheduleInv, DailyTypeOK
      <4>2. made[s][due[p]] = 0
        BY <4>1, EntriesTyped DEF ScheduleInv, MadeMeansStarted
      <4>3. pick'[p] = s
        BY <4>1 DEF ScheduleInv, DailyTypeOK
      <4>4. QED
        BY <3>1, <3>2, <4>2, <4>3 DEF PickIsFree
    <3>4. QED
      BY <3>2, <3>3 DEF PickIsFree
  <2>4. OneProcess'
    BY <1>9 DEF Count, Handled, ScheduleInv, OneProcess, Up, DailyTypeOK
  <2>5. NeverRepeats'
    BY <1>9 DEF Count, Handled, ScheduleInv, NeverRepeats
  <2>6. QED
    BY <2>1, <2>2, <2>3, <2>4, <2>5 DEF ScheduleInv
<1>10. ASSUME NEW p \in Processes, NEW s \in Sources, Insert(p, s) PROVE ScheduleInv'
  <2> USE DEF ScheduleInv
  <2>1. /\ loop[p] = "insert" /\ pick[p] = s /\ loop' = [loop EXCEPT ![p] = "count"]
        /\ pick' = [pick EXCEPT ![p] = NoSource] /\ due' = due /\ day' = day
    BY <1>10 DEF Insert, Handled
  <2>2. OneProcess'
    BY <2>1 DEF OneProcess, Up, DailyTypeOK
  <2>3. \A q \in Processes : loop'[q] # "insert"
    BY <2>1 DEF OneProcess, Up, DailyTypeOK
  <2>4. PickIsFree'
    BY <2>3 DEF PickIsFree
  <2>5. CASE open[s]
    <3>1. UNCHANGED <<latest, made>>
      BY <1>10, <2>5 DEF Insert
    <3>2. QED
      BY <2>1, <2>2, <2>4, <3>1 DEF ScheduleInv, NoFuture, MadeMeansStarted, NeverRepeats
  <2>6. CASE ~open[s]
    <3>1. made[s][due[p]] = 0
      BY <2>1 DEF PickIsFree
    <3>2. \A x \in Sources : latest'[x] = IF x = s /\ due[p] > latest[s] THEN due[p] ELSE latest[x]
      BY <1>10, <2>6, InsertMakes
    <3>3. \A x \in Sources, d \in Days :
            made'[x][d] = IF x = s /\ d = due[p] THEN made[x][d] + 1 ELSE made[x][d]
      BY <1>10, <2>6, InsertMakes
    <3>4. NoFuture'
      BY <2>1, <3>2 DEF NoFuture
    <3>5. latest[s] \in Nat /\ due[p] \in Nat
      BY EntriesTyped
    <3>6. \A x \in Sources : latest[x] \in Nat /\ latest'[x] \in Nat /\ latest'[x] >= latest[x]
      BY <3>2, <3>5, EntriesTyped
    <3>7. latest'[s] >= due[p]
      BY <3>2, <3>5
    <3>8. MadeMeansStarted'
      <4>1. SUFFICES ASSUME NEW x \in Sources, NEW d \in Days, made'[x][d] > 0 PROVE latest'[x] >= d
        BY DEF MadeMeansStarted
      <4>2. CASE x = s /\ d = due[p]
        BY <3>7, <4>2
      <4>3. CASE ~(x = s /\ d = due[p])
        <5>1. latest[x] >= d
          BY <3>3, <4>1, <4>3 DEF MadeMeansStarted
        <5>2. QED
          BY <3>6, <5>1 DEF Days
      <4>4. QED
        BY <4>2, <4>3
    <3>9. NeverRepeats'
      BY <3>1, <3>3 DEF NeverRepeats
    <3>10. QED
      BY <2>2, <2>4, <3>4, <3>8, <3>9 DEF ScheduleInv
  <2>7. QED
    BY <2>5, <2>6
<1>11. ASSUME NEW p \in Processes, Done(p) PROVE ScheduleInv'
  BY <1>11 DEF Done, ScheduleInv, NoFuture, MadeMeansStarted, PickIsFree, OneProcess, NeverRepeats, Up, DailyTypeOK,
     Days
<1>12. ASSUME NEW p \in Processes, Fail(p) PROVE ScheduleInv'
  <2>1. NoFuture'
    BY <1>12 DEF Fail, ScheduleInv, NoFuture, DailyTypeOK, Days
  <2>2. MadeMeansStarted'
    BY <1>12 DEF Fail, ScheduleInv, MadeMeansStarted, NoFuture, DailyTypeOK, Days
  <2>3. PickIsFree'
    BY <1>12 DEF Fail, ScheduleInv, PickIsFree, OneProcess, Up, MadeMeansStarted, DailyTypeOK, Days
  <2>4. OneProcess'
    BY <1>12 DEF Fail, ScheduleInv, OneProcess, Up, DailyTypeOK
  <2>5. NeverRepeats'
    BY <1>12 DEF Fail, ScheduleInv, NeverRepeats
  <2>6. QED
    BY <2>1, <2>2, <2>3, <2>4, <2>5 DEF ScheduleInv
<1>13. ASSUME NEW p \in Processes, Wake(p) PROVE ScheduleInv'
  <2>1. NoFuture'
    BY <1>13 DEF Wake, ScheduleInv, NoFuture, DailyTypeOK, Days
  <2>2. MadeMeansStarted'
    BY <1>13 DEF Wake, ScheduleInv, MadeMeansStarted, NoFuture, DailyTypeOK, Days
  <2>3. PickIsFree'
    BY <1>13 DEF Wake, ScheduleInv, PickIsFree, OneProcess, Up, MadeMeansStarted, DailyTypeOK, Days
  <2>4. OneProcess'
    BY <1>13 DEF Wake, ScheduleInv, OneProcess, Up, DailyTypeOK
  <2>5. NeverRepeats'
    BY <1>13 DEF Wake, ScheduleInv, NeverRepeats
  <2>6. QED
    BY <2>1, <2>2, <2>3, <2>4, <2>5 DEF ScheduleInv
<1>14. ASSUME NEW p \in Processes, Stop(p) PROVE ScheduleInv'
  <2>1. NoFuture'
    BY <1>14 DEF Stop, ScheduleInv, NoFuture, DailyTypeOK, Days
  <2>2. MadeMeansStarted'
    BY <1>14 DEF Stop, ScheduleInv, MadeMeansStarted, NoFuture, DailyTypeOK, Days
  <2>3. PickIsFree'
    BY <1>14 DEF Stop, ScheduleInv, PickIsFree, OneProcess, Up, MadeMeansStarted, DailyTypeOK, Days
  <2>4. OneProcess'
    BY <1>14 DEF Stop, ScheduleInv, OneProcess, Up, DailyTypeOK
  <2>5. NeverRepeats'
    BY <1>14 DEF Stop, ScheduleInv, NeverRepeats
  <2>6. QED
    BY <2>1, <2>2, <2>3, <2>4, <2>5 DEF ScheduleInv
<1>15. CASE UNCHANGED dailyVars
  BY <1>15 DEF ScheduleInv, NoFuture, MadeMeansStarted, PickIsFree, OneProcess, NeverRepeats, Up
<1>16. QED
  BY <1>1, <1>2, <1>3, <1>4, <1>5, <1>6, <1>7, <1>8, <1>9, <1>10, <1>11, <1>12, <1>13, <1>14, <1>15 DEF DailyNext, Loop

\* The schedule creates at most one run per source and occurrence, whatever
\* restarts, database errors, manual requests and deactivations fall between
\* its statements.
THEOREM ScheduleNeverRepeats == DailySpec => []NeverRepeats
<1>1. DailyInit => ScheduleInv
  BY ScheduleAssumption DEF DailyInit, ScheduleInv, DailyTypeOK, NoFuture, MadeMeansStarted, PickIsFree, OneProcess, NeverRepeats, Up,
     LoopStates, Days
<1>2. ScheduleInv => NeverRepeats
  BY DEF ScheduleInv
<1>3. QED
  BY <1>1, <1>2, ScheduleTyped, ScheduleInductive, PTL DEF DailySpec

\* A sleeping loop never sleeps past an occurrence it has not handled.
THEOREM NothingOverslept == DailySpec => []NoOccurrenceOverslept
<1> USE ScheduleAssumption DEF PlannedBefore, DailyTypeOK, Days
<1>1. DailyInit => PlannedBefore
  BY DEF DailyInit
<1>2. DailyTypeOK /\ PlannedBefore /\ [DailyNext]_dailyVars => PlannedBefore'
  <2> SUFFICES ASSUME DailyTypeOK, PlannedBefore, [DailyNext]_dailyVars PROVE PlannedBefore'
    OBVIOUS
  <2>1. ASSUME Occur PROVE PlannedBefore'
    BY <2>1 DEF Occur
  <2>2. ASSUME NEW s \in Sources, Toggle(s) PROVE PlannedBefore'
    BY <2>2 DEF Toggle, Flip
  <2>3. ASSUME NEW s \in Sources, Request(s) PROVE PlannedBefore'
    BY <2>3 DEF Request
  <2>4. ASSUME NEW s \in Sources, RunEnds(s) PROVE PlannedBefore'
    BY <2>4 DEF RunEnds
  <2>5. ASSUME NEW p \in Processes, StartLoop(p) PROVE PlannedBefore'
    BY <2>5 DEF StartLoop
  <2>6. ASSUME NEW p \in Processes, Plan(p) PROVE PlannedBefore'
    BY <2>6 DEF Plan
  <2>7. ASSUME NEW p \in Processes, Call(p) PROVE PlannedBefore'
    BY <2>7 DEF Call
  <2>8. ASSUME NEW p \in Processes, List(p) PROVE PlannedBefore'
    BY <2>8 DEF List
  <2>9. ASSUME NEW p \in Processes, NEW s \in Sources, Count(p, s) PROVE PlannedBefore'
    BY <2>9 DEF Count, Handled
  <2>10. ASSUME NEW p \in Processes, NEW s \in Sources, Insert(p, s) PROVE PlannedBefore'
    BY <2>10 DEF Insert, Handled
  <2>11. ASSUME NEW p \in Processes, Done(p) PROVE PlannedBefore'
    BY <2>11 DEF Done
  <2>12. ASSUME NEW p \in Processes, Fail(p) PROVE PlannedBefore'
    BY <2>12 DEF Fail
  <2>13. ASSUME NEW p \in Processes, Wake(p) PROVE PlannedBefore'
    BY <2>13 DEF Wake
  <2>14. ASSUME NEW p \in Processes, Stop(p) PROVE PlannedBefore'
    BY <2>14 DEF Stop
  <2>15. CASE UNCHANGED dailyVars
    BY <2>15
  <2>16. QED
    BY <2>1, <2>2, <2>3, <2>4, <2>5, <2>6, <2>7, <2>8, <2>9, <2>10, <2>11, <2>12, <2>13, <2>14, <2>15 DEF DailyNext, Loop
<1>3. PlannedBefore => NoOccurrenceOverslept
  BY DEF NoOccurrenceOverslept
<1>4. QED
  BY <1>1, <1>2, <1>3, ScheduleTyped, PTL DEF DailySpec
=============================================================================
