------------------------------ MODULE SyncRuns ------------------------------
(***************************************************************************)
(* The life of a synchronization run: sync_runs rows enqueued by the API   *)
(* and the schedule, claimed by worker processes, kept alive by            *)
(* heartbeats, failed by lease recovery, and fenced so that only the owner *)
(* of a run still in progress writes data or ends it.                      *)
(* (internal/worker, internal/syncsvc/{enqueue,recovery,rawimports,        *)
(* service}.go, internal/datasources/store.go)                             *)
(*                                                                         *)
(* One action is one database statement or one database transaction, the   *)
(* units both SQLite and Postgres serialize; everything between two of     *)
(* them interleaves.  A worker stands for one process: its run loop, the   *)
(* heartbeat of the run it executes, and its recovery loop.  A restarted   *)
(* process has a new identity (WorkerID is random), so a worker that       *)
(* crashed stays dead and a restart is another worker starting.            *)
(*                                                                         *)
(* Time is the age of the last heartbeat, which stops mattering once it    *)
(* exceeds the lease.  The data of a source is one version number: what a  *)
(* page answered and what the tables hold.                                 *)
(***************************************************************************)
EXTENDS Naturals, Connections

CONSTANTS
  Runs,       \* run ids; their order is the claim order (started_at, id)
  SourceOf,   \* SourceOf[r]: the source a run is created for
  Workers,    \* worker identities
  Steady,     \* workers that never crash (liveness needs one)
  NoWorker,   \* worker_id IS NULL
  NoRun,      \* a worker holding no run
  NoPage,     \* a worker holding no provider response
  Lease,      \* the lease timeout, in ticks
  Pages,      \* provider responses one execution reads
  MaxVersion  \* bound on the provider's data versions

ASSUME ConstantsAssumption ==
  /\ Runs \subseteq Nat
  /\ SourceOf \in [Runs -> Sources]
  /\ Steady \subseteq Workers
  /\ NoWorker \notin Workers
  /\ NoRun \notin Runs
  /\ NoPage \notin Nat
  /\ Lease \in Nat
  /\ Pages \in Nat
  /\ MaxVersion \in Nat

VARIABLES
  status,   \* status[r]: "none" before the row exists
  owner,    \* owner[r]: sync_runs.worker_id
  age,      \* age[r]: ticks since COALESCE(heartbeat_at, started_at), saturated
  pc,       \* pc[w]: where the run loop of w is
  job,      \* job[w]: the run w selected or executes
  left,     \* left[w]: provider responses still to read
  page,     \* page[w]: the version the response in hand carries
  scan,     \* scan[w]: candidates the recovery loop of w read and not yet tried
  moved,    \* moved[w]: those of them whose heartbeat changed since the read
  offered,  \* offered[s]: version of the data the provider has for s
  stored    \* stored[s]: version of the data in the tables of s

rowVars == <<status, owner, age>>
loopVars == <<pc, job, left, page>>
scanVars == <<scan, moved>>
dataVars == <<offered, stored>>
vars == <<rowVars, active, loopVars, scanVars, dataVars>>

-----------------------------------------------------------------------------
(* A run recovery gave up on is 'failed' with general_error_code           *)
(* 'interrupted'; it is told apart here from a failure its owner recorded. *)
Verdicts == {"completed", "completed_with_failures", "failed", "interrupted"}
OwnerVerdicts == Verdicts \ {"interrupted"}
Statuses == {"none", "in_progress"} \cup Verdicts

Expired == Lease + 1
Ages == 0 .. Expired

\* ProcessClaim is executing, and with it the heartbeat goroutine.
Busy == {"claimed", "refused", "fetching", "received", "storing"}
Alive == {"idle", "picked"} \cup Busy
ProgramCounters == {"off", "dead"} \cup Alive

TypeOK ==
  /\ status \in [Runs -> Statuses]
  /\ owner \in [Runs -> Workers \cup {NoWorker}]
  /\ age \in [Runs -> Ages]
  /\ active \in [Sources -> BOOLEAN]
  /\ pc \in [Workers -> ProgramCounters]
  /\ job \in [Workers -> Runs \cup {NoRun}]
  /\ left \in [Workers -> 0 .. Pages]
  /\ page \in [Workers -> Nat \cup {NoPage}]
  /\ scan \in [Workers -> SUBSET Runs]
  /\ moved \in [Workers -> SUBSET Runs]
  /\ offered \in [Sources -> Nat]
  /\ stored \in [Sources -> Nat]

Init ==
  /\ status = [r \in Runs |-> "none"]
  /\ owner = [r \in Runs |-> NoWorker]
  /\ age = [r \in Runs |-> 0]
  /\ active = [s \in Sources |-> TRUE]
  /\ pc = [w \in Workers |-> "off"]
  /\ job = [w \in Workers |-> NoRun]
  /\ left = [w \in Workers |-> 0]
  /\ page = [w \in Workers |-> NoPage]
  /\ scan = [w \in Workers |-> {}]
  /\ moved = [w \in Workers |-> {}]
  /\ offered = [s \in Sources |-> 0]
  /\ stored = [s \in Sources |-> 0]

-----------------------------------------------------------------------------
InProgress(r) == status[r] = "in_progress"
Pending(r) == InProgress(r) /\ owner[r] = NoWorker
Claimed(r) == InProgress(r) /\ owner[r] # NoWorker

\* The unique partial index uq_sync_runs_active_source.
SourceFree(s) == \A r \in Runs : SourceOf[r] = s => ~InProgress(r)

\* WHERE id = job AND status = 'in_progress' AND worker_id = w: the fence.
Owns(w) == InProgress(job[w]) /\ owner[job[w]] = w

\* The statement writes heartbeat_at, so a candidate read before it no longer
\* matches recoverRun's COALESCE(heartbeat_at, started_at) = seenAt.
Beat(r) ==
  /\ age' = [age EXCEPT ![r] = 0]
  /\ moved' = [v \in Workers |-> IF r \in scan[v] THEN moved[v] \cup {r} ELSE moved[v]]

\* ProcessClaim returns and the run loop goes on to its next iteration.
Leave(w) ==
  /\ pc' = [pc EXCEPT ![w] = "idle"]
  /\ job' = [job EXCEPT ![w] = NoRun]
  /\ left' = [left EXCEPT ![w] = 0]
  /\ page' = [page EXCEPT ![w] = NoPage]

-----------------------------------------------------------------------------
(* Environment *)

\* The runs of a source are numbered as they are created.
NextRun(r) ==
  /\ status[r] = "none"
  /\ \A q \in Runs : SourceOf[q] = SourceOf[r] /\ q < r => status[q] # "none"

\* Defect: no unique index on the active run of a source.
EnqueueUnchecked(r) ==
  /\ NextRun(r)
  /\ status' = [status EXCEPT ![r] = "in_progress"]
  /\ UNCHANGED <<owner, age, active, loopVars, scanVars, dataVars>>

\* syncsvc.Enqueue: insert the run unless the source is mid-sync.  Its callers
\* read is_active before, so the insert may come after a deactivation.
Enqueue(r) ==
  /\ NextRun(r)
  /\ SourceFree(SourceOf[r])
  /\ status' = [status EXCEPT ![r] = "in_progress"]
  /\ UNCHANGED <<owner, age, active, loopVars, scanVars, dataVars>>

\* datasources.Update with is_active.
SetActive(s) ==
  /\ Flip(s)
  /\ UNCHANGED <<rowVars, loopVars, scanVars, dataVars>>

\* The bank has newer data (external).
Advance(s) ==
  /\ offered[s] < MaxVersion
  /\ offered' = [offered EXCEPT ![s] = @ + 1]
  /\ UNCHANGED <<rowVars, active, loopVars, scanVars, stored>>

\* One tick since the last heartbeat of every claimed run.
Tick ==
  /\ \E r \in Runs : Claimed(r) /\ age[r] < Expired
  /\ age' = [r \in Runs |-> IF Claimed(r) /\ age[r] < Expired THEN age[r] + 1 ELSE age[r]]
  /\ UNCHANGED <<status, owner, active, loopVars, scanVars, dataVars>>

-----------------------------------------------------------------------------
(* The run loop *)

Start(w) ==
  /\ pc[w] = "off"
  /\ pc' = [pc EXCEPT ![w] = "idle"]
  /\ UNCHANGED <<rowVars, active, job, left, page, scanVars, dataVars>>

\* The subselect of ClaimNextRun's UPDATE: the oldest unclaimed run.  Another
\* worker may claim it before this one's update reaches the row.  A worker that
\* has no Pluggy credentials yet, or whose claim fails, sleeps and asks again:
\* a step that does nothing.
ClaimSelect(w) ==
  /\ pc[w] = "idle"
  /\ \E r \in Runs :
       /\ Pending(r)
       /\ \A q \in Runs : Pending(q) => r <= q
       /\ job' = [job EXCEPT ![w] = r]
  /\ pc' = [pc EXCEPT ![w] = "picked"]
  /\ UNCHANGED <<rowVars, active, left, page, scanVars, dataVars>>

\* The update re-checks the row it selected; a loser selects again.
ClaimUpdate(w) ==
  /\ pc[w] = "picked"
  /\ \/ /\ Pending(job[w])
        /\ owner' = [owner EXCEPT ![job[w]] = w]
        /\ Beat(job[w])
        /\ pc' = [pc EXCEPT ![w] = "claimed"]
        /\ UNCHANGED <<status, job, left, page, active, scan, dataVars>>
     \/ /\ ~Pending(job[w])
        /\ Leave(w)
        /\ UNCHANGED <<rowVars, active, scanVars, dataVars>>

\* ProcessClaim reads the connection: execute, or refuse an inactive one.
Lookup(w) ==
  /\ pc[w] = "claimed"
  /\ pc' = [pc EXCEPT ![w] = IF active[SourceOf[job[w]]] THEN "fetching" ELSE "refused"]
  /\ left' = [left EXCEPT ![w] = IF active[SourceOf[job[w]]] THEN Pages ELSE 0]
  /\ UNCHANGED <<rowVars, active, job, page, scanVars, dataVars>>

\* A provider response arrives; it carries what the provider has now.
Receive(w) ==
  /\ pc[w] = "fetching"
  /\ left[w] > 0
  /\ left' = [left EXCEPT ![w] = @ - 1]
  /\ page' = [page EXCEPT ![w] = offered[SourceOf[job[w]]]]
  /\ pc' = [pc EXCEPT ![w] = "received"]
  /\ UNCHANGED <<rowVars, active, job, scanVars, dataVars>>

\* RawImportWriter.Write keeps the response before its body is trusted.
SaveRaw(w) ==
  /\ pc[w] = "received"
  /\ \/ /\ Owns(w)
        /\ Beat(job[w])
        /\ pc' = [pc EXCEPT ![w] = "storing"]
        /\ UNCHANGED <<status, owner, active, job, left, page, scan, dataVars>>
     \/ /\ ~Owns(w)
        /\ Leave(w)
        /\ UNCHANGED <<rowVars, active, scanVars, dataVars>>

\* Defect: the upserts run in a transaction that does not check the claim.
StoreUnfenced(w) ==
  /\ pc[w] = "storing"
  /\ stored' = [stored EXCEPT ![SourceOf[job[w]]] = page[w]]
  /\ page' = [page EXCEPT ![w] = NoPage]
  /\ pc' = [pc EXCEPT ![w] = "fetching"]
  /\ UNCHANGED <<rowVars, active, job, left, scanVars, offered>>

\* beginOwnedTx and the upserts it protects, up to the commit.
Store(w) ==
  /\ pc[w] = "storing"
  /\ \/ /\ Owns(w)
        /\ Beat(job[w])
        /\ stored' = [stored EXCEPT ![SourceOf[job[w]]] = page[w]]
        /\ page' = [page EXCEPT ![w] = NoPage]
        /\ pc' = [pc EXCEPT ![w] = "fetching"]
        /\ UNCHANGED <<status, owner, active, job, left, scan, offered>>
     \/ /\ ~Owns(w)
        /\ Leave(w)
        /\ UNCHANGED <<rowVars, active, scanVars, dataVars>>

\* Defect: the terminal update forgets status = 'in_progress'.
EndRunUnfenced(w, verdict) ==
  /\ status' = IF owner[job[w]] = w THEN [status EXCEPT ![job[w]] = verdict] ELSE status
  /\ Leave(w)
  /\ UNCHANGED <<owner, age, active, scanVars, dataVars>>

\* fencedTerminalUpdate: a run already over, or another's, is left alone.
EndRun(w, verdict) ==
  /\ status' = IF Owns(w) THEN [status EXCEPT ![job[w]] = verdict] ELSE status
  /\ Leave(w)
  /\ UNCHANGED <<owner, age, active, scanVars, dataVars>>

\* Service.finalize after the last page; the verdict is SyncIngest's matter.
Finalize(w) ==
  /\ pc[w] = "fetching"
  /\ left[w] = 0
  /\ \E verdict \in OwnerVerdicts : EndRun(w, verdict)

\* Service.failGeneral: the item or its accounts cannot be read.
FailGeneral(w) ==
  /\ pc[w] = "fetching"
  /\ EndRun(w, "failed")

\* syncsvc.FailRun: the connection was deactivated after the run was enqueued.
FailRun(w) ==
  /\ pc[w] = "refused"
  /\ EndRun(w, "failed")

\* A database error makes ProcessClaim return without ending the run.
Abandon(w) ==
  /\ pc[w] \in Busy
  /\ Leave(w)
  /\ UNCHANGED <<rowVars, active, scanVars, dataVars>>

\* The heartbeat goroutine: refresh the owned run, or cancel the execution of
\* one that is not owned any more.
Heartbeat(w) ==
  /\ pc[w] \in Busy
  /\ \/ /\ Owns(w)
        /\ Beat(job[w])
        /\ UNCHANGED <<status, owner, active, loopVars, scan, dataVars>>
     \/ /\ ~Owns(w)
        /\ Leave(w)
        /\ UNCHANGED <<rowVars, active, scanVars, dataVars>>

-----------------------------------------------------------------------------
(* The recovery loop *)

Stale(r) == Claimed(r) /\ age[r] = Expired

\* Defect: a worker only looks for its own runs, as if claims survived restarts.
ScanOwn(w) ==
  /\ pc[w] \in Alive
  /\ scan[w] = {}
  /\ scan' = [scan EXCEPT ![w] = {r \in Runs : Stale(r) /\ owner[r] = w}]
  /\ UNCHANGED <<rowVars, active, loopVars, moved, dataVars>>

\* RecoverStaleRuns reads its candidates in one query ...
Scan(w) ==
  /\ pc[w] \in Alive
  /\ scan[w] = {}
  /\ scan' = [scan EXCEPT ![w] = {r \in Runs : Stale(r)}]
  /\ UNCHANGED <<rowVars, active, loopVars, moved, dataVars>>

\* Defect: the compare-and-set leaves the heartbeat out.
RecoverUnfenced(w, r) ==
  /\ pc[w] \in Alive
  /\ r \in scan[w]
  /\ status' = IF InProgress(r) THEN [status EXCEPT ![r] = "interrupted"] ELSE status
  /\ scan' = [scan EXCEPT ![w] = @ \ {r}]
  /\ moved' = [moved EXCEPT ![w] = @ \ {r}]
  /\ UNCHANGED <<owner, age, active, loopVars, dataVars>>

\* ... and fails each by compare-and-set, in a transaction of its own.
Recover(w, r) ==
  /\ pc[w] \in Alive
  /\ r \in scan[w]
  /\ status' = IF InProgress(r) /\ r \notin moved[w]
               THEN [status EXCEPT ![r] = "interrupted"]
               ELSE status
  /\ scan' = [scan EXCEPT ![w] = @ \ {r}]
  /\ moved' = [moved EXCEPT ![w] = @ \ {r}]
  /\ UNCHANGED <<owner, age, active, loopVars, dataVars>>

\* A database error drops the candidates not tried yet.
RecoverError(w) ==
  /\ scan[w] # {}
  /\ scan' = [scan EXCEPT ![w] = {}]
  /\ moved' = [moved EXCEPT ![w] = {}]
  /\ UNCHANGED <<rowVars, active, loopVars, dataVars>>

\* The process dies, or is shut down: what it held in memory is gone.
Crash(w) ==
  /\ pc[w] \in Alive
  /\ w \notin Steady
  /\ pc' = [pc EXCEPT ![w] = "dead"]
  /\ job' = [job EXCEPT ![w] = NoRun]
  /\ left' = [left EXCEPT ![w] = 0]
  /\ page' = [page EXCEPT ![w] = NoPage]
  /\ scan' = [scan EXCEPT ![w] = {}]
  /\ moved' = [moved EXCEPT ![w] = {}]
  /\ UNCHANGED <<rowVars, active, dataVars>>

-----------------------------------------------------------------------------
\* The steps the run loop takes when nothing fails.
Work(w) ==
  \/ ClaimSelect(w) \/ ClaimUpdate(w) \/ Lookup(w)
  \/ Receive(w) \/ SaveRaw(w) \/ Store(w)
  \/ Finalize(w) \/ FailRun(w)

Next ==
  \/ \E r \in Runs : Enqueue(r)
  \/ \E s \in Sources : SetActive(s) \/ Advance(s)
  \/ Tick
  \/ \E w \in Workers :
       \/ Start(w) \/ Work(w) \/ FailGeneral(w) \/ Abandon(w) \/ Heartbeat(w)
       \/ Scan(w) \/ RecoverError(w) \/ Crash(w)
       \/ \E r \in Runs : Recover(w, r)

Spec == Init /\ [][Next]_vars

\* Time passes, and a process that is up goes on with the run it holds (the Go
\* scheduler) and, when idle, claims: it has credentials some day, and its claim
\* does not fail for ever.  Only of the steady processes it is assumed that they
\* start, keep scanning, and that database errors do not defeat every one of
\* their attempts to recover a run (strong fairness).  No heartbeat is ever
\* promised, and no crash of a worker that is not steady is ruled out.
Fairness ==
  /\ WF_vars(Tick)
  /\ \A w \in Workers : WF_vars(Work(w))
  /\ \A w \in Steady :
       /\ WF_vars(Start(w) \/ Scan(w))
       /\ SF_vars(\E r \in Runs : Recover(w, r))

FairSpec == Spec /\ Fairness

-----------------------------------------------------------------------------
(* Properties *)

\* No run of a source overlaps another: uq_sync_runs_active_source holds
\* whatever Enqueue, the workers and recovery do (migration 00001).
OneActiveRun ==
  \A q, r \in Runs :
    InProgress(q) /\ InProgress(r) /\ SourceOf[q] = SourceOf[r] => q = r

\* A worker executes only a run it claimed, and a run nobody enqueued has no
\* owner.
ClaimsCoherent ==
  /\ \A w \in Workers :
       /\ pc[w] \in Busy \cup {"picked"} <=> job[w] \in Runs
       /\ pc[w] \in Busy => owner[job[w]] = w
  /\ \A r \in Runs : status[r] = "none" => owner[r] = NoWorker
  /\ \A w \in Workers : job[w] \in Runs => status[job[w]] # "none"

\* The page in the hands of the owner of a run in progress is no older than what
\* is stored for its source, and no newer than what the provider has.
PageCurrent ==
  /\ \A s \in Sources : stored[s] <= offered[s]
  /\ \A w \in Workers : pc[w] \in {"received", "storing"} =>
       /\ page[w] \in Nat
       /\ Owns(w) => /\ stored[SourceOf[job[w]]] <= page[w]
                     /\ page[w] <= offered[SourceOf[job[w]]]

\* A candidate of a recovery loop that is still in progress and whose heartbeat
\* did not move since the read is silent beyond the lease.
CandidatesStale ==
  \A w \in Workers :
    /\ \A r \in scan[w] : status[r] # "none"
    /\ \A r \in scan[w] \ moved[w] : InProgress(r) => Stale(r)

\* The inductive invariant: why late owners and late recoverers are harmless.
Inv == OneActiveRun /\ ClaimsCoherent /\ PageCurrent /\ CandidatesStale

\* The data of a source never goes back to an older answer of the provider: a
\* worker that lost its run while holding a page cannot overwrite what a later
\* run stored (beginOwnedTx's comment in service.go:98).
StoredForward == [][\A s \in Sources : stored'[s] >= stored[s]]_vars

\* A run gets one verdict: neither a late owner nor a late recoverer changes it
\* (fencedTerminalUpdate and recoverRun, recovery.go:32-150).
VerdictFinal ==
  [][\A r \in Runs : status[r] \in Verdicts => status'[r] = status[r]]_vars

\* A run is claimed by one worker for ever: two claimants that selected the same
\* row cannot both take it (ClaimNextRun, worker.go:63-66).
ClaimedOnce ==
  [][\A r \in Runs : owner[r] # NoWorker => owner'[r] = owner[r]]_vars

\* Recovery fails only runs whose owner is silent beyond the lease at that very
\* moment: a heartbeat that lands first keeps the run alive (recovery.go:68-72).
RecoversOnlySilent ==
  [][\A r \in Runs :
       status[r] # "interrupted" /\ status'[r] = "interrupted" => Stale(r)]_vars

\* No source stays occupied: whichever of its workers crashed, hung or met a
\* database error on the way, the run in progress reaches a verdict and the next
\* one may be enqueued (ErrBusy otherwise), as long as one process stays up.
EveryRunEnds == \A s \in Sources : ~SourceFree(s) ~> SourceFree(s)

-----------------------------------------------------------------------------
(* What the subsystem promises: one slot per source. *)

RunOf(s) == CHOOSE r \in Runs : SourceOf[r] = s /\ InProgress(r)

slotPhase ==
  [s \in Sources |-> IF SourceFree(s) THEN "idle"
                     ELSE IF owner[RunOf(s)] = NoWorker THEN "requested"
                     ELSE "running"]
slotHolder ==
  [s \in Sources |-> IF SourceFree(s) THEN NoWorker ELSE owner[RunOf(s)]]

Slot == INSTANCE SyncSlot WITH phase <- slotPhase, holder <- slotHolder

\* The run rows, leases and fences implement one exclusive slot per source.
ImplementsSlot == Slot!Spec
=============================================================================
