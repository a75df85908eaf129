---------------------------- MODULE SyncSchedule ----------------------------
(***************************************************************************)
(* The daily synchronization schedule: RunSchedule's loop around           *)
(* EnqueueDue, next to manual requests, connections being deactivated,     *)
(* runs ending, and the process being restarted.                           *)
(* (internal/worker/schedule.go, internal/httpapi/syncruns_handlers.go,    *)
(* internal/syncsvc/enqueue.go)                                            *)
(*                                                                         *)
(* Time is the index of the latest scheduled occurrence: day d lasts from  *)
(* the d-th occurrence to the next, so Previous(now) = day, Next(now) =    *)
(* day + 1, and started_at >= due is a comparison of days.  Every clock    *)
(* reading and every statement is a step of its own; occurrences, requests *)
(* and runs ending fall between any two.                                   *)
(***************************************************************************)
EXTENDS Naturals, FiniteSets, Connections

CONSTANTS
  Toggled,      \* the sources a user deactivates and reactivates
  Processes,    \* lives of the program; one at a time, a restart is the next
  Lasting,      \* processes that never stop (liveness needs one)
  NoSource,     \* no source in hand
  MaxDay        \* bound on the occurrences

ASSUME ScheduleAssumption ==
  /\ Toggled \subseteq Sources
  /\ Lasting \subseteq Processes
  /\ NoSource \notin Sources
  /\ MaxDay \in Nat \ {0}

Days == 0 .. MaxDay

VARIABLES
  day,      \* the latest occurrence
  open,     \* open[s]: a run of s is in progress
  latest,   \* latest[s]: the day its most recent run started (day 0: none)
  loop,     \* loop[p]: where RunSchedule is
  wake,     \* wake[p]: the occurrence the loop sleeps until
  due,      \* due[p]: s.Previous(now) of the current or last EnqueueDue
  todo,     \* todo[p]: sources EnqueueDue listed and has not looked at yet
  pick,     \* pick[p]: the source EnqueueDue found without a run since due
  made,     \* made[s][d]: runs of s the schedule created for occurrence d
  passed    \* passed[s]: latest occurrence some EnqueueDue handled s for

callVars == <<loop, wake, due, todo, pick>>
sourceVars == <<active, open, latest>>
history == <<made, passed>>
dailyVars == <<day, sourceVars, callVars, history>>

LoopStates == {"down", "plan", "call", "list", "count", "insert", "asleep", "dead"}
Up(p) == loop[p] \notin {"down", "dead"}

\* Everything is 0 on day 0; day 0 has no occurrence yet.
DailyTypeOK ==
  /\ day \in Days
  /\ active \in [Sources -> BOOLEAN]
  /\ open \in [Sources -> BOOLEAN]
  /\ latest \in [Sources -> Days]
  /\ loop \in [Processes -> LoopStates]
  /\ wake \in [Processes -> 0 .. MaxDay + 1]
  /\ due \in [Processes -> Days]
  /\ todo \in [Processes -> SUBSET Sources]
  /\ pick \in [Processes -> Sources \cup {NoSource}]
  /\ made \in [Sources -> [Days -> Nat]]
  /\ passed \in [Sources -> Days]

DailyInit ==
  /\ day = 0
  /\ active = [s \in Sources |-> TRUE]
  /\ open = [s \in Sources |-> FALSE]
  /\ latest = [s \in Sources |-> 0]
  /\ loop = [p \in Processes |-> "down"]
  /\ wake = [p \in Processes |-> 0]
  /\ due = [p \in Processes |-> 0]
  /\ todo = [p \in Processes |-> {}]
  /\ pick = [p \in Processes |-> NoSource]
  /\ made = [s \in Sources |-> [d \in Days |-> 0]]
  /\ passed = [s \in Sources |-> 0]

-----------------------------------------------------------------------------
(* Environment *)

\* The scheduled time comes.
Occur ==
  /\ day < MaxDay
  /\ day' = day + 1
  /\ UNCHANGED <<sourceVars, callVars, history>>

Toggle(s) ==
  /\ s \in Toggled
  /\ Flip(s)
  /\ UNCHANGED <<day, open, latest, callVars, history>>

\* handleCreateSyncRun reaches s: a busy source is skipped.  It read is_active
\* before, so s may have been deactivated since.
Request(s) ==
  /\ ~open[s]
  /\ open' = [open EXCEPT ![s] = TRUE]
  /\ latest' = [latest EXCEPT ![s] = day]
  /\ UNCHANGED <<day, active, callVars, history>>

\* A worker or recovery ends the run (SyncRuns).
RunEnds(s) ==
  /\ open[s]
  /\ open' = [open EXCEPT ![s] = FALSE]
  /\ UNCHANGED <<day, active, latest, callVars, history>>

-----------------------------------------------------------------------------
(* RunSchedule *)

\* One process at a time: it starts when the previous one is gone.
StartLoop(p) ==
  /\ loop[p] = "down"
  /\ \A q \in Processes : ~Up(q)
  /\ loop' = [loop EXCEPT ![p] = "plan"]
  /\ UNCHANGED <<day, sourceVars, wake, due, todo, pick, history>>

\* Defect: the clock is read for the next wake-up one occurrence too far.
PlanSkipping(p) ==
  /\ loop[p] = "plan"
  /\ wake' = [wake EXCEPT ![p] = day + 2]
  /\ loop' = [loop EXCEPT ![p] = "call"]
  /\ UNCHANGED <<day, sourceVars, due, todo, pick, history>>

\* wait := time.Until(s.Next(time.Now())), before the call.
Plan(p) ==
  /\ loop[p] = "plan"
  /\ wake' = [wake EXCEPT ![p] = day + 1]
  /\ loop' = [loop EXCEPT ![p] = "call"]
  /\ UNCHANGED <<day, sourceVars, due, todo, pick, history>>

\* EnqueueDue(..., time.Now()): a second reading of the clock.
Call(p) ==
  /\ loop[p] = "call"
  /\ due' = [due EXCEPT ![p] = day]
  /\ loop' = [loop EXCEPT ![p] = "list"]
  /\ UNCHANGED <<day, sourceVars, wake, todo, pick, history>>

\* datasources.ListActive, once.
List(p) ==
  /\ loop[p] = "list"
  /\ todo' = [todo EXCEPT ![p] = {s \in Sources : active[s]}]
  /\ loop' = [loop EXCEPT ![p] = "count"]
  /\ UNCHANGED <<day, sourceVars, wake, due, pick, history>>

\* Source s is dealt with: a run since due exists, or one is in progress.
Handled(p, s) ==
  /\ todo' = [todo EXCEPT ![p] = @ \ {s}]
  /\ pick' = [pick EXCEPT ![p] = NoSource]
  /\ passed' = [passed EXCEPT ![s] = IF due[p] > @ THEN due[p] ELSE @]
  /\ loop' = [loop EXCEPT ![p] = "count"]

\* Defect: only a run still in progress counts as the day's run.
CountOpen(p, s) ==
  /\ loop[p] = "count"
  /\ s \in todo[p]
  /\ \/ /\ open[s]
        /\ Handled(p, s)
        /\ UNCHANGED <<day, sourceVars, wake, due, made>>
     \/ /\ ~open[s]
        /\ pick' = [pick EXCEPT ![p] = s]
        /\ loop' = [loop EXCEPT ![p] = "insert"]
        /\ UNCHANGED <<day, sourceVars, wake, due, todo, history>>

\* SELECT COUNT(*) FROM sync_runs WHERE source_id = s AND started_at >= due.
Count(p, s) ==
  /\ loop[p] = "count"
  /\ s \in todo[p]
  /\ \/ /\ latest[s] >= due[p]
        /\ Handled(p, s)
        /\ UNCHANGED <<day, sourceVars, wake, due, made>>
     \/ /\ latest[s] < due[p]
        /\ pick' = [pick EXCEPT ![p] = s]
        /\ loop' = [loop EXCEPT ![p] = "insert"]
        /\ UNCHANGED <<day, sourceVars, wake, due, todo, history>>

\* syncsvc.Enqueue with the now of the call: skip a source that is mid-sync.
Insert(p, s) ==
  /\ loop[p] = "insert"
  /\ pick[p] = s
  /\ Handled(p, s)
  /\ \/ /\ open[s]
        /\ UNCHANGED <<day, sourceVars, wake, due, made>>
     \/ /\ ~open[s]
        /\ open' = [open EXCEPT ![s] = TRUE]
        /\ latest' = [latest EXCEPT ![s] = IF due[p] > @ THEN due[p] ELSE @]
        /\ made' = [made EXCEPT ![s][due[p]] = @ + 1]
        /\ UNCHANGED <<day, active, wake, due>>

Done(p) ==
  /\ loop[p] = "count"
  /\ todo[p] = {}
  /\ loop' = [loop EXCEPT ![p] = "asleep"]
  /\ UNCHANGED <<day, sourceVars, wake, due, todo, pick, history>>

\* Defect: a failed call waits for the next occurrence like a successful one.
FailUntilNext(p) ==
  /\ loop[p] \in {"list", "count", "insert"}
  /\ loop[p] = "count" => todo[p] # {}
  /\ loop' = [loop EXCEPT ![p] = "asleep"]
  /\ todo' = [todo EXCEPT ![p] = {}]
  /\ pick' = [pick EXCEPT ![p] = NoSource]
  /\ UNCHANGED <<day, sourceVars, wake, due, history>>

\* A database error ends the call; the loop retries in a minute.
Fail(p) ==
  /\ loop[p] \in {"list", "count", "insert"}
  /\ loop[p] = "count" => todo[p] # {}
  /\ loop' = [loop EXCEPT ![p] = "asleep"]
  /\ wake' = [wake EXCEPT ![p] = 0]
  /\ todo' = [todo EXCEPT ![p] = {}]
  /\ pick' = [pick EXCEPT ![p] = NoSource]
  /\ UNCHANGED <<day, sourceVars, due, history>>

Wake(p) ==
  /\ loop[p] = "asleep"
  /\ day >= wake[p]
  /\ loop' = [loop EXCEPT ![p] = "plan"]
  /\ wake' = [wake EXCEPT ![p] = 0]
  /\ due' = [due EXCEPT ![p] = 0]
  /\ UNCHANGED <<day, sourceVars, todo, pick, history>>

\* The process stops; its runs stay in the database.
Stop(p) ==
  /\ Up(p)
  /\ p \notin Lasting
  /\ loop' = [loop EXCEPT ![p] = "dead"]
  /\ wake' = [wake EXCEPT ![p] = 0]
  /\ due' = [due EXCEPT ![p] = 0]
  /\ todo' = [todo EXCEPT ![p] = {}]
  /\ pick' = [pick EXCEPT ![p] = NoSource]
  /\ UNCHANGED <<day, sourceVars, history>>

\* The steps of the loop that cannot fail.
Loop(p) == StartLoop(p) \/ Plan(p) \/ Call(p) \/ Done(p) \/ Wake(p)

DailyNext ==
  \/ Occur
  \/ \E s \in Sources : Toggle(s) \/ Request(s) \/ RunEnds(s)
  \/ \E p \in Processes :
       \/ Loop(p) \/ List(p) \/ Fail(p) \/ Stop(p)
       \/ \E s \in Sources : Count(p, s) \/ Insert(p, s)

DailySpec == DailyInit /\ [][DailyNext]_dailyVars

\* The loop runs; a process that is not steady stops some day and leaves the
\* place to its restart; a statement of the steady one that can fail does not
\* fail every time (strong fairness).
DailyFairness ==
  /\ \A p \in Processes : WF_dailyVars(Loop(p))
  /\ \A p \in Processes \ Lasting : WF_dailyVars(Stop(p))
  /\ \A p \in Lasting :
       /\ SF_dailyVars(List(p))
       /\ \A s \in Sources : SF_dailyVars(Count(p, s)) /\ SF_dailyVars(Insert(p, s))

FairDailySpec == DailySpec /\ DailyFairness

-----------------------------------------------------------------------------
(* Properties *)

\* However often the process is restarted and a failed call is repeated, the
\* schedule creates at most one run per source and occurrence: "neither repeats
\* the sync" (schedule.go:71).
NeverRepeats == \A s \in Sources, d \in Days : made[s][d] <= 1

\* A sleeping loop never sleeps past an occurrence it has not handled, although
\* the clock is read twice and a call may outlast an occurrence.
NoOccurrenceOverslept ==
  \A p \in Processes : loop[p] = "asleep" => wake[p] <= due[p] + 1

\* Every occurrence is handled for every source that stays active, across
\* restarts and database errors: the schedule does not forget a day.
EveryOccurrenceHandled ==
  \A s \in Sources \ Toggled, d \in Days : (day >= d) ~> (passed[s] >= d)

=============================================================================
