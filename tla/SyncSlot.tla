------------------------------ MODULE SyncSlot ------------------------------
(***************************************************************************)
(* What the synchronization subsystem promises, without workers, leases,   *)
(* heartbeats or run rows.  Every bank connection (a source) is one slot:  *)
(* a synchronization of it is requested, taken by a single holder, and     *)
(* over.  Only the holder writes the data of the source, and it never      *)
(* replaces what is stored by something the provider said earlier.         *)
(*                                                                         *)
(* SyncRuns implements this module; see Slot there.                        *)
(***************************************************************************)
EXTENDS Naturals

CONSTANTS
  Sources,    \* the connections registered in data_sources
  Workers,    \* worker identities (host:pid:random, internal/worker.WorkerID)
  NoWorker    \* worker_id IS NULL

VARIABLES
  phase,    \* phase[s]: no synchronization of s, one requested, or one running
  holder,   \* holder[s]: who synchronizes s
  offered,  \* offered[s]: version of the data the provider has for s
  stored    \* stored[s]: version of the data kept for s

slotVars == <<phase, holder, offered, stored>>

Phases == {"idle", "requested", "running"}

SlotTypeOK ==
  /\ phase \in [Sources -> Phases]
  /\ holder \in [Sources -> Workers \cup {NoWorker}]
  /\ offered \in [Sources -> Nat]
  /\ stored \in [Sources -> Nat]

Init ==
  /\ phase = [s \in Sources |-> "idle"]
  /\ holder = [s \in Sources |-> NoWorker]
  /\ offered = [s \in Sources |-> 0]
  /\ stored = [s \in Sources |-> 0]

\* The provider obtains newer data of s from the bank.
Advance(s) ==
  /\ offered' = [offered EXCEPT ![s] = @ + 1]
  /\ UNCHANGED <<phase, holder, stored>>

\* A synchronization of s is asked for; there is none under way.
Request(s) ==
  /\ phase[s] = "idle"
  /\ phase' = [phase EXCEPT ![s] = "requested"]
  /\ UNCHANGED <<holder, offered, stored>>

\* One worker takes the requested synchronization of s.
Take(s, w) ==
  /\ phase[s] = "requested"
  /\ phase' = [phase EXCEPT ![s] = "running"]
  /\ holder' = [holder EXCEPT ![s] = w]
  /\ UNCHANGED <<offered, stored>>

\* The holder stores what the provider answered: never older than what is
\* stored, never newer than what the provider has.
Store(s, w) ==
  /\ phase[s] = "running"
  /\ holder[s] = w
  /\ \E v \in stored[s] .. offered[s] : stored' = [stored EXCEPT ![s] = v]
  /\ UNCHANGED <<phase, holder, offered>>

\* The synchronization of s is over: finished by its holder, or declared dead.
Release(s) ==
  /\ phase[s] = "running"
  /\ phase' = [phase EXCEPT ![s] = "idle"]
  /\ holder' = [holder EXCEPT ![s] = NoWorker]
  /\ UNCHANGED <<offered, stored>>

Next ==
  \E s \in Sources :
    \/ Advance(s)
    \/ Request(s)
    \/ \E w \in Workers : Take(s, w) \/ Store(s, w)
    \/ Release(s)

Spec == Init /\ [][Next]_slotVars
=============================================================================
