----------------------------- MODULE MCSyncRuns -----------------------------
(* Small instances of SyncRuns for TLC. *)
EXTENDS SyncRuns, TLC

CONSTANTS w1, w2, s1

\* One source synchronized twice.
OneSource == [r \in Runs |-> s1]
=============================================================================
