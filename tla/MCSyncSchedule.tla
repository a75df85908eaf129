--------------------------- MODULE MCSyncSchedule ---------------------------
(* Small instances of SyncSchedule for TLC. *)
EXTENDS SyncSchedule

CONSTANTS s1, s2, p1, p2
=============================================================================
