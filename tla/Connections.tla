---------------------------- MODULE Connections ----------------------------
(***************************************************************************)
(* The rows of data_sources that synchronizations share: which connections *)
(* there are and which of them the user keeps active.                      *)
(***************************************************************************)
CONSTANT Sources  \* rows of data_sources whose provider is Pluggy

VARIABLE active   \* active[s]: data_sources.is_active

\* datasources.Update with is_active.
Flip(s) == active' = [active EXCEPT ![s] = ~@]
=============================================================================
