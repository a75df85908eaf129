--------------------------- MODULE MCObligations ---------------------------
(* A small instance of Obligations for TLC. *)
EXTENDS Obligations, TLC

CONSTANTS t1, t2, p1, p2, o1, o2, r1, r2

Symmetry == Permutations(Requests)

\* Bounds of the run: up to the first clash and the first change of a decision
\* that is torn, and two changes of decisions altogether.
Bounded ==
  /\ contested = {} /\ Cardinality(torn) <= 1
  /\ decision[t1].revision + decision[t2].revision <= 2
=============================================================================
