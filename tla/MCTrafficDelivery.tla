--------------------------- MODULE MCTrafficDelivery ---------------------------
(* Instances of TrafficDelivery and its refinement for TLC.                    *)
EXTENDS TrafficRefinement, TLC

\* Identifiers and entries are only compared, so they may be permuted; not in
\* the runs that check liveness.
Symmetry == Permutations(Id) \cup Permutations(Entry)
===============================================================================
