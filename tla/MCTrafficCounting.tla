--------------------------- MODULE MCTrafficCounting ---------------------------
(* Instances of TrafficCounting for TLC.                                      *)
EXTENDS TrafficCounting, TLC

\* Names are only compared.
Symmetry == Permutations(Name)
===============================================================================
