------------------------------- MODULE MCUserSync -------------------------------
(* Instances of UserSync for TLC.                                             *)
EXTENDS UserSync, TLC

\* Inbounds, users and credentials are only compared.
Symmetry == Permutations(Tag) \cup Permutations(Email) \cup Permutations(Cred)
===============================================================================
