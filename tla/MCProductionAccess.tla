-------------------------- MODULE MCProductionAccess --------------------------
(* Instances of ProductionAccess for TLC.                                     *)
EXTENDS ProductionAccess, TLC

CONSTANTS v1, v2, k1, k2

\* Every constant treats the reviewers alike and the keys alike.
Symmetry == Permutations({v1, v2}) \cup Permutations({k1, k2})
=============================================================================
