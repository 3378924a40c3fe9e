---------------------------- MODULE MCAuthorization ----------------------------
(* Instances of Authorization for TLC.                                         *)
EXTENDS Authorization, TLC

CONSTANTS a1, a2, r1, r2, x1, l1, l2, high, low

\* Every constant treats the threads of a kind alike and the leases alike.
Symmetry == Permutations({a1, a2}) \cup Permutations({r1, r2}) \cup Permutations({l1, l2})
=============================================================================
