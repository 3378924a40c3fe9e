----------------------------- MODULE LeaseGrant -----------------------------
(***************************************************************************)
(* What an authorization lease promises, without threads, jobs or locks:   *)
(* it is granted once, taken by at most one execution, and that execution  *)
(* happens at most once.  A taken lease is never given back.               *)
(***************************************************************************)
CONSTANT Leases

VARIABLE grant

States == {"unissued", "live", "taken", "used", "void"}

GrantInit == grant = [l \in Leases |-> "unissued"]

Move(l, from, to) ==
  /\ grant[l] = from
  /\ grant' = [grant EXCEPT ![l] = to]

Issue(l) == Move(l, "unissued", "live")
Take(l) == Move(l, "live", "taken")
Use(l) == Move(l, "taken", "used")

\* Revoked, expired or consumed without an execution, several leases at once.
Void(S) ==
  /\ \A l \in S : grant[l] \in {"live", "taken"}
  /\ grant' = [l \in Leases |-> IF l \in S THEN "void" ELSE grant[l]]

GrantNext ==
  \/ \E l \in Leases : Issue(l) \/ Take(l) \/ Use(l)
  \/ \E S \in SUBSET Leases : Void(S)

GrantSpec == GrantInit /\ [][GrantNext]_grant
=============================================================================
