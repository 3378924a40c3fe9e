----------------------------- MODULE MCJobQueue -----------------------------
(* Instances of JobQueue for TLC: one agent, two jobs that name one lease.  *)
EXTENDS JobQueue, TLC

CONSTANTS a1, j1, j2, l1, w1, w2, o1, c1, p1, p2

\* Two workers, one operator and one client in one server process.
OneProcess == [t \in Threads |-> p1]
\* The second worker runs in a second process.
TwoProcesses == [t \in Threads |-> IF t = w2 THEN p2 ELSE p1]

StagingJobs == [j \in Jobs |-> "staging"]
StagingLeases == [l \in Leases |-> "staging"]
ProdJobs == [j \in Jobs |-> "prod"]
ProdLeases == [l \in Leases |-> "prod"]
SameAgentJobs == [j \in Jobs |-> a1]
SameAgentLeases == [l \in Leases |-> a1]
SameLease == [j \in Jobs |-> l1]
AgentIds == [j \in Jobs |-> "agentId"]
RecordIds == [j \in Jobs |-> "identityId"]
BothForms == [j \in Jobs |-> IF j = j1 THEN "agentId" ELSE "identityId"]

\* Two workers that also serve retries and cancellations, and an operator who
\* uses the kill switch and submits.
Roles == [t \in Threads |->
  CASE t \in {w1, w2} -> {"process", "retry", "cancel"}
    [] t = o1 -> {"kill", "submit"}]

\* Three threads: the operator decides on production access too and serves
\* submissions; direct runs are served next to the second worker.
FaultRoles == [t \in Threads |->
  CASE t = w1 -> {"process", "cancel"}
    [] t = w2 -> {"process", "run"}
    [] t = o1 -> {"kill", "decide", "submit"}]

\* Two operators use the kill switch, one of them under either name.
LiveRoles == [t \in Threads |->
  CASE t = w1 -> {"process"}
    [] t = o1 -> {"kill"}
    [] t = c1 -> {"kill", "submit"}]

ViolationRoles == [t \in Threads |->
  CASE t = w1 -> {"process"}
    [] t = o1 -> {"kill"}
    [] t = c1 -> {"submit", "cancel"}]

\* Every constant treats the two workers alike.
Symmetry == Permutations({w1, w2})
=============================================================================
