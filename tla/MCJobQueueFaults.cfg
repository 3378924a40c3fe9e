SPECIFICATION Spec
CONSTANTS
  a1 = a1 j1 = j1 j2 = j2 l1 = l1
  w1 = w1 w2 = w2 o1 = o1 c1 = c1 p1 = p1 p2 = p2
  Nobody = Nobody None = None
  Agents = {a1}
  Jobs = {j1}
  Leases = {l1}
  Threads = {w1, w2, o1}
  Procs = {p1, p2}
  ProcOf <- TwoProcesses
  CanDo <- FaultRoles
  JobAgent <- SameAgentJobs
  JobForm <- AgentIds
  JobEnv <- ProdJobs
  JobLease <- SameLease
  LeaseAgent <- SameAgentLeases
  LeaseEnv <- ProdLeases
  MaxAttempts = 2
  PageLimit = 1
  MaxFaults = 1
INVARIANTS LeaseSingleUse ActiveLeaseBacked KilledNotRunning EvidenceBeforeSuccess
CHECK_DEADLOCK FALSE
