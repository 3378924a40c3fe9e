SPECIFICATION FairSpec
CONSTANTS
  a1 = a1 j1 = j1 j2 = j2 l1 = l1
  w1 = w1 w2 = w2 o1 = o1 c1 = c1 p1 = p1 p2 = p2
  Nobody = Nobody None = None
  Agents = {a1}
  Jobs = {j1}
  Leases = {l1}
  Threads = {w1, o1, c1}
  Procs = {p1}
  ProcOf <- OneProcess
  CanDo <- LiveRoles
  JobAgent <- SameAgentJobs
  JobForm <- AgentIds
  JobEnv <- StagingJobs
  JobLease <- SameLease
  LeaseAgent <- SameAgentLeases
  LeaseEnv <- StagingLeases
  MaxAttempts = 2
  PageLimit = 2
  MaxFaults = 0
INVARIANT WaitIsShort
PROPERTIES GuardIsReleased RunningEnds
CHECK_DEADLOCK FALSE
