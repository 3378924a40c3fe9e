------------------------------ MODULE JobQueue ------------------------------
(***************************************************************************)
(* The agent job queue of the backend (app/job_queue.py) together with the *)
(* HTTP handlers that share its records: job submission, cancellation and  *)
(* retry, the kill switch, production decisions, identity changes and the  *)
(* direct runtime, which spends the same authorization leases.             *)
(*                                                                         *)
(* A thread serves one request at a time.  One action is one database      *)
(* statement or transaction, or one lock operation, so two requests        *)
(* interleave wherever the code lets them.  The identity guard is an       *)
(* in-memory lock: every server process has its own.                       *)
(*                                                                         *)
(* A definition marked "Faulty variant" belongs to no specification: it is *)
(* the definition after it with a plausible bug, used to see that the      *)
(* properties notice.                                                      *)
(***************************************************************************)
EXTENDS Naturals, Sequences, FiniteSets

CONSTANTS
  Agents, Jobs, Leases,   \* agent identities, submissions, issued leases
  Threads, Procs,         \* request threads and server processes
  ProcOf,                 \* the process a thread runs in
  CanDo,                  \* the requests a thread may be given (a bound)
  JobAgent, JobForm, JobEnv, JobLease,  \* the stored request of a job
  LeaseAgent, LeaseEnv,   \* the binding of a lease
  MaxAttempts,            \* request.maxAttempts
  PageLimit,              \* 100 in process_next_job (a bound)
  MaxFaults,              \* crashes and storage errors explored (a bound)
  Nobody, None

Envs == {"staging", "prod"}

\* A built-in agent is named by its agentId or by its identity record id.
Forms == {"agentId", "identityId"}
Keys == Agents \X Forms

Ops == {"process", "run", "submit", "cancel", "retry", "kill", "decide"}

ASSUME ConstantsAssumption ==
  /\ ProcOf \in [Threads -> Procs]
  /\ CanDo \in [Threads -> SUBSET Ops]
  /\ JobAgent \in [Jobs -> Agents]
  /\ JobForm \in [Jobs -> Forms]
  /\ JobEnv \in [Jobs -> Envs]
  /\ JobLease \in [Jobs -> Leases]
  /\ LeaseAgent \in [Leases -> Agents]
  /\ LeaseEnv \in [Leases -> Envs]
  /\ MaxAttempts \in Nat \ {0}
  /\ PageLimit \in Nat \ {0}
  /\ MaxFaults \in Nat
  /\ Nobody \notin Threads
  /\ None \notin Jobs \cup Leases \cup Agents \cup Ops
  /\ Jobs \cap Leases = {}

VARIABLES
  identity,      \* agent_identities: not disabled, boundary permits, prod approved
  lease,         \* agent_authorization_leases: status
  late,          \* leases whose expiresAt has passed
  job,           \* agent_jobs: status, attempts, whether runId is set
  order,         \* jobs in createdAt order
  runRecs, traceRecs,  \* agent_runs and traces, by the job or lease that ran
  guard,         \* _identity_locks, per process
  pc, req, snap, \* per thread: position, request, job record read earlier
  faults,        \* faults so far
  calls,         \* history: run_agent executions made with a lease
  killed,        \* history: identity keys whose jobs a kill switch has cancelled
  wasCancelled   \* history: jobs that have been cancelled at some time

database == <<identity, lease, late, job, order, runRecs, traceRecs>>
threads == <<pc, req, snap>>
history == <<calls, killed, wasCancelled>>
vars == <<identity, lease, late, job, order, runRecs, traceRecs, guard,
          pc, req, snap, faults, calls, killed, wasCancelled>>

-----------------------------------------------------------------------------
JobStatus == {"none", "queued", "running", "succeeded", "blocked", "failed", "cancelled"}
LeaseStatus == {"none", "active", "consumed", "revoked", "expired"}
Labels == {"idle", "acquire", "recheck", "identity", "lease", "expire", "saveExpired",
           "consume", "block", "claim", "call", "saveRun", "saveTrace", "complete",
           "fail", "saveJob", "saveCancel", "saveRetry", "disable", "decide", "cancelJobs"}

IdentityRecord == [enabled : BOOLEAN, boundary : BOOLEAN, prod : BOOLEAN]
JobRecord == [status : JobStatus, attempts : Nat, run : BOOLEAN]
NoJob == [status |-> "none", attempts |-> 0, run |-> FALSE]
NoReq == [op |-> None, job |-> None, lease |-> None, agent |-> None,
          env |-> None, keys |-> {}, approve |-> FALSE]
Request == [op : Ops \cup {None}, job : Jobs \cup {None}, lease : Leases \cup {None},
            agent : Agents \cup {None}, env : Envs \cup {None}, keys : SUBSET Keys,
            approve : BOOLEAN]

Locks == Procs \X Keys
JobKey(j) == <<JobAgent[j], JobForm[j]>>
IsJob(t) == req[t].op = "process"

\* The environment an authorised call needs: status, agent:run, environment,
\* provider access, and approved production access for prod.
Permits(a, e) ==
  /\ identity[a].enabled
  /\ identity[a].boundary
  /\ e = "prod" => identity[a].prod

\* The lease binding compared field by field; agent and environment stand for it.
Bound(t) ==
  /\ LeaseAgent[req[t].lease] = req[t].agent
  /\ LeaseEnv[req[t].lease] = req[t].env

Goto(t, label) == pc' = [pc EXCEPT ![t] = label]

\* The handler answers: its thread keeps nothing.
Return(t) ==
  /\ Goto(t, "idle")
  /\ req' = [req EXCEPT ![t] = NoReq]
  /\ snap' = [snap EXCEPT ![t] = NoJob]

\* Leaving identity_execution_guard, on return or on an exception.
Release(S) == guard' = [k \in Locks |-> IF guard[k] \in S THEN Nobody ELSE guard[k]]

SetJob(j, rec) == job' = [job EXCEPT ![j] = rec]
SetLease(l, s) == lease' = [lease EXCEPT ![l] = s]

\* compare_and_set_record_status: the record is patched if its status is as expected.
CompareAndSetJob(j, expected, rec) ==
  SetJob(j, IF job[j].status = expected THEN rec ELSE job[j])

Begin(t, op, label, r) ==
  /\ pc[t] = "idle"
  /\ op \in CanDo[t]
  /\ Goto(t, label)
  /\ req' = [req EXCEPT ![t] = r]

JobReq(op, j) ==
  [NoReq EXCEPT !.op = op, !.job = j, !.lease = JobLease[j], !.agent = JobAgent[j],
                !.env = JobEnv[j]]

Init ==
  /\ identity = [a \in Agents |-> [enabled |-> TRUE, boundary |-> TRUE, prod |-> FALSE]]
  /\ lease = [l \in Leases |-> "none"]
  /\ late = {}
  /\ job = [j \in Jobs |-> NoJob]
  /\ order = <<>>
  /\ runRecs = {} /\ traceRecs = {}
  /\ guard = [k \in Locks |-> Nobody]
  /\ pc = [t \in Threads |-> "idle"]
  /\ req = [t \in Threads |-> NoReq]
  /\ snap = [t \in Threads |-> NoJob]
  /\ faults = 0
  /\ calls = [l \in Leases |-> 0]
  /\ killed = {}
  /\ wasCancelled = {}

-----------------------------------------------------------------------------
(* Identity and lease records changed by other handlers, one transaction each. *)

\* issue_agent_authorization_lease validates the identity inside its transaction.
IssueLease(l) ==
  /\ lease[l] = "none"
  /\ Permits(LeaseAgent[l], LeaseEnv[l])
  /\ SetLease(l, "active")
  /\ UNCHANGED <<identity, late, job, order, runRecs, traceRecs, guard, faults, threads, history>>

\* Only an active lease is compared with its expiry time.
TimePasses(l) ==
  /\ lease[l] = "active"
  /\ l \notin late
  /\ late' = late \cup {l}
  /\ UNCHANGED <<identity, lease, job, order, runRecs, traceRecs, guard, faults, threads, history>>

\* The active leases of identity a, in the given environments.
ActiveLeases(a, envs) ==
  {l \in Leases : lease[l] = "active" /\ LeaseAgent[l] = a /\ LeaseEnv[l] \in envs}

RevokeLeases(S) == lease' = [l \in Leases |-> IF l \in S THEN "revoked" ELSE lease[l]]

\* A patched boundary or a rotated credential: no guard, no job is cancelled.
PatchIdentity(a, permits) ==
  /\ identity' = [identity EXCEPT ![a].boundary = permits]
  /\ RevokeLeases(ActiveLeases(a, Envs))
  /\ UNCHANGED <<late, job, order, runRecs, traceRecs, guard, faults, threads, history>>

\* Faulty variant: the request leaves the production leases active.
RequestProductionKeepsLeases(a) ==
  /\ identity' = [identity EXCEPT ![a].prod = FALSE]
  /\ UNCHANGED <<lease, late, job, order, runRecs, traceRecs, guard, faults, threads, history>>

\* Filing a production access request withdraws the current approval at once.
RequestProduction(a) ==
  /\ identity' = [identity EXCEPT ![a].prod = FALSE]
  /\ RevokeLeases(ActiveLeases(a, {"prod"}))
  /\ UNCHANGED <<late, job, order, runRecs, traceRecs, guard, faults, threads, history>>

-----------------------------------------------------------------------------
(* The identity guard.                                                     *)

WaitingFor(t) == {k \in req[t].keys : guard[<<ProcOf[t], k>>] # t}

\* Keys are taken in sorted order: the record id sorts before the agentId.
NextKey(t) == CHOOSE k \in WaitingFor(t) :
                \A o \in WaitingFor(t) : o[2] = "identityId" => k[2] = "identityId"

Guarded(op) == CASE op = "process" -> "recheck"
                 [] op = "kill" -> "disable"
                 [] op = "decide" -> "decide"

\* Faulty variant: the keys of a request are taken in any order.
AcquireUnsorted(t) ==
  /\ pc[t] = "acquire"
  /\ \E key \in WaitingFor(t) : LET k == <<ProcOf[t], key>> IN
       /\ guard[k] = Nobody
       /\ guard' = [guard EXCEPT ![k] = t]
       /\ Goto(t, IF WaitingFor(t) = {key} THEN Guarded(req[t].op) ELSE "acquire")
  /\ UNCHANGED <<database, req, snap, faults, history>>

Acquire(t) ==
  /\ pc[t] = "acquire"
  /\ WaitingFor(t) # {}
  /\ LET k == <<ProcOf[t], NextKey(t)>> IN
       /\ guard[k] = Nobody
       /\ guard' = [guard EXCEPT ![k] = t]
       /\ Goto(t, IF WaitingFor(t) = {NextKey(t)} THEN Guarded(req[t].op) ELSE "acquire")
  /\ UNCHANGED <<database, req, snap, faults, history>>

-----------------------------------------------------------------------------
(* process_job, process_next_job and the direct runtime.                   *)

BeginProcess(t, j) ==
  /\ job[j].status # "none"
  /\ Begin(t, "process", "acquire", [JobReq("process", j) EXCEPT !.keys = {JobKey(j)}])
  /\ UNCHANGED <<database, guard, snap, faults, history>>

\* The newest PageLimit jobs are listed before the status is looked at.
Page == SubSeq(order, IF Len(order) > PageLimit THEN Len(order) - PageLimit + 1 ELSE 1,
               Len(order))
QueuedAt == {i \in 1..Len(Page) : job[Page[i]].status = "queued"}

\* The job process_next_job picks, None for the answer "No queued agent jobs".
NextQueued ==
  IF QueuedAt = {} THEN None
  ELSE Page[CHOOSE i \in QueuedAt : \A k \in QueuedAt : i <= k]

BeginProcessNext(t) == \E j \in Jobs : j = NextQueued /\ BeginProcess(t, j)

BeginRun(t, l) ==
  /\ Begin(t, "run", "identity",
           [NoReq EXCEPT !.op = "run", !.lease = l, !.agent = LeaseAgent[l], !.env = LeaseEnv[l]])
  /\ UNCHANGED <<database, guard, snap, faults, history>>

\* The record is read again under the guard; a job not queued is left alone.
Recheck(t) ==
  /\ pc[t] = "recheck"
  /\ \/ /\ job[req[t].job].status = "queued"
        /\ snap' = [snap EXCEPT ![t] = job[req[t].job]]
        /\ Goto(t, "identity")
        /\ UNCHANGED <<guard, req>>
     \/ /\ job[req[t].job].status # "queued"
        /\ Release({t}) /\ Return(t)
  /\ UNCHANGED <<database, faults, history>>

\* A worker that lacks authority blocks the job, another handler answers an error.
Refuse(t) == IF IsJob(t) THEN Goto(t, "block") /\ UNCHANGED <<req, snap>> ELSE Return(t)

CheckIdentity(t) ==
  /\ pc[t] = "identity"
  /\ IF Permits(req[t].agent, req[t].env)
       THEN Goto(t, "lease") /\ UNCHANGED <<req, snap>>
       ELSE Refuse(t)
  /\ UNCHANGED <<database, guard, faults, history>>

CheckLease(t) ==
  /\ pc[t] = "lease"
  /\ LET l == req[t].lease IN
       IF lease[l] = "active" /\ Bound(t)
         THEN /\ Goto(t, CASE l \in late -> IF IsJob(t) THEN "expire" ELSE "saveExpired"
                           [] l \notin late -> IF req[t].op = "submit" THEN "saveJob" ELSE "consume")
              /\ UNCHANGED <<req, snap>>
         ELSE Refuse(t)
  /\ UNCHANGED <<database, guard, faults, history>>

\* The worker expires a lease by compare-and-set.
ExpireLease(t) ==
  /\ pc[t] = "expire"
  /\ LET l == req[t].lease IN
       SetLease(l, IF lease[l] = "active" THEN "expired" ELSE lease[l])
  /\ Refuse(t)
  /\ UNCHANGED <<identity, late, job, order, runRecs, traceRecs, guard, faults, history>>

\* Submission and the direct runtime save the whole record they read earlier.
SaveExpiredLease(t) ==
  /\ pc[t] = "saveExpired"
  /\ SetLease(req[t].lease, "expired")
  /\ Return(t)
  /\ UNCHANGED <<identity, late, job, order, runRecs, traceRecs, guard, faults, history>>

\* Faulty variant: the lease read as active before is saved as consumed.
ConsumeByPlainSave(t) ==
  /\ pc[t] = "consume"
  /\ SetLease(req[t].lease, "consumed")
  /\ Goto(t, IF IsJob(t) THEN "claim" ELSE "call")
  /\ UNCHANGED <<req, snap, identity, late, job, order, runRecs, traceRecs, guard, faults, history>>

\* Faulty variant: the worker only checks the lease, as submission does.
ConsumeNothing(t) ==
  /\ pc[t] = "consume"
  /\ IF lease[req[t].lease] = "active"
       THEN Goto(t, IF IsJob(t) THEN "claim" ELSE "call") /\ UNCHANGED <<req, snap>>
       ELSE Refuse(t)
  /\ UNCHANGED <<database, guard, faults, history>>

ConsumeLease(t) ==
  /\ pc[t] = "consume"
  /\ LET l == req[t].lease IN
       \/ /\ lease[l] = "active"
          /\ SetLease(l, "consumed")
          /\ Goto(t, IF IsJob(t) THEN "claim" ELSE "call")
          /\ UNCHANGED <<req, snap>>
       \/ /\ lease[l] # "active"
          /\ Refuse(t)
          /\ UNCHANGED lease
  /\ UNCHANGED <<identity, late, job, order, runRecs, traceRecs, guard, faults, history>>

BlockJob(t) ==
  /\ pc[t] = "block"
  /\ LET j == req[t].job IN
       CompareAndSetJob(j, "queued", [job[j] EXCEPT !.status = "blocked"])
  /\ Release({t}) /\ Return(t)
  /\ UNCHANGED <<identity, lease, late, order, runRecs, traceRecs, faults, history>>

\* queued -> running; attempts is written from the record read under the guard.
ClaimJob(t) ==
  /\ pc[t] = "claim"
  /\ LET j == req[t].job IN
       \/ /\ job[j].status = "queued"
          /\ SetJob(j, [job[j] EXCEPT !.status = "running", !.attempts = snap[t].attempts + 1])
          /\ snap' = [snap EXCEPT ![t].attempts = @ + 1]
          /\ Goto(t, "call")
          /\ UNCHANGED req
       \/ /\ job[j].status # "queued"
          /\ Return(t)
          /\ UNCHANGED job
  /\ Release({t})
  /\ UNCHANGED <<identity, lease, late, order, runRecs, traceRecs, faults, history>>

-----------------------------------------------------------------------------
(* The execution, outside the guard.                                       *)

Owner(t) == IF IsJob(t) THEN req[t].job ELSE req[t].lease

\* run_agent knows agents by agentId only and raises for any other name.
Runnable(t) == IsJob(t) => JobForm[req[t].job] = "agentId"

CountCall(t) == calls' = [calls EXCEPT ![req[t].lease] = @ + 1]

CallProvider(t) ==
  /\ pc[t] = "call" /\ Runnable(t)
  /\ CountCall(t)
  /\ Goto(t, "saveRun")
  /\ UNCHANGED <<database, guard, req, snap, faults, killed, wasCancelled>>

\* Faulty variant: a provider error leaves the worker without being recorded.
CallRaisesUncaught(t) ==
  /\ pc[t] = "call"
  /\ IF Runnable(t) THEN CountCall(t) ELSE UNCHANGED calls
  /\ Return(t)
  /\ UNCHANGED <<database, guard, faults, killed, wasCancelled>>

\* The provider fails: a worker records it on the job, the direct runtime answers 503.
CallRaises(t) ==
  /\ pc[t] = "call"
  /\ IF Runnable(t) THEN CountCall(t) ELSE UNCHANGED calls
  /\ IF IsJob(t) THEN Goto(t, "fail") /\ UNCHANGED <<req, snap>> ELSE Return(t)
  /\ UNCHANGED <<database, guard, faults, killed, wasCancelled>>

SaveRun(t) ==
  /\ pc[t] = "saveRun"
  /\ runRecs' = runRecs \cup {Owner(t)}
  /\ Goto(t, "saveTrace")
  /\ UNCHANGED <<identity, lease, late, job, order, traceRecs, guard, req, snap, faults, history>>

SaveTrace(t) ==
  /\ pc[t] = "saveTrace"
  /\ traceRecs' = traceRecs \cup {Owner(t)}
  /\ IF IsJob(t) THEN Goto(t, "complete") /\ UNCHANGED <<req, snap>> ELSE Return(t)
  /\ UNCHANGED <<identity, lease, late, job, order, runRecs, guard, faults, history>>

\* Faulty variant: the result is saved whatever the status has become.
CompleteByPlainSave(t) ==
  /\ pc[t] = "complete"
  /\ LET j == req[t].job IN
       \E s \in {"succeeded", "blocked"} : SetJob(j, [job[j] EXCEPT !.status = s, !.run = TRUE])
  /\ Return(t)
  /\ UNCHANGED <<identity, lease, late, order, runRecs, traceRecs, guard, faults, history>>

\* running -> succeeded, or blocked when the run's decision is "block".
CompleteJob(t) ==
  /\ pc[t] = "complete"
  /\ LET j == req[t].job IN
       \E s \in {"succeeded", "blocked"} :
         CompareAndSetJob(j, "running", [job[j] EXCEPT !.status = s, !.run = TRUE])
  /\ Return(t)
  /\ UNCHANGED <<identity, lease, late, order, runRecs, traceRecs, guard, faults, history>>

\* running -> queued while attempts remain, else failed.
FailJob(t) ==
  /\ pc[t] = "fail"
  /\ LET j == req[t].job
         s == IF snap[t].attempts < MaxAttempts THEN "queued" ELSE "failed" IN
       CompareAndSetJob(j, "running", [job[j] EXCEPT !.status = s])
  /\ Return(t)
  /\ UNCHANGED <<identity, lease, late, order, runRecs, traceRecs, guard, faults, history>>

-----------------------------------------------------------------------------
(* Submission, cancellation and retry: read, then save the whole record.   *)

BeginSubmit(t, j) ==
  /\ job[j].status = "none"
  /\ \A u \in Threads : ~(req[u].op = "submit" /\ req[u].job = j)
  /\ Begin(t, "submit", "identity", JobReq("submit", j))
  /\ UNCHANGED <<database, guard, snap, faults, history>>

SubmitJob(t) ==
  /\ pc[t] = "saveJob"
  /\ SetJob(req[t].job, [NoJob EXCEPT !.status = "queued"])
  /\ order' = Append(order, req[t].job)
  /\ Return(t)
  /\ UNCHANGED <<identity, lease, late, runRecs, traceRecs, guard, faults, history>>

BeginCancel(t, j) ==
  /\ job[j].status \in {"queued", "running", "cancelled"}
  /\ Begin(t, "cancel", "saveCancel", [NoReq EXCEPT !.op = "cancel", !.job = j])
  /\ snap' = [snap EXCEPT ![t] = job[j]]
  /\ UNCHANGED <<database, guard, faults, history>>

CancelJob(t) ==
  /\ pc[t] = "saveCancel"
  /\ SetJob(req[t].job, [snap[t] EXCEPT !.status = "cancelled"])
  /\ wasCancelled' = wasCancelled \cup {req[t].job}
  /\ Return(t)
  /\ UNCHANGED <<identity, lease, late, order, runRecs, traceRecs, guard, faults, calls, killed>>

BeginRetry(t, j) ==
  /\ job[j].status = "failed"
  /\ Begin(t, "retry", "saveRetry", [NoReq EXCEPT !.op = "retry", !.job = j])
  /\ snap' = [snap EXCEPT ![t] = job[j]]
  /\ UNCHANGED <<database, guard, faults, history>>

\* Faulty variant: a status the job schema does not know.
RetryJobUnknownStatus(t) ==
  /\ pc[t] = "saveRetry"
  /\ SetJob(req[t].job, [snap[t] EXCEPT !.status = "retrying", !.run = FALSE])
  /\ Return(t)
  /\ UNCHANGED <<identity, lease, late, order, runRecs, traceRecs, guard, faults, history>>

\* attempts is kept, the evidence ids are cleared.
RetryJob(t) ==
  /\ pc[t] = "saveRetry"
  /\ SetJob(req[t].job, [snap[t] EXCEPT !.status = "queued", !.run = FALSE])
  /\ Return(t)
  /\ UNCHANGED <<identity, lease, late, order, runRecs, traceRecs, guard, faults, history>>

-----------------------------------------------------------------------------
(* The kill switch (and revocation), and a decision on production access.  *)

\* The names the handler locks and cancels: the record id finds both, the
\* agentId of a built-in agent finds only itself.
Aliases(a, form) == {<<a, form>>, <<a, "agentId">>}

\* Faulty variant: the kill switch does not wait for the identity guard.
BeginKillUnguarded(t, a, form) ==
  /\ Begin(t, "kill", "disable", [NoReq EXCEPT !.op = "kill", !.agent = a, !.keys = Aliases(a, form)])
  /\ UNCHANGED <<database, guard, snap, faults, history>>

BeginKill(t, a, form) ==
  /\ Begin(t, "kill", "acquire", [NoReq EXCEPT !.op = "kill", !.agent = a, !.keys = Aliases(a, form)])
  /\ UNCHANGED <<database, guard, snap, faults, history>>

DisableIdentity(t) ==
  /\ pc[t] = "disable"
  /\ identity' = [identity EXCEPT ![req[t].agent].enabled = FALSE]
  /\ RevokeLeases(ActiveLeases(req[t].agent, Envs))
  /\ Goto(t, "cancelJobs")
  /\ UNCHANGED <<late, job, order, runRecs, traceRecs, guard, req, snap, faults, history>>

BeginDecide(t, a, approve) ==
  /\ Begin(t, "decide", "acquire",
           [NoReq EXCEPT !.op = "decide", !.agent = a, !.env = "prod",
                         !.keys = Aliases(a, "identityId"), !.approve = approve])
  /\ UNCHANGED <<database, guard, snap, faults, history>>

\* The transaction finds the request no longer actionable, approves or withdraws.
DecideProduction(t) ==
  /\ pc[t] = "decide"
  /\ LET a == req[t].agent IN
       \/ UNCHANGED <<identity, lease>> /\ Release({t}) /\ Return(t)
       \/ /\ req[t].approve
          /\ identity' = [identity EXCEPT ![a].prod = TRUE]
          /\ UNCHANGED lease
          /\ Release({t}) /\ Return(t)
       \/ /\ ~req[t].approve
          /\ identity' = [identity EXCEPT ![a].prod = FALSE]
          /\ RevokeLeases(ActiveLeases(a, {"prod"}))
          /\ Goto(t, "cancelJobs")
          /\ UNCHANGED <<guard, req, snap>>
  /\ UNCHANGED <<late, job, order, runRecs, traceRecs, faults, history>>

\* Faulty variant: only queued jobs are cancelled.
AffectedQueuedOnly(t) ==
  {j \in Jobs : /\ job[j].status = "queued"
                /\ JobKey(j) \in req[t].keys
                /\ req[t].env \in {None, JobEnv[j]}}

\* Queued and running jobs under the request's names, of its environment if it has one.
Affected(t) ==
  {j \in Jobs : /\ job[j].status \in {"queued", "running"}
                /\ JobKey(j) \in req[t].keys
                /\ req[t].env \in {None, JobEnv[j]}}

CancelAgentJobs(t) ==
  /\ pc[t] = "cancelJobs"
  /\ job' = [j \in Jobs |-> IF j \in Affected(t) THEN [job[j] EXCEPT !.status = "cancelled"]
                                                ELSE job[j]]
  /\ wasCancelled' = wasCancelled \cup Affected(t)
  /\ killed' = IF req[t].op = "kill" THEN killed \cup req[t].keys ELSE killed
  /\ Release({t}) /\ Return(t)
  /\ UNCHANGED <<identity, lease, late, order, runRecs, traceRecs, faults, calls>>

-----------------------------------------------------------------------------
(* Faults: a storage error raised in a request, a process that stops.      *)

\* Faulty variant: an error while saving evidence is ignored.
StorageErrorIgnored(t) ==
  /\ faults < MaxFaults /\ faults' = faults + 1
  /\ pc[t] \notin {"idle", "acquire"}
  /\ pc[t] = "call" => ~IsJob(t)
  /\ IF IsJob(t) /\ pc[t] \in {"saveRun", "saveTrace"}
       THEN Goto(t, "complete") /\ UNCHANGED <<guard, req, snap>>
       ELSE Release({t}) /\ Return(t)
  /\ UNCHANGED <<database, history>>

\* Inside process_job's try block the error is recorded on the job; anywhere
\* else the request fails and the guard's finally clause releases its keys.
\* run_agent stores nothing; the direct runtime audits the consumption before it.
StorageError(t) ==
  /\ faults < MaxFaults /\ faults' = faults + 1
  /\ pc[t] \notin {"idle", "acquire"}
  /\ pc[t] = "call" => ~IsJob(t)
  /\ IF IsJob(t) /\ pc[t] \in {"saveRun", "saveTrace", "complete"}
       THEN Goto(t, "fail") /\ UNCHANGED <<guard, req, snap>>
       ELSE Release({t}) /\ Return(t)
  /\ UNCHANGED <<database, history>>

Crash(p) ==
  LET lost == {t \in Threads : ProcOf[t] = p} IN
  /\ faults < MaxFaults /\ faults' = faults + 1
  /\ Release(lost)
  /\ pc' = [t \in Threads |-> IF t \in lost THEN "idle" ELSE pc[t]]
  /\ req' = [t \in Threads |-> IF t \in lost THEN NoReq ELSE req[t]]
  /\ snap' = [t \in Threads |-> IF t \in lost THEN NoJob ELSE snap[t]]
  /\ UNCHANGED <<database, history>>

-----------------------------------------------------------------------------
\* The steps of a request that has begun.
Step(t) ==
  \/ Acquire(t) \/ Recheck(t) \/ CheckIdentity(t) \/ CheckLease(t) \/ ExpireLease(t)
  \/ SaveExpiredLease(t) \/ ConsumeLease(t) \/ BlockJob(t) \/ ClaimJob(t)
  \/ CallProvider(t) \/ CallRaises(t) \/ SaveRun(t) \/ SaveTrace(t)
  \/ CompleteJob(t) \/ FailJob(t) \/ SubmitJob(t) \/ CancelJob(t) \/ RetryJob(t)
  \/ DisableIdentity(t) \/ DecideProduction(t) \/ CancelAgentJobs(t)

BeginStep(t) ==
  \/ BeginProcessNext(t)
  \/ \E j \in Jobs : BeginProcess(t, j) \/ BeginSubmit(t, j) \/ BeginCancel(t, j) \/ BeginRetry(t, j)
  \/ \E l \in Leases : BeginRun(t, l)
  \/ \E a \in Agents, form \in Forms : BeginKill(t, a, form)
  \/ \E a \in Agents, approve \in BOOLEAN : BeginDecide(t, a, approve)

RecordStep ==
  \/ \E l \in Leases : IssueLease(l) \/ TimePasses(l)
  \/ \E a \in Agents : RequestProduction(a) \/ \E b \in BOOLEAN : PatchIdentity(a, b)

Next ==
  \/ \E t \in Threads : Step(t) \/ BeginStep(t) \/ StorageError(t)
  \/ \E p \in Procs : Crash(p)
  \/ RecordStep

Spec == Init /\ [][Next]_vars

\* A begun request is never abandoned by the scheduler, a provider call ends
\* (its client has a timeout), and a thread waiting for a key that is free
\* again and again is admitted.
Fairness == \A t \in Threads : WF_vars(Step(t)) /\ SF_vars(Acquire(t))

FairSpec == Spec /\ Fairness

-----------------------------------------------------------------------------
(* Properties.                                                             *)

\* Every variable keeps its type.
TypeOK ==
  /\ identity \in [Agents -> IdentityRecord]
  /\ lease \in [Leases -> LeaseStatus]
  /\ late \subseteq Leases
  /\ job \in [Jobs -> JobRecord]
  /\ order \in Seq(Jobs)
  /\ runRecs \subseteq Jobs \cup Leases /\ traceRecs \subseteq Jobs \cup Leases
  /\ guard \in [Locks -> Threads \cup {Nobody}]
  /\ pc \in [Threads -> Labels]
  /\ req \in [Threads -> Request]
  /\ snap \in [Threads -> JobRecord]
  /\ faults \in Nat
  /\ calls \in [Leases -> Nat]
  /\ killed \subseteq Keys
  /\ wasCancelled \subseteq Jobs

\* One lease pays for at most one run_agent execution, whichever jobs, direct
\* runs, retries and server processes present it ("A lease is consumed
\* atomically", README.md).
LeaseSingleUse == \A l \in Leases : calls[l] <= 1

\* A lease is active only while its identity still permits what the lease
\* allows: issuance and every boundary change share the identity transaction.
ActiveLeaseBacked ==
  \A l \in Leases : lease[l] = "active" => Permits(LeaseAgent[l], LeaseEnv[l])

\* No job is claimed a second time, whatever maxAttempts says: attempts is
\* counted by claims and a claim needs a lease the first claim has consumed.
ClaimedAtMostOnce == \A j \in Jobs : job[j].attempts <= 1

\* A job that has ever been cancelled is never running or finished again, even
\* when a stale retry or cancellation rewrites its record.
CancelledStaysStopped ==
  \A j \in wasCancelled : job[j].status \in {"cancelled", "queued", "blocked"}

\* After a kill switch has answered, no job under the names it covered is
\* running, in any process.
KilledNotRunning ==
  \A j \in Jobs : JobKey(j) \in killed => job[j].status # "running"

\* A job that says it succeeded has its run and its trace stored.
EvidenceBeforeSuccess ==
  \A j \in Jobs : job[j].status = "succeeded" => job[j].run /\ j \in runRecs \cap traceRecs

Executing(j) ==
  {t \in Threads : /\ req[t].op = "process" /\ req[t].job = j
                   /\ pc[t] \in {"call", "saveRun", "saveTrace", "complete", "fail"}}

\* Without faults a running job has exactly one thread executing it: claiming
\* and finishing are compare-and-set, and no record is rewritten as running.
RunningHasOneWorker ==
  \A j \in Jobs : job[j].status = "running" => Cardinality(Executing(j)) = 1

\* In one server process a job that is named by the agentId is claimed only while
\* its identity is enabled: every kill switch takes the guard of the agentId, which
\* keeps it out of the check-and-claim section.  For a job named by the id of the
\* identity record this is false: a kill switch addressed by the agentId does not
\* take the guard of that id, and disables the identity between check and claim.
ClaimOnlyWhenEnabled ==
  [][\A j \in Jobs : job[j].status = "queued" /\ job'[j].status = "running" /\ JobForm[j] = "agentId"
                     => identity[JobAgent[j]].enabled]_vars

\* After a kill switch has answered, no job under the names it covered is left
\* queued or running ("cancel affected jobs", README.md).
KillLeavesNoJob ==
  \A j \in Jobs : JobKey(j) \in killed => job[j].status \notin {"queued", "running"}

\* README.md: "Revocation and the kill switch revoke active leases and cancel
\* affected jobs", and job_queue.py: "A kill switch can cancel the running claim
\* immediately".  Once a kill switch has answered under one name of an identity, no
\* job of that identity runs, whichever name it was submitted under.
StopReachesBothNames ==
  \A j \in Jobs : JobAgent[j] \in {k[1] : k \in killed} => job[j].status # "running"

\* process-next answers "No queued agent jobs" only when no job is queued.
NextSeesQueued == NextQueued = None => \A j \in Jobs : job[j].status # "queued"

\* No key of the identity guard is held for ever: lifecycle operations take
\* two keys in sorted order, so they cannot wait for each other.
GuardIsReleased == \A k \in Locks : guard[k] # Nobody ~> guard[k] = Nobody

\* Where a request holds all its keys of the identity guard.
InGuard(t) ==
  \/ IsJob(t) /\ pc[t] \in {"recheck", "identity", "lease", "expire", "consume", "block", "claim"}
  \/ pc[t] \in {"disable", "decide", "cancelJobs"}

Blocker(t) == guard[<<ProcOf[t], NextKey(t)>>]
Blocked(t) == pc[t] = "acquire" /\ Blocker(t) # Nobody
GoesOn(t) == InGuard(t) \/ (pc[t] = "acquire" /\ ~Blocked(t))

\* Waiting for the identity guard never closes into a circle, and no key is left
\* with a request that is over: the one waited for goes on, or waits for one that
\* does.  identity_execution_guard sorts its keys and releases them in a finally clause.
WaitIsShort ==
  \A t \in Threads : Blocked(t) =>
    \/ GoesOn(Blocker(t))
    \/ Blocked(Blocker(t)) /\ GoesOn(Blocker(Blocker(t)))

\* A claimed job does not stay running.
RunningEnds == \A j \in Jobs : job[j].status = "running" ~> job[j].status # "running"

-----------------------------------------------------------------------------
(* The lease as the abstract specification sees it.                        *)

Holders(l) == {t \in Threads : req[t].lease = l /\ pc[t] \in {"claim", "call"}}

Grant(l) ==
  CASE calls[l] > 1 -> "overused"
    [] calls[l] = 1 -> "used"
    [] lease[l] = "none" -> "unissued"
    [] lease[l] = "active" -> "live"
    [] lease[l] \notin {"none", "active"} /\ calls[l] = 0 ->
         IF Holders(l) # {} THEN "taken" ELSE "void"

LG == INSTANCE LeaseGrant WITH grant <- [l \in Leases |-> Grant(l)]

\* The queue, the direct runtime and the lifecycle operations together treat a
\* lease as the abstract grant does.
ImplementsLeaseGrant == LG!GrantSpec
=============================================================================
