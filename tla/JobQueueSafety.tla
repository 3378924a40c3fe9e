--------------------------- MODULE JobQueueSafety ---------------------------
(* Theorems about the jobs of JobQueue: how often they are claimed, what a  *)
(* cancellation and a kill switch leave, the evidence of a success, and the *)
(* refinement of LeaseGrant.  First, what a step does to each thread and to *)
(* each job; the invariants follow from that, not from the actions.         *)
EXTENDS JobQueueProofs, FiniteSetTheorems

USE ConstantsAssumption

-----------------------------------------------------------------------------
(* What a step does to a thread.                                            *)

\* A request names what the handler of its operation writes and locks.
Faithful(r) ==
  /\ r.op = "process" => /\ r.lease = JobLease[r.job] /\ r.agent = JobAgent[r.job]
                         /\ r.keys = {JobKey(r.job)}
  /\ r.op = "kill" => r.env = None
  /\ r.op \in {"kill", "decide"} => /\ <<r.agent, "agentId">> \in r.keys
                                   /\ \A k \in r.keys : k[1] = r.agent

Executes == {"call", "saveRun", "saveTrace", "complete", "fail"}

Same(t) == pc'[t] = pc[t] /\ req'[t] = req[t] /\ snap'[t] = snap[t]
Ends(t) == pc'[t] = "idle" /\ req'[t] = NoReq /\ snap'[t] = NoJob

Starts(t) ==
  /\ pc[t] = "idle" /\ pc'[t] \in {"acquire", "identity", "saveCancel", "saveRetry"}
  /\ Faithful(req'[t])
  /\ \/ req'[t].op \in {"run", "kill", "decide"}
     \/ /\ req'[t].op = "process" /\ snap'[t] = snap[t] /\ pc'[t] = "acquire"
        /\ job[req'[t].job].status # "none"
     \/ /\ req'[t].op = "submit"
        /\ job[req'[t].job].status = "none"
        /\ \A u \in Threads : ~(req[u].op = "submit" /\ req[u].job = req'[t].job)
     \/ /\ req'[t].op \in {"cancel", "retry"} /\ snap'[t] = job[req'[t].job]
        /\ job[req'[t].job].status # "none"
        /\ req'[t].op = "retry" => job[req'[t].job].status = "failed"

\* A request goes on: where it comes from, and what it has made sure of.
Goes(t) ==
  /\ req'[t] = req[t] /\ pc[t] # "idle" /\ pc'[t] # "idle"
  /\ \/ snap'[t] = snap[t]
     \/ pc[t] = "recheck" /\ snap'[t] = job[req[t].job]
     \/ pc[t] = "claim" /\ pc'[t] = "call" /\ snap'[t].attempts = snap[t].attempts + 1
  /\ pc'[t] \in {"expire", "saveExpired", "consume"} => lease[req[t].lease] = "active" /\ Bound(t)
  /\ pc'[t] = "lease" => pc[t] = "identity" /\ Permits(req[t].agent, req[t].env)
  /\ pc'[t] = "consume" => pc[t] = "lease"
  /\ pc'[t] = "claim" => pc[t] = "consume" /\ lease[req[t].lease] = "active"
  /\ pc'[t] \in Executes /\ IsJob(t) => pc[t] \in Executes \cup {"claim"}
  /\ pc'[t] = "saveTrace" => Owner(t) \in runRecs'
  /\ pc'[t] = "complete" => pc[t] = "saveTrace" /\ Owner(t) \in traceRecs'
  /\ pc'[t] = "cancelJobs" /\ req[t].op = "kill" => ~identity'[req[t].agent].enabled

Served(t) == Same(t) \/ Ends(t) \/ Goes(t)
Moved(t) == Served(t) \/ Starts(t)

LEMMA OneMoves ==
  ASSUME ThreadInv, NEW t \in Threads, Served(t),
         \A u \in Threads : u # t => Same(u)
  PROVE  \A u \in Threads : Served(u)
  BY DEF Served

LEMMA Others ==
  ASSUME ThreadInv, NEW t \in Threads, NEW u \in Threads, u # t,
         \E label : Goto(t, label),
         UNCHANGED req \/ \E r : req' = [req EXCEPT ![t] = r],
         UNCHANGED snap \/ \E rec : snap' = [snap EXCEPT ![t] = rec]
  PROVE  Same(u)
  BY DEF Same, Goto, ThreadInv

LEMMA ReturnMoves ==
  ASSUME ThreadInv, NEW t \in Threads, Return(t)
  PROVE  \A u \in Threads : Served(u)
<1>1. Ends(t)
  BY DEF Ends, Return, Goto, ThreadInv
<1>2. \A u \in Threads : u # t => Same(u)
  BY Others DEF Return
<1>. QED  BY <1>1, <1>2, OneMoves DEF Served

\* A thread that goes on to a label that asks for nothing.
LEMMA GotoMoves ==
  ASSUME ThreadInv, NEW t \in Threads, NEW label, Goto(t, label), UNCHANGED req,
         UNCHANGED snap \/ (pc[t] = "recheck" /\ snap' = [snap EXCEPT ![t] = job[req[t].job]]),
         pc[t] # "idle", label # "idle",
         label \in {"expire", "saveExpired", "consume"} => lease[req[t].lease] = "active" /\ Bound(t),
         label = "lease" => pc[t] = "identity" /\ Permits(req[t].agent, req[t].env),
         label = "consume" => pc[t] = "lease",
         label = "claim" => pc[t] = "consume" /\ lease[req[t].lease] = "active",
         label \in Executes /\ IsJob(t) => pc[t] \in Executes \cup {"claim"},
         label = "saveTrace" => Owner(t) \in runRecs',
         label = "complete" => pc[t] = "saveTrace" /\ Owner(t) \in traceRecs',
         label = "cancelJobs" /\ req[t].op = "kill" => ~identity'[req[t].agent].enabled
  PROVE  \A u \in Threads : Served(u)
<1>1. pc'[t] = label /\ req'[t] = req[t]
  BY DEF Goto, ThreadInv
<1>2. snap'[t] = snap[t] \/ (pc[t] = "recheck" /\ snap'[t] = job[req[t].job])
  BY DEF ThreadInv
<1>3. Goes(t)
  BY <1>1, <1>2 DEF Goes
<1>4. \A u \in Threads : u # t => Same(u)
  BY Others
<1>. QED  BY <1>3, <1>4, OneMoves DEF Served

LEMMA RefuseMoves ==
  ASSUME ThreadInv, NEW t \in Threads, Refuse(t), pc[t] # "idle"
  PROVE  \A u \in Threads : Served(u)
<1>1. CASE IsJob(t)
  <2>1. Goto(t, "block") /\ UNCHANGED <<req, snap>>
    BY <1>1 DEF Refuse
  <2>. QED  BY <2>1, GotoMoves DEF Executes
<1>2. CASE ~IsJob(t)
  BY <1>2, ReturnMoves DEF Refuse
<1>. QED  BY <1>1, <1>2

LEMMA StepMoves ==
  ASSUME TypeInv, NEW t \in Threads, Step(t)
  PROVE  \A u \in Threads : Served(u)
<1>. USE DEF TypeInv
<1>1. ASSUME Acquire(t) PROVE \A u \in Threads : Served(u)
  <2>1. PICK label \in {"acquire", "recheck", "disable", "decide"} : Goto(t, label)
    BY <1>1, Serving, OpsAtValues DEF Acquire, Guarded
  <2>. QED  BY <1>1, <2>1, GotoMoves DEF Acquire, Executes
<1>2. ASSUME Recheck(t) PROVE \A u \in Threads : Served(u)
  <2>1. CASE Goto(t, "identity") /\ UNCHANGED req /\ snap' = [snap EXCEPT ![t] = job[req[t].job]]
    BY <1>2, <2>1, GotoMoves DEF Recheck, Executes
  <2>. QED  BY <1>2, <2>1, ReturnMoves DEF Recheck
<1>3. ASSUME CheckIdentity(t) PROVE \A u \in Threads : Served(u)
  <2>1. CASE Permits(req[t].agent, req[t].env)
    BY <1>3, <2>1, GotoMoves DEF CheckIdentity, Executes
  <2>. QED  BY <1>3, <2>1, RefuseMoves DEF CheckIdentity
<1>4. ASSUME CheckLease(t) PROVE \A u \in Threads : Served(u)
  <2>1. CASE lease[req[t].lease] = "active" /\ Bound(t)
    <3>1. PICK label \in {"expire", "saveExpired", "saveJob", "consume"} : Goto(t, label)
      BY <1>4, <2>1 DEF CheckLease
    <3>. QED  BY <1>4, <2>1, <3>1, GotoMoves DEF CheckLease, Executes
  <2>. QED  BY <1>4, <2>1, RefuseMoves DEF CheckLease
<1>5. ASSUME ExpireLease(t) PROVE \A u \in Threads : Served(u)
  BY <1>5, RefuseMoves DEF ExpireLease
<1>6. ASSUME ConsumeLease(t) PROVE \A u \in Threads : Served(u)
  <2>1. CASE lease[req[t].lease] = "active"
    <3>1. UNCHANGED <<req, snap>> /\ Goto(t, IF IsJob(t) THEN "claim" ELSE "call") /\ pc[t] = "consume"
      BY <1>6, <2>1 DEF ConsumeLease
    <3>2. CASE IsJob(t)
      BY <2>1, <3>1, <3>2, GotoMoves DEF Executes
    <3>3. CASE ~IsJob(t)
      BY <2>1, <3>1, <3>3, GotoMoves
    <3>. QED  BY <3>2, <3>3
  <2>. QED  BY <1>6, <2>1, RefuseMoves DEF ConsumeLease
<1>7. ASSUME ClaimJob(t) PROVE \A u \in Threads : Served(u)
  <2>1. CASE job[req[t].job].status = "queued"
    <3>1. /\ pc'[t] = "call" /\ pc[t] = "claim" /\ req' = req
          /\ snap' = [snap EXCEPT ![t].attempts = snap[t].attempts + 1]
      BY <1>7, <2>1 DEF ClaimJob, Goto, ThreadInv
    <3>2. snap'[t].attempts = snap[t].attempts + 1
      BY <3>1, Serving DEF ThreadInv, JobRecord
    <3>3. Goes(t)
      BY <3>1, <3>2 DEF Goes, Executes
    <3>4. \A u \in Threads : u # t => Same(u)
      BY <1>7, <2>1, <3>1 DEF ClaimJob, Goto, ThreadInv, Same
    <3>. QED  BY <3>3, <3>4, OneMoves DEF Served
  <2>. QED  BY <1>7, <2>1, ReturnMoves DEF ClaimJob
<1>8. ASSUME CallProvider(t) PROVE \A u \in Threads : Served(u)
  BY <1>8, GotoMoves DEF CallProvider, Executes
<1>9. ASSUME CallRaises(t) PROVE \A u \in Threads : Served(u)
  BY <1>9, GotoMoves, ReturnMoves DEF CallRaises, Executes
<1>10. ASSUME SaveRun(t) PROVE \A u \in Threads : Served(u)
  BY <1>10, GotoMoves DEF SaveRun, Executes
<1>11. ASSUME SaveTrace(t) PROVE \A u \in Threads : Served(u)
  BY <1>11, GotoMoves, ReturnMoves DEF SaveTrace, Executes
<1>12. ASSUME DisableIdentity(t) PROVE \A u \in Threads : Served(u)
  <2>1. req[t].agent \in Agents
    BY <1>12, Serving, OpsAtValues DEF DisableIdentity
  <2>2. ~identity'[req[t].agent].enabled
    BY <1>12, <2>1 DEF DisableIdentity, DataInv, IdentityRecord
  <2>. QED  BY <1>12, <2>2, GotoMoves DEF DisableIdentity, Executes
<1>13. ASSUME DecideProduction(t) PROVE \A u \in Threads : Served(u)
  <2>1. CASE Goto(t, "cancelJobs") /\ UNCHANGED <<guard, req, snap>>
    <3>1. req[t].op # "kill"
      BY <1>13, Serving, OpsAtValues DEF DecideProduction
    <3>. QED  BY <1>13, <2>1, <3>1, GotoMoves DEF DecideProduction, Executes
  <2>. QED  BY <1>13, <2>1, ReturnMoves DEF DecideProduction
<1>14. ASSUME \/ SaveExpiredLease(t) \/ BlockJob(t) \/ CompleteJob(t) \/ FailJob(t) \/ SubmitJob(t)
              \/ CancelJob(t) \/ RetryJob(t) \/ CancelAgentJobs(t)
       PROVE  \A u \in Threads : Served(u)
  <2>1. Return(t)
    BY <1>14 DEF SaveExpiredLease, BlockJob, CompleteJob, FailJob, SubmitJob, CancelJob, RetryJob,
                 CancelAgentJobs
  <2>. QED  BY <2>1, ReturnMoves
<1>. QED  BY <1>1, <1>2, <1>3, <1>4, <1>5, <1>6, <1>7, <1>8, <1>9, <1>10, <1>11, <1>12, <1>13, <1>14
          DEF Step

\* A step of one request leaves the others.
LEMMA StepOthers ==
  ASSUME TypeInv, NEW t \in Threads, Step(t), NEW u \in Threads, u # t
  PROVE  Same(u)
<1>1. UNCHANGED req \/ \E r : req' = [req EXCEPT ![t] = r]
  BY DEF Step, Acquire, Recheck, CheckIdentity, CheckLease, ExpireLease, SaveExpiredLease, ConsumeLease,
     BlockJob, ClaimJob, CallProvider, CallRaises, SaveRun, SaveTrace, CompleteJob, FailJob, SubmitJob,
     CancelJob, RetryJob, DisableIdentity, DecideProduction, CancelAgentJobs, Refuse, Return
<1>2. UNCHANGED snap \/ \E rec : snap' = [snap EXCEPT ![t] = rec]
  BY DEF Step, Acquire, Recheck, CheckIdentity, CheckLease, ExpireLease, SaveExpiredLease, ConsumeLease,
     BlockJob, ClaimJob, CallProvider, CallRaises, SaveRun, SaveTrace, CompleteJob, FailJob, SubmitJob,
     CancelJob, RetryJob, DisableIdentity, DecideProduction, CancelAgentJobs, Refuse, Return
<1>3. \E label : Goto(t, label)
  BY DEF Step, Acquire, Recheck, CheckIdentity, CheckLease, ExpireLease, SaveExpiredLease, ConsumeLease,
     BlockJob, ClaimJob, CallProvider, CallRaises, SaveRun, SaveTrace, CompleteJob, FailJob, SubmitJob,
     CancelJob, RetryJob, DisableIdentity, DecideProduction, CancelAgentJobs, Refuse, Return
<1>. QED  BY <1>1, <1>2, <1>3, Others DEF TypeInv

LEMMA ErrorOthers ==
  ASSUME TypeInv, NEW t \in Threads, StorageError(t), NEW u \in Threads, u # t
  PROVE  Same(u)
  BY Others DEF StorageError, Return, TypeInv

LEMMA BeginMoves ==
  ASSUME TypeInv, NEW t \in Threads, BeginStep(t)
  PROVE  Starts(t) /\ \A u \in Threads : u # t => Same(u)
<1>. USE DEF TypeInv
<1>0. ASSUME NEW op, NEW label, NEW r, Begin(t, op, label, r),
             UNCHANGED snap \/ \E rec : snap' = [snap EXCEPT ![t] = rec]
      PROVE  /\ pc[t] = "idle" /\ pc'[t] = label /\ req'[t] = r
             /\ \A u \in Threads : u # t => Same(u)
  BY <1>0, Others DEF Begin, Goto, ThreadInv
<1>1. ASSUME NEW j \in Jobs, BeginProcess(t, j) PROVE Starts(t) /\ \A u \in Threads : u # t => Same(u)
  <2>. DEFINE r == [JobReq("process", j) EXCEPT !.keys = {JobKey(j)}]
  <2>1. /\ r.op = "process" /\ r.job = j /\ r.lease = JobLease[j] /\ r.agent = JobAgent[j]
        /\ r.keys = {JobKey(j)}
    BY DEF JobReq, NoReq
  <2>2. Begin(t, "process", "acquire", r) /\ UNCHANGED snap /\ job[j].status # "none"
    BY <1>1 DEF BeginProcess
  <2>. HIDE DEF r
  <2>. QED  BY <1>0, <2>1, <2>2 DEF Starts, Faithful
<1>2. ASSUME NEW j \in Jobs, BeginSubmit(t, j) PROVE Starts(t) /\ \A u \in Threads : u # t => Same(u)
  <2>1. JobReq("submit", j).op = "submit" /\ JobReq("submit", j).job = j
    BY DEF JobReq, NoReq
  <2>. QED  BY <1>0, <1>2, <2>1 DEF BeginSubmit, Starts, Faithful
<1>3. ASSUME NEW j \in Jobs, NEW op \in {"cancel", "retry"}, NEW label \in {"saveCancel", "saveRetry"},
             Begin(t, op, label, [NoReq EXCEPT !.op = op, !.job = j]), snap' = [snap EXCEPT ![t] = job[j]],
             job[j].status # "none", op = "retry" => job[j].status = "failed"
      PROVE  Starts(t) /\ \A u \in Threads : u # t => Same(u)
  <2>. DEFINE r == [NoReq EXCEPT !.op = op, !.job = j]
  <2>1. r.op = op /\ r.job = j
    BY DEF NoReq
  <2>2. snap'[t] = job[j]
    BY <1>3 DEF ThreadInv
  <2>3. Begin(t, op, label, r)
    BY <1>3
  <2>. HIDE DEF r
  <2>4. pc[t] = "idle" /\ pc'[t] = label /\ req'[t] = r
    BY <1>0, <1>3, <2>3
  <2>5. Starts(t)
    BY <1>3, <2>1, <2>2, <2>4 DEF Starts, Faithful
  <2>. QED  BY <1>0, <1>3, <2>3, <2>5
<1>4. ASSUME NEW j \in Jobs, BeginCancel(t, j) PROVE Starts(t) /\ \A u \in Threads : u # t => Same(u)
  BY <1>3, <1>4 DEF BeginCancel
<1>5. ASSUME NEW j \in Jobs, BeginRetry(t, j) PROVE Starts(t) /\ \A u \in Threads : u # t => Same(u)
  BY <1>3, <1>5 DEF BeginRetry
<1>6. ASSUME NEW l \in Leases, BeginRun(t, l) PROVE Starts(t) /\ \A u \in Threads : u # t => Same(u)
  <2>1. [NoReq EXCEPT !.op = "run", !.lease = l, !.agent = LeaseAgent[l], !.env = LeaseEnv[l]].op = "run"
    BY DEF NoReq
  <2>. QED  BY <1>0, <1>6, <2>1 DEF BeginRun, Starts, Faithful
<1>7. ASSUME NEW a \in Agents, NEW form \in Forms, BeginKill(t, a, form)
      PROVE  Starts(t) /\ \A u \in Threads : u # t => Same(u)
  <2>. DEFINE r == [NoReq EXCEPT !.op = "kill", !.agent = a, !.keys = Aliases(a, form)]
  <2>1. r.op = "kill" /\ r.agent = a /\ r.env = None /\ r.keys = Aliases(a, form)
    BY DEF NoReq
  <2>2. <<a, "agentId">> \in Aliases(a, form) /\ \A k \in Aliases(a, form) : k[1] = a
    BY DEF Aliases
  <2>3. Begin(t, "kill", "acquire", r) /\ UNCHANGED snap
    BY <1>7 DEF BeginKill
  <2>. HIDE DEF r
  <2>. QED  BY <1>0, <2>1, <2>2, <2>3 DEF Starts, Faithful
<1>8. ASSUME NEW a \in Agents, NEW approve \in BOOLEAN, BeginDecide(t, a, approve)
      PROVE  Starts(t) /\ \A u \in Threads : u # t => Same(u)
  <2>. DEFINE r == [NoReq EXCEPT !.op = "decide", !.agent = a, !.env = "prod",
                                 !.keys = Aliases(a, "identityId"), !.approve = approve]
  <2>1. r.op = "decide" /\ r.agent = a /\ r.keys = Aliases(a, "identityId")
    BY DEF NoReq
  <2>2. <<a, "agentId">> \in Aliases(a, "identityId") /\ \A k \in Aliases(a, "identityId") : k[1] = a
    BY DEF Aliases
  <2>3. Begin(t, "decide", "acquire", r) /\ UNCHANGED snap
    BY <1>8 DEF BeginDecide
  <2>. HIDE DEF r
  <2>. QED  BY <1>0, <2>1, <2>2, <2>3 DEF Starts, Faithful
<1>. QED  BY <1>1, <1>2, <1>4, <1>5, <1>6, <1>7, <1>8 DEF BeginStep, BeginProcessNext

\* Every thread stays, ends or goes on, or one starts.
LEMMA NextServes ==
  ASSUME TypeInv, Next
  PROVE  \/ \A u \in Threads : Served(u)
         \/ \E t \in Threads : Starts(t) /\ \A u \in Threads : u # t => Same(u)
<1>. USE DEF TypeInv
<1>1. ASSUME NEW t \in Threads, StorageError(t) PROVE \A u \in Threads : Served(u)
  <2>1. CASE Goto(t, "fail") /\ IsJob(t) /\ pc[t] \in {"saveRun", "saveTrace", "complete"} /\ UNCHANGED <<req, snap>>
    BY <2>1, GotoMoves DEF Executes
  <2>. QED  BY <1>1, <2>1, ReturnMoves DEF StorageError
<1>2. ASSUME NEW p \in Procs, Crash(p) PROVE \A u \in Threads : Served(u)
  BY <1>2 DEF Crash, Served, Same, Ends
<1>3. CASE RecordStep
  BY <1>3 DEF RecordStep, IssueLease, TimePasses, RequestProduction, PatchIdentity, threads, Served, Same
<1>. QED  BY <1>1, <1>2, <1>3, StepMoves, BeginMoves DEF Next

LEMMA NextMoves ==
  ASSUME TypeInv, Next
  PROVE  \A u \in Threads : Moved(u)
  BY NextServes DEF Moved, Served

LEMMA OneStarts ==
  ASSUME TypeInv, Next
  PROVE  \A t, u \in Threads : Starts(t) /\ Starts(u) => t = u
  BY NextServes DEF Served, Same, Ends, Goes, Starts

-----------------------------------------------------------------------------
(* What a step does to a job.                                               *)

Blocks(j) == /\ job[j].status = "queued" /\ job'[j].status = "blocked"
             /\ job'[j].attempts = job[j].attempts

Claims(t, j) ==
  /\ pc[t] = "claim" /\ req[t].job = j /\ pc'[t] = "call" /\ req'[t] = req[t]
  /\ job[j].status = "queued" /\ job'[j].status = "running"
  /\ job'[j].attempts = snap[t].attempts + 1

Completes(t, j) ==
  /\ pc[t] = "complete" /\ req[t].job = j
  /\ job[j].status = "running" /\ job'[j].status \in {"succeeded", "blocked"}
  /\ job'[j].attempts = job[j].attempts /\ job'[j].run

Fails(j) ==
  /\ job[j].status = "running" /\ job'[j].status \in {"queued", "failed"}
  /\ job'[j].attempts = job[j].attempts

Submits(t, j) ==
  /\ pc[t] = "saveJob" /\ req[t].job = j /\ Ends(t)
  /\ job'[j].status = "queued" /\ job'[j].attempts = 0

Cancels(t, j) ==
  /\ pc[t] = "saveCancel" /\ req[t].job = j
  /\ job'[j].status = "cancelled" /\ job'[j].attempts = snap[t].attempts

Retries(t, j) ==
  /\ pc[t] = "saveRetry" /\ req[t].job = j
  /\ job'[j].status = "queued" /\ job'[j].attempts = snap[t].attempts

Stops(j) == /\ job[j].status \in {"queued", "running"} /\ job'[j].status = "cancelled"
            /\ job'[j].attempts = job[j].attempts

Written(j) ==
  \/ Blocks(j) \/ Fails(j) \/ Stops(j)
  \/ \E t \in Threads : Claims(t, j) \/ Completes(t, j) \/ Submits(t, j) \/ Cancels(t, j) \/ Retries(t, j)

\* The jobs a step writes, and the history of cancellations and kill switches.
JobWrites ==
  /\ \A j \in Jobs : job'[j] = job[j] \/ Written(j)
  /\ wasCancelled \subseteq wasCancelled'
  /\ \A j \in wasCancelled' \ wasCancelled : job'[j].status = "cancelled"
  /\ killed \subseteq killed'
  /\ \A k \in killed' \ killed :
       \E t \in Threads : /\ pc[t] = "cancelJobs" /\ req[t].op = "kill" /\ k \in req[t].keys
                          /\ req[t].env = None => \A j \in Jobs : JobKey(j) = k => job'[j].status \notin {"queued", "running"}

LEMMA NoWrites ==
  ASSUME UNCHANGED <<job, killed, wasCancelled>>
  PROVE  JobWrites
  BY DEF JobWrites

LEMMA OneWrite ==
  ASSUME DataInv, NEW j \in Jobs, NEW rec, SetJob(j, rec), UNCHANGED <<killed, wasCancelled>>,
         job'[j] = job[j] \/ Written(j)
  PROVE  JobWrites
  BY DEF JobWrites, SetJob, DataInv

\* The fields of a record that is written.
LEMMA Fields ==
  ASSUME NEW r \in JobRecord, NEW s, NEW n, NEW b
  PROVE  /\ [r EXCEPT !.status = s].status = s /\ [r EXCEPT !.status = s].attempts = r.attempts
         /\ [r EXCEPT !.status = s, !.run = b].status = s
         /\ [r EXCEPT !.status = s, !.run = b].attempts = r.attempts
         /\ [r EXCEPT !.status = s, !.run = b].run = b
         /\ [r EXCEPT !.status = s, !.attempts = n].status = s
         /\ [r EXCEPT !.status = s, !.attempts = n].attempts = n
  BY DEF JobRecord

LEMMA StepWrites ==
  ASSUME TypeInv, NEW t \in Threads, Step(t)
  PROVE  JobWrites
<1>. USE DEF TypeInv
<1>0. ASSUME NEW j \in Jobs, NEW from, NEW rec, CompareAndSetJob(j, from, rec)
      PROVE  /\ \E r : SetJob(j, r)
             /\ job'[j] = IF job[j].status = from THEN rec ELSE job[j]
  BY <1>0 DEF CompareAndSetJob, SetJob, DataInv
<1>1. ASSUME BlockJob(t) PROVE JobWrites
  <2>. DEFINE j == req[t].job
  <2>1. j \in Jobs /\ job[j] \in JobRecord
    BY <1>1, JobServed DEF BlockJob, DataInv
  <2>2. /\ CompareAndSetJob(j, "queued", [job[j] EXCEPT !.status = "blocked"])
        /\ UNCHANGED <<killed, wasCancelled>>
    BY <1>1 DEF BlockJob, history
  <2>3. job'[j] = job[j] \/ Blocks(j)
    <3>1. job'[j] = IF job[j].status = "queued" THEN [job[j] EXCEPT !.status = "blocked"] ELSE job[j]
      BY <1>0, <2>1, <2>2
    <3>. QED  BY <2>1, <2>2, <3>1, Fields DEF Blocks
  <2>. QED  BY <1>0, <2>1, <2>2, <2>3, OneWrite DEF Written
<1>2. ASSUME ClaimJob(t), job[req[t].job].status = "queued" PROVE JobWrites
  <2>. DEFINE j == req[t].job
  <2>1. j \in Jobs /\ job[j] \in JobRecord
    BY <1>2, JobServed DEF ClaimJob, DataInv
  <2>2. /\ SetJob(j, [job[j] EXCEPT !.status = "running", !.attempts = snap[t].attempts + 1])
        /\ pc[t] = "claim" /\ pc'[t] = "call" /\ req' = req /\ UNCHANGED <<killed, wasCancelled>>
    BY <1>2 DEF ClaimJob, Goto, ThreadInv, history
  <2>3. job'[j] = [job[j] EXCEPT !.status = "running", !.attempts = snap[t].attempts + 1]
    BY <2>1, <2>2 DEF SetJob, DataInv
  <2>4. Claims(t, j)
    BY <1>2, <2>1, <2>2, <2>3, Fields DEF Claims
  <2>. QED  BY <2>1, <2>2, <2>4, OneWrite DEF Written
<1>3. ASSUME CompleteJob(t) PROVE JobWrites
  <2>. DEFINE j == req[t].job
  <2>1. j \in Jobs /\ job[j] \in JobRecord
    BY <1>3, JobServed DEF CompleteJob, DataInv
  <2>2. PICK s \in {"succeeded", "blocked"} :
          /\ CompareAndSetJob(j, "running", [job[j] EXCEPT !.status = s, !.run = TRUE])
          /\ UNCHANGED <<killed, wasCancelled>> /\ pc[t] = "complete"
    BY <1>3 DEF CompleteJob, history
  <2>3. job'[j] = job[j] \/ Completes(t, j)
    <3>1. job'[j] = IF job[j].status = "running" THEN [job[j] EXCEPT !.status = s, !.run = TRUE] ELSE job[j]
      BY <1>0, <2>1, <2>2
    <3>. QED  BY <2>1, <2>2, <3>1, Fields DEF Completes
  <2>. QED  BY <1>0, <2>1, <2>2, <2>3, OneWrite DEF Written
<1>4. ASSUME FailJob(t) PROVE JobWrites
  <2>. DEFINE j == req[t].job
  <2>1. j \in Jobs /\ job[j] \in JobRecord
    BY <1>4, JobServed DEF FailJob, DataInv
  <2>2. PICK s \in {"queued", "failed"} :
          /\ CompareAndSetJob(j, "running", [job[j] EXCEPT !.status = s])
          /\ UNCHANGED <<killed, wasCancelled>>
    BY <1>4 DEF FailJob, history
  <2>3. job'[j] = job[j] \/ Fails(j)
    <3>1. job'[j] = IF job[j].status = "running" THEN [job[j] EXCEPT !.status = s] ELSE job[j]
      BY <1>0, <2>1, <2>2
    <3>. QED  BY <2>1, <2>2, <3>1, Fields DEF Fails
  <2>. QED  BY <1>0, <2>1, <2>2, <2>3, OneWrite DEF Written
<1>5. ASSUME SubmitJob(t) PROVE JobWrites
  <2>. DEFINE j == req[t].job
  <2>1. j \in Jobs
    BY <1>5, JobServed DEF SubmitJob
  <2>2. SetJob(j, [NoJob EXCEPT !.status = "queued"]) /\ pc[t] = "saveJob" /\ UNCHANGED <<killed, wasCancelled>>
    BY <1>5 DEF SubmitJob, history
  <2>3. job'[j].status = "queued" /\ job'[j].attempts = 0
    BY <2>1, <2>2 DEF SetJob, DataInv, NoJob
  <2>4. Ends(t)
    BY <1>5 DEF SubmitJob, Return, Goto, Ends, ThreadInv
  <2>. QED  BY <2>1, <2>2, <2>3, <2>4, OneWrite DEF Written, Submits
<1>6. ASSUME CancelJob(t) PROVE JobWrites
  <2>. DEFINE j == req[t].job
  <2>1. j \in Jobs /\ snap[t] \in JobRecord
    BY <1>6, JobServed, Serving DEF CancelJob
  <2>2. /\ SetJob(j, [snap[t] EXCEPT !.status = "cancelled"]) /\ pc[t] = "saveCancel"
        /\ wasCancelled' = wasCancelled \cup {j} /\ UNCHANGED killed
    BY <1>6 DEF CancelJob
  <2>3. job'[j] = [snap[t] EXCEPT !.status = "cancelled"] /\ \A i \in Jobs : i # j => job'[i] = job[i]
    BY <2>1, <2>2 DEF SetJob, DataInv
  <2>4. Cancels(t, j)
    BY <2>1, <2>2, <2>3, Fields DEF Cancels
  <2>. QED  BY <2>2, <2>3, <2>4 DEF JobWrites, Written, Cancels
<1>7. ASSUME RetryJob(t) PROVE JobWrites
  <2>. DEFINE j == req[t].job
  <2>1. j \in Jobs /\ snap[t] \in JobRecord
    BY <1>7, JobServed, Serving DEF RetryJob
  <2>2. /\ SetJob(j, [snap[t] EXCEPT !.status = "queued", !.run = FALSE]) /\ pc[t] = "saveRetry"
        /\ UNCHANGED <<killed, wasCancelled>>
    BY <1>7 DEF RetryJob, history
  <2>3. job'[j] = [snap[t] EXCEPT !.status = "queued", !.run = FALSE]
    BY <2>1, <2>2 DEF SetJob, DataInv
  <2>4. Retries(t, j)
    BY <2>1, <2>2, <2>3, Fields DEF Retries
  <2>. QED  BY <2>1, <2>2, <2>4, OneWrite DEF Written
<1>8. ASSUME CancelAgentJobs(t) PROVE JobWrites
  <2>1. \A j \in Jobs : IF j \in Affected(t)
                        THEN job'[j].status = "cancelled" /\ job'[j].attempts = job[j].attempts
                        ELSE job'[j] = job[j]
    <3>1. SUFFICES ASSUME NEW j \in Jobs
          PROVE  IF j \in Affected(t) THEN job'[j].status = "cancelled" /\ job'[j].attempts = job[j].attempts
                                      ELSE job'[j] = job[j]
      OBVIOUS
    <3>2. job[j] \in JobRecord
      BY DEF DataInv
    <3>3. job'[j] = IF j \in Affected(t) THEN [job[j] EXCEPT !.status = "cancelled"] ELSE job[j]
      BY <1>8 DEF CancelAgentJobs
    <3>. QED  BY <3>2, <3>3, Fields
  <2>2. \A j \in Affected(t) : Stops(j)
    BY <2>1 DEF Affected, Stops
  <2>3. /\ pc[t] = "cancelJobs" /\ wasCancelled' = wasCancelled \cup Affected(t)
        /\ killed' = IF req[t].op = "kill" THEN killed \cup req[t].keys ELSE killed
    BY <1>8 DEF CancelAgentJobs
  <2>4. \A j \in Jobs : JobKey(j) \in req[t].keys /\ req[t].env = None
                         => job'[j].status \notin {"queued", "running"}
    BY <2>1 DEF Affected
  <2>5. \A j \in Jobs : job'[j] = job[j] \/ Written(j)
    BY <2>1, <2>2 DEF Written
  <2>6. \A j \in wasCancelled' \ wasCancelled : job'[j].status = "cancelled"
    BY <2>1, <2>3 DEF Affected
  <2>. QED  BY <2>3, <2>4, <2>5, <2>6 DEF JobWrites
<1>9. ASSUME ~BlockJob(t), ~(ClaimJob(t) /\ job[req[t].job].status = "queued"), ~CompleteJob(t), ~FailJob(t),
             ~SubmitJob(t), ~CancelJob(t), ~RetryJob(t), ~CancelAgentJobs(t)
      PROVE  JobWrites
  <2>1. UNCHANGED <<job, killed, wasCancelled>>
    BY <1>9 DEF Step, database, history, Acquire, Recheck, CheckIdentity, CheckLease, ExpireLease,
       SaveExpiredLease, ConsumeLease, ClaimJob, CallProvider, CallRaises, SaveRun, SaveTrace,
       DisableIdentity, DecideProduction
  <2>. QED  BY <2>1, NoWrites
<1>. QED  BY <1>1, <1>2, <1>3, <1>4, <1>5, <1>6, <1>7, <1>8, <1>9

\* Only the steps of a request write jobs.
LEMMA NextWrites ==
  ASSUME TypeInv, Next
  PROVE  JobWrites
<1>1. ASSUME ~\E t \in Threads : Step(t) PROVE UNCHANGED <<job, killed, wasCancelled>>
  BY <1>1 DEF Next, BeginStep, BeginProcessNext, BeginProcess, BeginSubmit, BeginCancel, BeginRetry,
     BeginRun, BeginKill, BeginDecide, StorageError, Crash, RecordStep, IssueLease, TimePasses,
     RequestProduction, PatchIdentity, database, history
<1>. QED  BY <1>1, StepWrites, NoWrites

-----------------------------------------------------------------------------
(* A job is claimed at most once, and not at all after a cancellation that   *)
(* follows the claim.  The claim needs a lease that it finds unspent; once   *)
(* the lease is spent and no thread is about to claim with it, the job is    *)
(* closed for ever, whatever old record a retry or a cancellation saves.     *)

Closed(j) ==
  /\ ~Unspent(JobLease[j])
  /\ \A t \in Threads : pc[t] = "claim" => req[t].lease # JobLease[j]

\* What a thread's request and the record it read say.
RequestInv ==
  \A t \in Threads :
    /\ Faithful(req[t])
    /\ pc[t] = "idle" => snap[t] = NoJob
    /\ \A j \in Jobs : req[t].job = j =>
         /\ req[t].op \in {"process", "cancel", "retry"} =>
              /\ job[j].status # "none"
              /\ snap[t].attempts <= 1
              /\ snap[t].attempts > 0 => Closed(j)
         /\ req[t].op = "retry" => Closed(j)
         /\ req[t].op = "submit" =>
              /\ job[j].status = "none"
              /\ \A u \in Threads : req[u].op = "submit" /\ req[u].job = j => u = t

RecordInv ==
  \A j \in Jobs :
    /\ job[j].attempts <= 1
    /\ job[j].attempts > 0 \/ job[j].status \in {"running", "succeeded", "failed"} => Closed(j)
    /\ j \in wasCancelled => /\ job[j].status \in {"cancelled", "queued", "blocked"}
                             /\ job[j].status = "queued" => Closed(j)

ClaimInv == TypeInv /\ AuthorityInv /\ RequestInv /\ RecordInv

LEMMA UnspentStays ==
  ASSUME TypeInv, Next
  PROVE  \A l \in Leases : Unspent(l)' => Unspent(l)
<1>1. ASSUME NEW t \in Threads, ConsumeLease(t) PROVE \A l \in Leases : Unspent(l)' => Unspent(l)
  <2>1. SetLease(req[t].lease, "consumed") \/ UNCHANGED lease
    BY <1>1 DEF ConsumeLease
  <2>. QED  BY <2>1 DEF SetLease, Unspent, TypeInv, DataInv
<1>2. ASSUME NEW t \in Threads, CallProvider(t) \/ CallRaises(t)
      PROVE  \A l \in Leases : Unspent(l)' => Unspent(l)
  BY <1>2 DEF CallProvider, CallRaises, database, Unspent
<1>3. ASSUME NEW t \in Threads, Step(t) PROVE \A l \in Leases : Unspent(l)' => Unspent(l)
  BY <1>1, <1>2, <1>3, StepQuiet DEF Quiet
<1>. QED  BY <1>3, BeginStepQuiet, FaultQuiet, RecordQuiet DEF Next, Quiet

\* No thread newly gets to the claim with a lease that is spent.
LEMMA CloseNext ==
  ASSUME TypeInv, Next, NEW j \in Jobs, ~Unspent(JobLease[j]),
         \A t \in Threads : pc[t] = "claim" /\ req[t].lease = JobLease[j] => pc'[t] # "claim"
  PROVE  Closed(j)'
<1>1. JobLease[j] \in Leases
  OBVIOUS
<1>2. ~Unspent(JobLease[j])'
  BY <1>1, UnspentStays
<1>3. SUFFICES ASSUME NEW t \in Threads, pc'[t] = "claim", req'[t].lease = JobLease[j]
      PROVE  FALSE
  BY <1>2 DEF Closed
<1>4. Moved(t)
  BY NextMoves
<1>. QED  BY <1>3, <1>4 DEF Moved, Served, Same, Ends, Starts, Goes, Unspent

LEMMA ClosedStays ==
  ASSUME TypeInv, Next, NEW j \in Jobs, Closed(j)
  PROVE  Closed(j)'
  BY CloseNext DEF Closed

\* The thread that claims a job is the one that has its lease.
LEMMA ClaimCloses ==
  ASSUME ClaimInv, Next, NEW j \in Jobs, NEW t \in Threads,
         pc[t] = "claim", pc'[t] # "claim", req[t].job = j
  PROVE  ~Closed(j) /\ Closed(j)' /\ snap[t].attempts = 0
<1>1. req[t].op = "process" /\ req[t].lease = JobLease[j] /\ pc[t] = "claim"
  <2>1. req[t].op = "process"
    BY Serving, OpsAtValues DEF ClaimInv, TypeInv
  <2>2. Faithful(req[t])
    BY DEF ClaimInv, RequestInv
  <2>. QED  BY <2>1, <2>2 DEF Faithful
<1>2. ~Closed(j)
  BY <1>1 DEF Closed
<1>3. snap[t].attempts = 0
  BY <1>1, <1>2, Serving DEF ClaimInv, TypeInv, RequestInv, JobRecord
<1>4. Holds(t, JobLease[j]) /\ JobLease[j] \in Leases
  BY <1>1 DEF Holds
<1>5. ~Unspent(JobLease[j])
  BY <1>4 DEF ClaimInv, AuthorityInv
<1>6. \A u \in Threads : pc[u] = "claim" /\ req[u].lease = JobLease[j] => pc'[u] # "claim"
  <2>1. \A u \in Threads : Holds(u, JobLease[j]) => u = t
    BY <1>4 DEF ClaimInv, AuthorityInv
  <2>. QED  BY <2>1 DEF Holds
<1>7. Closed(j)'
  BY <1>5, <1>6, CloseNext DEF ClaimInv
<1>. QED  BY <1>2, <1>3, <1>7

LEMMA RecordsKeep ==
  ASSUME ClaimInv, Next
  PROVE  RecordInv'
<1>1. SUFFICES ASSUME NEW j \in Jobs
      PROVE  /\ job'[j].attempts <= 1
             /\ job'[j].attempts > 0 \/ job'[j].status \in {"running", "succeeded", "failed"} => Closed(j)'
             /\ j \in wasCancelled' => /\ job'[j].status \in {"cancelled", "queued", "blocked"}
                                       /\ job'[j].status = "queued" => Closed(j)'
  BY DEF RecordInv
<1>2. JobWrites
  BY NextWrites DEF ClaimInv
<1>3. Closed(j) => Closed(j)'
  BY ClosedStays DEF ClaimInv
<1>4. /\ job[j].attempts \in Nat /\ job[j].attempts <= 1
      /\ job[j].attempts > 0 \/ job[j].status \in {"running", "succeeded", "failed"} => Closed(j)
      /\ j \in wasCancelled => /\ job[j].status \in {"cancelled", "queued", "blocked"}
                               /\ job[j].status = "queued" => Closed(j)
  BY DEF ClaimInv, RecordInv, TypeInv, DataInv, JobRecord
<1>5. j \in wasCancelled' => j \in wasCancelled \/ job'[j].status = "cancelled"
  BY <1>2 DEF JobWrites
<1>6. CASE job'[j] = job[j]
  BY <1>3, <1>4, <1>5, <1>6
<1>7. CASE Blocks(j) \/ Stops(j)
  BY <1>3, <1>4, <1>5, <1>7 DEF Blocks, Stops
<1>8. CASE Fails(j)
  BY <1>3, <1>4, <1>5, <1>8 DEF Fails
<1>9. ASSUME NEW t \in Threads, Claims(t, j)
      PROVE  /\ job'[j].attempts = 1 /\ job'[j].status = "running" /\ Closed(j)' /\ j \notin wasCancelled'
  BY <1>4, <1>5, <1>9, ClaimCloses DEF Claims
<1>10. ASSUME NEW t \in Threads, Completes(t, j)
       PROVE  /\ job'[j].attempts <= 1 /\ Closed(j)' /\ j \notin wasCancelled'
  BY <1>3, <1>4, <1>5, <1>10 DEF Completes
<1>11. ASSUME NEW t \in Threads, Submits(t, j)
       PROVE  job'[j].attempts = 0 /\ job'[j].status = "queued" /\ j \notin wasCancelled'
  <2>1. req[t].op = "submit" /\ req[t].job = j
    BY <1>11, Serving, OpsAtValues DEF Submits, ClaimInv, TypeInv
  <2>2. job[j].status = "none"
    BY <2>1 DEF ClaimInv, RequestInv
  <2>. QED  BY <1>4, <1>5, <1>11, <2>2 DEF Submits
<1>12. ASSUME NEW t \in Threads, Cancels(t, j) \/ Retries(t, j)
       PROVE  /\ job'[j].attempts \in Nat /\ job'[j].attempts <= 1
              /\ job'[j].attempts > 0 => Closed(j)'
              /\ job'[j].status = "cancelled" \/ (job'[j].status = "queued" /\ Closed(j)')
  <2>1. req[t].op = (IF Cancels(t, j) THEN "cancel" ELSE "retry") /\ req[t].job = j
    BY <1>12, Serving, OpsAtValues DEF Cancels, Retries, ClaimInv, TypeInv
  <2>2. /\ snap[t].attempts \in Nat /\ snap[t].attempts <= 1
        /\ snap[t].attempts > 0 => Closed(j)
        /\ req[t].op = "retry" => Closed(j)
    BY <2>1, Serving DEF ClaimInv, RequestInv, TypeInv, JobRecord
  <2>. QED  BY <1>3, <1>12, <2>1, <2>2 DEF Cancels, Retries
<1>13. \/ job'[j] = job[j] \/ Blocks(j) \/ Fails(j) \/ Stops(j)
       \/ \E t \in Threads : Claims(t, j) \/ Completes(t, j) \/ Submits(t, j) \/ Cancels(t, j) \/ Retries(t, j)
  BY <1>2 DEF JobWrites, Written
<1>14. CASE \E t \in Threads : Claims(t, j)
  BY <1>9, <1>14
<1>15. CASE \E t \in Threads : Completes(t, j)
  <2>1. job'[j].status \in {"succeeded", "blocked"}
    BY <1>15 DEF Completes
  <2>. QED  BY <1>10, <1>15, <2>1
<1>16. CASE \E t \in Threads : Submits(t, j)
  BY <1>11, <1>16
<1>17. CASE \E t \in Threads : Cancels(t, j) \/ Retries(t, j)
  BY <1>5, <1>12, <1>17
<1>. QED  BY <1>6, <1>7, <1>8, <1>13, <1>14, <1>15, <1>16, <1>17

\* A stored job stays stored; only its submission stores it.
LEMMA JobStays ==
  ASSUME ClaimInv, Next, NEW j \in Jobs
  PROVE  /\ job[j].status # "none" => job'[j].status # "none"
         /\ job'[j].status # job[j].status /\ job[j].status = "none" =>
              \E t \in Threads : req[t].op = "submit" /\ req[t].job = j /\ Ends(t)
<1>1. job'[j] = job[j] \/ Written(j)
  BY NextWrites DEF JobWrites, ClaimInv
<1>2. ASSUME NEW t \in Threads, Submits(t, j)
      PROVE  req[t].op = "submit" /\ req[t].job = j /\ Ends(t)
  BY <1>2, Serving, OpsAtValues DEF Submits, ClaimInv, TypeInv
<1>3. ASSUME NEW t \in Threads, Cancels(t, j) \/ Retries(t, j) PROVE job[j].status # "none"
  <2>1. req[t].op \in {"cancel", "retry"} /\ req[t].job = j
    BY <1>3, Serving, OpsAtValues DEF Cancels, Retries, ClaimInv, TypeInv
  <2>. QED  BY <2>1 DEF ClaimInv, RequestInv
<1>. QED  BY <1>1, <1>2, <1>3
          DEF Written, Blocks, Fails, Stops, Claims, Completes, Submits, Cancels, Retries

LEMMA RequestsKeep ==
  ASSUME ClaimInv, Next
  PROVE  RequestInv'
<1>. USE DEF ClaimInv
<1>1. SUFFICES ASSUME NEW t \in Threads
      PROVE  /\ Faithful(req'[t])
             /\ pc'[t] = "idle" => snap'[t] = NoJob
             /\ \A j \in Jobs : req'[t].job = j =>
                  /\ req'[t].op \in {"process", "cancel", "retry"} =>
                       /\ job'[j].status # "none"
                       /\ snap'[t].attempts <= 1
                       /\ snap'[t].attempts > 0 => Closed(j)'
                  /\ req'[t].op = "retry" => Closed(j)'
                  /\ req'[t].op = "submit" =>
                       /\ job'[j].status = "none"
                       /\ \A u \in Threads : req'[u].op = "submit" /\ req'[u].job = j => u = t
  BY DEF RequestInv, Faithful
<1>2. Moved(t) /\ \A u \in Threads : Moved(u)
  BY NextMoves
<1>3. Faithful(NoReq) /\ NoReq.op = None /\ None \notin Ops
  BY DEF NoReq, Faithful, Ops
<1>4. Faithful(req'[t]) /\ (pc'[t] = "idle" => snap'[t] = NoJob)
  BY <1>2, <1>3 DEF Moved, Served, Same, Ends, Starts, Goes, RequestInv
<1>5. SUFFICES ASSUME NEW j \in Jobs, req'[t].job = j
      PROVE  /\ req'[t].op \in {"process", "cancel", "retry"} =>
                  /\ job'[j].status # "none"
                  /\ snap'[t].attempts <= 1
                  /\ snap'[t].attempts > 0 => Closed(j)'
             /\ req'[t].op = "retry" => Closed(j)'
             /\ req'[t].op = "submit" =>
                  /\ job'[j].status = "none"
                  /\ \A u \in Threads : req'[u].op = "submit" /\ req'[u].job = j => u = t
  BY <1>4
<1>6. Closed(j) => Closed(j)'
  BY ClosedStays
<1>7. /\ job[j].attempts \in Nat /\ job[j].attempts <= 1
      /\ job[j].attempts > 0 \/ job[j].status \in {"running", "succeeded", "failed"} => Closed(j)
  BY DEF RecordInv, TypeInv, DataInv, JobRecord
<1>8. NoJob.attempts = 0 /\ snap[t].attempts \in Nat
  BY Serving DEF NoJob, TypeInv, JobRecord
<1>9. CASE Ends(t)
  BY <1>3, <1>9 DEF Ends, Ops
<1>10. CASE req'[t] = req[t] /\ req[t].op \in {"process", "cancel", "retry"} /\ (Same(t) \/ Goes(t))
  <2>1. /\ job'[j].status # "none" /\ (req[t].op = "retry" => Closed(j)')
    BY <1>5, <1>6, <1>10, JobStays DEF RequestInv
  <2>2. snap[t].attempts <= 1 /\ (snap[t].attempts > 0 => Closed(j)')
    BY <1>5, <1>6, <1>10 DEF RequestInv
  <2>3. CASE snap'[t] = snap[t]
    BY <1>10, <2>1, <2>2, <2>3
  <2>4. CASE snap'[t] = job[j]
    BY <1>6, <1>7, <1>10, <2>1, <2>4
  <2>5. CASE pc[t] = "claim" /\ pc'[t] = "call" /\ snap'[t].attempts = snap[t].attempts + 1
    <3>1. Closed(j)' /\ snap[t].attempts = 0
      BY <1>5, <1>10, <2>5, ClaimCloses
    <3>. QED  BY <1>10, <2>1, <2>5, <3>1
  <2>. QED  BY <1>5, <1>10, <2>3, <2>4, <2>5 DEF Same, Goes
<1>11. CASE req'[t] = req[t] /\ req[t].op = "submit" /\ (Same(t) \/ Goes(t))
  <2>1. job[j].status = "none" /\ \A u \in Threads : req[u].op = "submit" /\ req[u].job = j => u = t
    BY <1>5, <1>11 DEF RequestInv
  <2>2. ~Ends(t)
    BY <1>3, <1>11 DEF Ends, Ops
  <2>3. job'[j].status = "none"
    BY <2>1, <2>2, JobStays
  <2>4. \A u \in Threads : req'[u].op = "submit" /\ req'[u].job = j => u = t
    <3>1. SUFFICES ASSUME NEW u \in Threads, req'[u].op = "submit", req'[u].job = j PROVE u = t
      OBVIOUS
    <3>2. CASE Starts(u)
      BY <1>5, <1>11, <3>1, <3>2 DEF Starts
    <3>3. CASE Ends(u)
      BY <1>3, <3>1, <3>3 DEF Ends, Ops
    <3>. QED  BY <1>2, <2>1, <3>1, <3>2, <3>3 DEF Moved, Served, Same, Goes
  <2>. QED  BY <1>11, <2>3, <2>4
<1>12. CASE Starts(t)
  <2>1. job[j].status # "none" => job'[j].status # "none"
    BY JobStays
  <2>2. CASE req'[t].op = "process"
    BY <1>5, <1>8, <1>12, <2>1, <2>2 DEF Starts, RequestInv
  <2>3. CASE req'[t].op \in {"cancel", "retry"}
    BY <1>5, <1>6, <1>7, <1>12, <2>1, <2>3 DEF Starts
  <2>4. CASE req'[t].op = "submit"
    <3>1. job[j].status = "none" /\ \A u \in Threads : ~(req[u].op = "submit" /\ req[u].job = j)
      BY <1>5, <1>12, <2>4 DEF Starts
    <3>2. job'[j].status = "none"
      BY <3>1, JobStays
    <3>3. \A u \in Threads : req'[u].op = "submit" /\ req'[u].job = j => u = t
      BY <1>2, <1>3, <1>12, <3>1, OneStarts DEF Moved, Served, Same, Goes, Ends, Ops
    <3>. QED  BY <2>4, <3>2, <3>3
  <2>. QED  BY <1>12, <2>2, <2>3, <2>4 DEF Starts
<1>13. req[t].op \in {"process", "cancel", "retry", "submit"} \/ req'[t] # req[t] \/ req'[t].op \notin {"process", "cancel", "retry", "submit"}
  OBVIOUS
<1>. QED  BY <1>2, <1>9, <1>10, <1>11, <1>12, <1>13 DEF Moved, Served, Same, Goes

LEMMA ClaimInvariance == Spec => []ClaimInv
<1>1. Init => RequestInv /\ RecordInv
  BY DEF Init, RequestInv, RecordInv, Faithful, NoReq, NoJob, Closed, Ops
<1>2. Init => AuthorityInv
  BY DEF Init, AuthorityInv, Unspent, Holds, NoReq
<1>3. ASSUME ClaimInv, Next PROVE ClaimInv'
  BY <1>3, TypeInvStep, AuthorityStep, RequestsKeep, RecordsKeep DEF ClaimInv
<1>4. ASSUME ClaimInv, UNCHANGED vars PROVE ClaimInv'
  <2>1. TypeInv' /\ AuthorityInv'
    BY <1>4, TypeInvStep, AuthorityStep DEF ClaimInv
  <2>2. \A j \in Jobs : Closed(j)' <=> Closed(j)
    BY <1>4 DEF vars, Closed, Unspent
  <2>3. RequestInv'
    BY <1>4, <2>2 DEF vars, ClaimInv, RequestInv, Faithful
  <2>4. RecordInv'
    BY <1>4, <2>2 DEF vars, ClaimInv, RecordInv
  <2>. QED  BY <2>1, <2>3, <2>4 DEF ClaimInv
<1>. QED  BY <1>1, <1>2, <1>3, <1>4, TypeInvInit, PTL DEF Spec, ClaimInv

\* No job is claimed a second time, whatever maxAttempts, retries, stale saves,
\* crashes and processes there are.
THEOREM JobsAreClaimedOnce == Spec => []ClaimedAtMostOnce
<1>1. ClaimInv => ClaimedAtMostOnce
  BY DEF ClaimInv, RecordInv, ClaimedAtMostOnce
<1>. QED  BY <1>1, ClaimInvariance, PTL

\* A job that has ever been cancelled never runs or finishes again.
THEOREM CancelledJobsStayStopped == Spec => []CancelledStaysStopped
<1>1. ClaimInv => CancelledStaysStopped
  BY DEF ClaimInv, RecordInv, CancelledStaysStopped, TypeInv, DataInv
<1>. QED  BY <1>1, ClaimInvariance, PTL

-----------------------------------------------------------------------------
(* A job that says it succeeded has its run and its trace stored.           *)

EvidenceInv ==
  /\ EvidenceBeforeSuccess
  /\ \A t \in Threads, j \in Jobs : req[t].op = "process" /\ req[t].job = j =>
       /\ pc[t] \in {"saveTrace", "complete"} => j \in runRecs
       /\ pc[t] = "complete" => j \in traceRecs

LEMMA EvidenceStays ==
  ASSUME Next
  PROVE  runRecs \subseteq runRecs' /\ traceRecs \subseteq traceRecs'
<1>1. ASSUME NEW t \in Threads, Step(t) PROVE runRecs \subseteq runRecs' /\ traceRecs \subseteq traceRecs'
  BY <1>1 DEF Step, database, Acquire, Recheck, CheckIdentity, CheckLease, ExpireLease,
     SaveExpiredLease, ConsumeLease, BlockJob, ClaimJob, CallProvider, CallRaises, SaveRun, SaveTrace,
     CompleteJob, FailJob, SubmitJob, CancelJob, RetryJob, DisableIdentity, DecideProduction, CancelAgentJobs
<1>2. ASSUME ~\E t \in Threads : Step(t) PROVE UNCHANGED <<runRecs, traceRecs>>
  BY <1>2 DEF Next, BeginStep, BeginProcessNext, BeginProcess, BeginSubmit, BeginCancel, BeginRetry,
     BeginRun, BeginKill, BeginDecide, StorageError, Crash, RecordStep, IssueLease, TimePasses,
     RequestProduction, PatchIdentity, database
<1>. QED  BY <1>1, <1>2

LEMMA EvidenceStep ==
  ASSUME TypeInv, EvidenceInv, [Next]_vars
  PROVE  EvidenceInv'
<1>1. CASE UNCHANGED vars
  BY <1>1 DEF vars, EvidenceInv, EvidenceBeforeSuccess
<1>2. CASE Next
  <2>1. runRecs \subseteq runRecs' /\ traceRecs \subseteq traceRecs'
    BY <1>2, EvidenceStays
  <2>2. ASSUME NEW t \in Threads, NEW j \in Jobs, req'[t].op = "process", req'[t].job = j
        PROVE  /\ pc'[t] \in {"saveTrace", "complete"} => j \in runRecs'
               /\ pc'[t] = "complete" => j \in traceRecs'
    <3>1. Moved(t) /\ "process" \in Ops
      BY <1>2, NextMoves DEF Ops
    <3>2. req[t].op = "process" /\ req[t].job = j =>
            /\ pc[t] \in {"saveTrace", "complete"} => j \in runRecs
            /\ pc[t] = "complete" => j \in traceRecs
      BY DEF EvidenceInv
    <3>3. CASE Same(t)
      BY <2>1, <2>2, <3>2, <3>3 DEF Same
    <3>4. CASE Goes(t)
      BY <2>1, <2>2, <3>2, <3>4 DEF Goes, Owner, IsJob
    <3>5. CASE Starts(t)
      BY <3>5 DEF Starts
    <3>6. CASE Ends(t)
      BY <3>6 DEF Ends
    <3>. QED  BY <3>1, <3>3, <3>4, <3>5, <3>6 DEF Moved, Served
  <2>3. ASSUME NEW j \in Jobs, job'[j].status = "succeeded"
        PROVE  job'[j].run /\ j \in runRecs' \cap traceRecs'
    <3>1. job'[j] = job[j] \/ Written(j)
      BY <1>2, NextWrites DEF JobWrites
    <3>2. CASE job'[j] = job[j]
      BY <2>1, <2>3, <3>2 DEF EvidenceInv, EvidenceBeforeSuccess
    <3>3. CASE \E t \in Threads : Completes(t, j)
      <4>1. PICK t \in Threads : Completes(t, j)
        BY <3>3
      <4>2. req[t].op = "process" /\ req[t].job = j /\ pc[t] = "complete"
        BY <4>1, Serving, OpsAtValues DEF Completes, TypeInv
      <4>. QED  BY <2>1, <4>1, <4>2 DEF EvidenceInv, Completes
    <3>. QED  BY <2>3, <3>1, <3>2, <3>3
              DEF Written, Blocks, Fails, Stops, Claims, Submits, Cancels, Retries
  <2>. QED  BY <2>2, <2>3 DEF EvidenceInv, EvidenceBeforeSuccess
<1>. QED  BY <1>1, <1>2

\* The evidence of a success is stored before the job says that it succeeded,
\* whatever fails or races in between.
THEOREM SuccessHasEvidence == Spec => []EvidenceBeforeSuccess
<1>1. Init => EvidenceInv
  BY DEF Init, EvidenceInv, EvidenceBeforeSuccess, NoReq, NoJob, Ops
<1>2. EvidenceInv => EvidenceBeforeSuccess
  BY DEF EvidenceInv
<1>. QED  BY <1>1, <1>2, EvidenceStep, TypeInvariance, PTL DEF Spec

-----------------------------------------------------------------------------
(* After a kill switch no job under the names it covered runs, although the *)
(* workers of other processes do not wait for its guard: what they could    *)
(* still claim with is a lease that was revoked, or a job that is cancelled. *)

KillInv ==
  /\ \A k \in killed : ~identity[k[1]].enabled
  /\ \A t \in Threads : pc[t] = "cancelJobs" /\ req[t].op = "kill" => ~identity[req[t].agent].enabled
  /\ \A t \in Threads : pc[t] \in {"consume", "claim"} => LeaseAgent[req[t].lease] = req[t].agent
  /\ \A j \in Jobs : JobKey(j) \in killed =>
       /\ job[j].status # "running"
       /\ job[j].status = "queued" => \A t \in Threads : pc[t] = "claim" => req[t].job # j

LEMMA DisabledStays ==
  ASSUME TypeInv, Next, NEW a \in Agents, ~identity[a].enabled
  PROVE  ~identity'[a].enabled
<1>. USE DEF TypeInv, DataInv, IdentityRecord
<1>1. ASSUME NEW t \in Threads, Step(t) PROVE ~identity'[a].enabled
  <2>1. CASE DisableIdentity(t)
    BY <2>1 DEF DisableIdentity
  <2>2. CASE DecideProduction(t)
    <3>1. UNCHANGED identity \/ \E b \in BOOLEAN : identity' = [identity EXCEPT ![req[t].agent].prod = b]
      BY <2>2 DEF DecideProduction
    <3>2. ASSUME NEW b \in BOOLEAN, identity' = [identity EXCEPT ![req[t].agent].prod = b]
          PROVE  identity'[a].enabled = identity[a].enabled
      <4>1. identity[a] \in IdentityRecord /\ identity'[a] \in {identity[a], [identity[a] EXCEPT !.prod = b]}
        BY <3>2
      <4>. QED  BY <4>1
    <3>. QED  BY <3>1, <3>2
  <2>3. CASE ~DisableIdentity(t) /\ ~DecideProduction(t)
    BY <1>1, <2>3 DEF Step, database, Acquire, Recheck, CheckIdentity, CheckLease, ExpireLease,
       SaveExpiredLease, ConsumeLease, BlockJob, ClaimJob, CallProvider, CallRaises, SaveRun, SaveTrace,
       CompleteJob, FailJob, SubmitJob, CancelJob, RetryJob, CancelAgentJobs
  <2>. QED  BY <2>1, <2>2, <2>3
<1>2. CASE RecordStep
  <2>1. ASSUME NEW b \in Agents, RequestProduction(b) PROVE ~identity'[a].enabled
    BY <2>1 DEF RequestProduction
  <2>2. ASSUME NEW b \in Agents, NEW c \in BOOLEAN, PatchIdentity(b, c) PROVE ~identity'[a].enabled
    BY <2>2 DEF PatchIdentity
  <2>3. ASSUME NEW l \in Leases, IssueLease(l) \/ TimePasses(l) PROVE ~identity'[a].enabled
    BY <2>3 DEF IssueLease, TimePasses
  <2>. QED  BY <1>2, <2>1, <2>2, <2>3 DEF RecordStep
<1>3. ASSUME ~RecordStep, ~\E t \in Threads : Step(t) PROVE ~identity'[a].enabled
  BY <1>3 DEF Next, BeginStep, BeginProcessNext, BeginProcess, BeginSubmit, BeginCancel, BeginRetry,
     BeginRun, BeginKill, BeginDecide, StorageError, Crash, database
<1>. QED  BY <1>1, <1>2, <1>3

LEMMA KillStep ==
  ASSUME ClaimInv, ActiveLeaseBacked, KillInv, Next
  PROVE  KillInv'
<1>. USE DEF ClaimInv
<1>1. \A k \in killed' \ killed :
        \E t \in Threads : /\ pc[t] = "cancelJobs" /\ req[t].op = "kill" /\ k[1] = req[t].agent
                           /\ \A j \in Jobs : JobKey(j) = k => job'[j].status \notin {"queued", "running"}
  <2>1. SUFFICES ASSUME NEW k \in killed' \ killed
        PROVE  \E t \in Threads :
                 /\ pc[t] = "cancelJobs" /\ req[t].op = "kill" /\ k[1] = req[t].agent
                 /\ \A j \in Jobs : JobKey(j) = k => job'[j].status \notin {"queued", "running"}
    OBVIOUS
  <2>2. JobWrites
    BY NextWrites
  <2>3. PICK t \in Threads :
          /\ pc[t] = "cancelJobs" /\ req[t].op = "kill" /\ k \in req[t].keys
          /\ req[t].env = None => \A j \in Jobs : JobKey(j) = k => job'[j].status \notin {"queued", "running"}
    BY <2>2 DEF JobWrites
  <2>4. Faithful(req[t])
    BY DEF RequestInv
  <2>. QED  BY <2>3, <2>4 DEF Faithful
<1>2. \A k \in killed' : ~identity'[k[1]].enabled
  <2>1. \A k \in killed : k[1] \in Agents
    BY DEF TypeInv, DataInv, Keys
  <2>2. \A t \in Threads : req[t].op = "kill" => req[t].agent \in Agents
    BY Serving DEF TypeInv
  <2>. QED  BY <1>1, <2>1, <2>2, DisabledStays DEF KillInv
<1>3. ASSUME NEW t \in Threads, pc'[t] = "cancelJobs", req'[t].op = "kill"
      PROVE  ~identity'[req'[t].agent].enabled
  <2>1. Moved(t)
    BY NextMoves
  <2>2. CASE Same(t)
    BY <1>3, <2>2, Serving, DisabledStays DEF Same, KillInv, TypeInv
  <2>. QED  BY <1>3, <2>1, <2>2 DEF Moved, Served, Starts, Goes, Ends
<1>4. ASSUME NEW t \in Threads, pc'[t] \in {"consume", "claim"}
      PROVE  LeaseAgent[req'[t].lease] = req'[t].agent
  <2>1. Moved(t)
    BY NextMoves
  <2>. QED  BY <1>4, <2>1 DEF Moved, Served, Same, Starts, Goes, Ends, Bound, KillInv
<1>5. ASSUME NEW j \in Jobs, JobKey(j) \in killed'
      PROVE  /\ job'[j].status # "running"
             /\ job'[j].status = "queued" => \A t \in Threads : pc'[t] = "claim" => req'[t].job # j
  <2>1. CASE JobKey(j) \notin killed
    BY <1>1, <1>5, <2>1
  <2>2. CASE JobKey(j) \in killed
    <3>1. /\ job[j].status # "running"
          /\ job[j].status = "queued" => \A t \in Threads : pc[t] = "claim" => req[t].job # j
      BY <2>2 DEF KillInv
    <3>2. job'[j] = job[j] \/ Written(j)
      BY NextWrites DEF JobWrites
    <3>3. job'[j].status # "running"
      BY <3>1, <3>2 DEF Written, Blocks, Fails, Stops, Claims, Completes, Submits, Cancels, Retries
    <3>4. SUFFICES ASSUME job'[j].status = "queued", NEW t \in Threads, pc'[t] = "claim", req'[t].job = j
          PROVE  FALSE
      BY <3>3
    <3>5. Moved(t)
      BY NextMoves
    <3>6. req'[t] = req[t] /\ pc[t] \in {"consume", "claim"}
      BY <3>4, <3>5 DEF Moved, Served, Same, Starts, Goes, Ends
    <3>7. CASE Goes(t)
      <4>1. lease[req[t].lease] = "active" /\ pc[t] = "consume" /\ req[t].lease \in Leases
        BY <3>4, <3>7, LeaseServed DEF Goes, TypeInv
      <4>2. identity[LeaseAgent[req[t].lease]].enabled
        BY <4>1 DEF ActiveLeaseBacked, Permits
      <4>3. LeaseAgent[req[t].lease] = req[t].agent
        BY <4>1 DEF KillInv
      <4>4. req[t].op = "process"
        <5>1. req'[t].op \in OpsAt("claim")
          BY <3>4, TypeInvStep, Serving DEF TypeInv, ThreadInv, Placed
        <5>. QED  BY <3>6, <5>1, OpsAtValues
      <4>5. req[t].agent = JobAgent[j]
        BY <3>4, <3>6, <4>4 DEF RequestInv, Faithful
      <4>6. ~identity[JobAgent[j]].enabled
        BY <2>2 DEF KillInv, JobKey
      <4>. QED  BY <4>2, <4>3, <4>5, <4>6
    <3>8. CASE Same(t)
      <4>1. pc[t] = "claim" /\ req[t].job = j
        BY <3>4, <3>8 DEF Same
      <4>2. job[j].status # "queued" /\ job'[j] # job[j]
        BY <3>1, <3>4, <4>1
      <4>3. req[t].op = "process" /\ req[t].lease = JobLease[j]
        <5>1. req[t].op = "process"
          BY <4>1, Serving, OpsAtValues DEF TypeInv
        <5>. QED  BY <4>1, <5>1 DEF RequestInv, Faithful
      <4>4. ~Closed(j) /\ job[j].status # "none"
        BY <4>1, <4>3 DEF Closed, RequestInv
      <4>5. PICK u \in Threads : Submits(u, j) \/ Retries(u, j)
        BY <3>1, <3>2, <3>4, <4>2 DEF Written, Blocks, Fails, Stops, Claims, Completes, Cancels
      <4>6. req[u].op \in {"submit", "retry"} /\ req[u].job = j
        BY <4>5, Serving, OpsAtValues DEF Submits, Retries, TypeInv
      <4>. QED  BY <4>4, <4>6 DEF RequestInv
    <3>. QED  BY <3>4, <3>5, <3>7, <3>8 DEF Moved, Served, Starts, Ends
  <2>. QED  BY <2>1, <2>2
<1>. QED  BY <1>2, <1>3, <1>4, <1>5 DEF KillInv, JobKey

LEMMA BackedStep ==
  ASSUME TypeInv, ActiveLeaseBacked, [Next]_vars
  PROVE  ActiveLeaseBacked'
  BY StepBacked, RecordBacked, BeginAndFaultBacked DEF Next

LEMMA KillInvariance == Spec => []KillInv
<1>1. Init => KillInv
  BY DEF Init, KillInv
<1>2. ASSUME ClaimInv, ActiveLeaseBacked, KillInv, [Next]_vars PROVE KillInv'
  <2>1. CASE UNCHANGED vars
    BY <1>2, <2>1 DEF vars, KillInv, JobKey
  <2>. QED  BY <1>2, <2>1, KillStep
<1>. QED  BY <1>1, <1>2, ClaimInvariance, LeaseBacked, PTL DEF Spec

\* After a kill switch has answered, no job under the names it covered is
\* running in any process.
THEOREM KilledJobsDoNotRun == Spec => []KilledNotRunning
<1>1. KillInv => KilledNotRunning
  BY DEF KillInv, KilledNotRunning
<1>. QED  BY <1>1, KillInvariance, PTL

-----------------------------------------------------------------------------
(* Without faults, a job that is running has exactly one thread at work.    *)

WorkerInv ==
  \A j \in Jobs :
    /\ \A t, u \in Executing(j) : t = u
    /\ Executing(j) # {} => Closed(j)
    /\ job[j].status = "running" => Executing(j) # {}

LEMMA WorkerStays ==
  ASSUME TypeInv, Next, MaxFaults = 0, NEW j \in Jobs, NEW t \in Executing(j), t \notin Executing(j)'
  PROVE  job'[j].status # "running"
<1>. USE DEF TypeInv
<1>1. t \in Threads /\ req[t].op = "process" /\ req[t].job = j /\ pc[t] \in Executes
  BY DEF Executing, Executes
<1>2. ~Same(t)
  BY <1>1 DEF Same, Executing
<1>3. ASSUME CompleteJob(t) \/ FailJob(t) PROVE job'[j].status # "running"
  <2>1. PICK s \in {"succeeded", "blocked", "queued", "failed"}, b \in BOOLEAN :
          CompareAndSetJob(j, "running", [job[j] EXCEPT !.status = s, !.run = b])
    <3>1. CASE CompleteJob(t)
      BY <1>1, <3>1 DEF CompleteJob
    <3>2. CASE FailJob(t)
      <4>1. job[j] \in JobRecord
        BY DEF DataInv
      <4>2. \A s : [job[j] EXCEPT !.status = s] = [job[j] EXCEPT !.status = s, !.run = job[j].run] /\ job[j].run \in BOOLEAN
        BY <4>1 DEF JobRecord
      <4>. QED  BY <1>1, <3>2, <4>2 DEF FailJob
    <3>. QED  BY <1>3, <3>1, <3>2
  <2>2. job'[j] = IF job[j].status = "running" THEN [job[j] EXCEPT !.status = s, !.run = b] ELSE job[j]
    BY <2>1 DEF CompareAndSetJob, SetJob, DataInv
  <2>3. job[j] \in JobRecord
    BY DEF DataInv
  <2>. QED  BY <2>2, <2>3, Fields
<1>4. ASSUME Step(t), ~CompleteJob(t), ~FailJob(t) PROVE FALSE
  <2>1. CallProvider(t) \/ CallRaises(t) \/ SaveRun(t) \/ SaveTrace(t)
    BY <1>1, <1>4 DEF Step, Executes, Acquire, Recheck, CheckIdentity, CheckLease, ExpireLease,
       SaveExpiredLease, ConsumeLease, BlockJob, ClaimJob, SubmitJob, CancelJob, RetryJob,
       DisableIdentity, DecideProduction, CancelAgentJobs
  <2>2. pc'[t] \in Executes /\ req'[t] = req[t]
    BY <1>1, <2>1 DEF CallProvider, CallRaises, SaveRun, SaveTrace, IsJob, Goto, ThreadInv, Executes
  <2>. QED  BY <1>1, <2>2 DEF Executing, Executes
<1>5. Step(t)
  <2>1. ASSUME NEW u \in Threads, BeginStep(u) PROVE FALSE
    <3>1. Starts(u) /\ \A v \in Threads : v # u => Same(v)
      BY <2>1, BeginMoves
    <3>. QED  BY <1>1, <1>2, <3>1 DEF Starts, Executes
  <2>2. ASSUME NEW u \in Threads, Step(u), u # t PROVE FALSE
    BY <1>1, <1>2, <2>2, StepOthers
  <2>3. \A u \in Threads : ~StorageError(u)
    BY DEF StorageError, DataInv
  <2>4. \A p \in Procs : ~Crash(p)
    BY DEF Crash, DataInv
  <2>5. ~RecordStep
    BY <1>1, <1>2 DEF RecordStep, IssueLease, TimePasses, RequestProduction, PatchIdentity, threads, Same
  <2>. QED  BY <2>1, <2>2, <2>3, <2>4, <2>5 DEF Next
<1>. QED  BY <1>3, <1>4, <1>5

LEMMA WorkerStep ==
  ASSUME ClaimInv, WorkerInv, Next, MaxFaults = 0
  PROVE  WorkerInv'
<1>. USE DEF ClaimInv
<1>1. SUFFICES ASSUME NEW j \in Jobs
      PROVE  /\ \A t, u \in Executing(j)' : t = u
             /\ Executing(j)' # {} => Closed(j)'
             /\ job'[j].status = "running" => Executing(j)' # {}
  BY DEF WorkerInv
<1>2. \A t \in Executing(j)' : t \in Executing(j) \/ (pc[t] = "claim" /\ req[t].job = j /\ pc'[t] # "claim")
  <2>1. SUFFICES ASSUME NEW t \in Executing(j)'
        PROVE  t \in Executing(j) \/ (pc[t] = "claim" /\ req[t].job = j /\ pc'[t] # "claim")
    OBVIOUS
  <2>2. t \in Threads /\ req'[t].op = "process" /\ req'[t].job = j /\ pc'[t] \in Executes
    BY <2>1 DEF Executing, Executes
  <2>3. Moved(t)
    BY <2>2, NextMoves
  <2>. QED  BY <2>2, <2>3 DEF Moved, Served, Same, Ends, Starts, Goes, Executing, Executes, IsJob
<1>3. ASSUME NEW t \in Threads, pc[t] = "claim", req[t].job = j, pc'[t] # "claim"
      PROVE  /\ Executing(j) = {} /\ Closed(j)'
             /\ \A u \in Threads : pc[u] = "claim" /\ req[u].job = j => u = t
  <2>1. ~Closed(j) /\ Closed(j)'
    BY <1>3, ClaimCloses
  <2>2. \A u \in Threads : pc[u] = "claim" /\ req[u].job = j => Holds(u, JobLease[j])
    <3>1. SUFFICES ASSUME NEW u \in Threads, pc[u] = "claim", req[u].job = j PROVE Holds(u, JobLease[j])
      OBVIOUS
    <3>2. req[u].op = "process"
      BY <3>1, Serving, OpsAtValues DEF TypeInv
    <3>3. Faithful(req[u])
      BY DEF RequestInv
    <3>. QED  BY <3>1, <3>2, <3>3 DEF Faithful, Holds
  <2>3. \A u \in Threads : Holds(u, JobLease[j]) => u = t
    BY <1>3, <2>2 DEF AuthorityInv
  <2>. QED  BY <2>1, <2>2, <2>3 DEF WorkerInv
<1>4. Executing(j) \subseteq Threads /\ Executing(j)' \subseteq Threads
  BY DEF Executing
<1>5. \A t, u \in Executing(j)' : t = u
  BY <1>2, <1>3, <1>4 DEF WorkerInv
<1>6. Executing(j)' # {} => Closed(j)'
  BY <1>2, <1>3, <1>4, ClosedStays DEF WorkerInv
<1>7. ASSUME job'[j].status = "running" PROVE Executing(j)' # {}
  <2>1. CASE Executing(j) # {}
    BY <1>7, <2>1, WorkerStays
  <2>2. CASE job[j].status # "running"
    <3>1. PICK t \in Threads : Claims(t, j)
      BY <1>7, <2>2, NextWrites
         DEF JobWrites, Written, Blocks, Fails, Stops, Claims, Completes, Submits, Cancels, Retries
    <3>2. req[t].op = "process"
      BY <3>1, Serving, OpsAtValues DEF Claims, TypeInv
    <3>3. t \in Executing(j)'
      BY <3>1, <3>2 DEF Claims, Executing
    <3>. QED  BY <3>3
  <2>. QED  BY <2>1, <2>2 DEF WorkerInv
<1>. QED  BY <1>5, <1>6, <1>7

\* Without faults a running job has exactly one thread executing it.
THEOREM RunningJobsHaveOneWorker ==
  ASSUME MaxFaults = 0
  PROVE  Spec => []RunningHasOneWorker
<1>1. Init => WorkerInv
  BY DEF Init, WorkerInv, Executing, NoReq, NoJob, Ops
<1>2. ASSUME ClaimInv, WorkerInv, [Next]_vars PROVE WorkerInv'
  <2>1. CASE UNCHANGED vars
    BY <1>2, <2>1 DEF vars, WorkerInv, Executing, Closed, Unspent
  <2>. QED  BY <1>2, <2>1, WorkerStep
<1>3. ASSUME WorkerInv PROVE RunningHasOneWorker
  <2>1. SUFFICES ASSUME NEW j \in Jobs, job[j].status = "running" PROVE Cardinality(Executing(j)) = 1
    BY DEF RunningHasOneWorker
  <2>2. PICK t \in Executing(j) : TRUE
    BY <1>3, <2>1 DEF WorkerInv
  <2>3. Executing(j) = {t}
    BY <1>3, <2>2 DEF WorkerInv
  <2>. QED  BY <2>3, FS_Singleton
<1>. QED  BY <1>1, <1>2, <1>3, ClaimInvariance, PTL DEF Spec

-----------------------------------------------------------------------------
(* In one server process the guard keeps the kill switch out between the    *)
(* check of an identity and the claim.                                      *)

HasKeys(t) == \A k \in req[t].keys : guard[<<ProcOf[t], k>>] = t

GuardInv ==
  /\ \A t \in Threads : InGuard(t) => HasKeys(t)
  /\ \A t \in Threads, j \in Jobs :
       /\ req[t].op = "process" /\ req[t].job = j /\ JobForm[j] = "agentId"
       /\ pc[t] \in {"lease", "consume", "claim"}
       => identity[JobAgent[j]].enabled

\* Who takes the last key has them all.
LEMMA AcquireHasKeys ==
  ASSUME TypeInv, NEW t \in Threads, Acquire(t), InGuard(t)'
  PROVE  HasKeys(t)'
<1>. USE DEF TypeInv
<1>1. UNCHANGED req /\ pc'[t] # "acquire" /\ pc[t] = "acquire"
  BY DEF Acquire, InGuard, IsJob
<1>2. WaitingFor(t) = {NextKey(t)}
  BY <1>1 DEF Acquire, Goto, ThreadInv
<1>3. guard' = [guard EXCEPT ![<<ProcOf[t], NextKey(t)>>] = t]
  BY DEF Acquire
<1>4. req[t].keys \subseteq Keys
  BY Serving DEF Request
<1>5. SUFFICES ASSUME NEW k \in req[t].keys PROVE guard'[<<ProcOf[t], k>>] = t
  BY <1>1 DEF HasKeys
<1>6. <<ProcOf[t], k>> \in Locks
  BY <1>4 DEF Locks
<1>7. k = NextKey(t) \/ guard[<<ProcOf[t], k>>] = t
  BY <1>2 DEF WaitingFor
<1>. QED  BY <1>3, <1>6, <1>7 DEF DataInv

LEMMA OtherSteps ==
  ASSUME TypeInv, NEW t \in Threads, Step(t) \/ StorageError(t), ~Acquire(t)
  PROVE  \/ UNCHANGED guard /\ (InGuard(t)' => InGuard(t) /\ req'[t] = req[t])
         \/ Release({t}) /\ ~InGuard(t)'
<1>. USE DEF TypeInv, InGuard, IsJob
<1>. DEFINE Goal == \/ UNCHANGED guard /\ (InGuard(t)' => InGuard(t) /\ req'[t] = req[t])
                    \/ Release({t}) /\ ~InGuard(t)'
<1>1. Return(t) => ~InGuard(t)'
  BY NoReqWellFormed DEF Return, Goto, ThreadInv
<1>2. Refuse(t) /\ InGuard(t) => (InGuard(t)' => req'[t] = req[t])
  BY <1>1 DEF Refuse
<1>3. Refuse(t) /\ ~IsJob(t) => ~InGuard(t)'
  BY <1>1 DEF Refuse
<1>4. ASSUME Recheck(t) PROVE Goal
  <2>1. req[t].op = "process" /\ pc[t] = "recheck"
    BY <1>4, Serving, OpsAtValues DEF Recheck
  <2>. QED  BY <1>1, <1>4, <2>1 DEF Recheck
<1>5. ASSUME CheckIdentity(t) PROVE Goal
  BY <1>1, <1>2, <1>3, <1>5 DEF CheckIdentity, Goto, ThreadInv, database
<1>6. ASSUME CheckLease(t) \/ ExpireLease(t) PROVE Goal
  <2>1. CASE Refuse(t)
    BY <1>2, <1>3, <1>6, <2>1 DEF CheckLease, ExpireLease
  <2>2. CASE UNCHANGED <<guard, req>> /\ \E label \in {"expire", "saveExpired", "saveJob", "consume"} : Goto(t, label)
    BY <1>6, <2>2 DEF CheckLease, ExpireLease, Goto, ThreadInv
  <2>. QED  BY <1>6, <2>1, <2>2 DEF CheckLease, ExpireLease
<1>7. ASSUME ConsumeLease(t) PROVE Goal
  <2>1. CASE Refuse(t)
    BY <1>2, <1>3, <1>7, <2>1 DEF ConsumeLease
  <2>2. CASE UNCHANGED <<guard, req>> /\ Goto(t, IF IsJob(t) THEN "claim" ELSE "call")
    BY <1>7, <2>2 DEF ConsumeLease, Goto, ThreadInv
  <2>. QED  BY <1>7, <2>1, <2>2 DEF ConsumeLease
<1>8. ASSUME BlockJob(t) \/ CancelAgentJobs(t) PROVE Goal
  BY <1>1, <1>8 DEF BlockJob, CancelAgentJobs
<1>9. ASSUME ClaimJob(t) PROVE Goal
  BY <1>1, <1>9 DEF ClaimJob, Goto, ThreadInv
<1>10. ASSUME \/ CallProvider(t) \/ CallRaises(t) \/ SaveRun(t) \/ SaveTrace(t) \/ SaveExpiredLease(t)
              \/ CompleteJob(t) \/ FailJob(t) \/ SubmitJob(t) \/ CancelJob(t) \/ RetryJob(t)
       PROVE  Goal
  <2>1. Return(t) \/ \E label \in {"saveRun", "fail", "saveTrace", "complete"} : Goto(t, label)
    BY <1>10 DEF CallProvider, CallRaises, SaveRun, SaveTrace, SaveExpiredLease, CompleteJob, FailJob,
       SubmitJob, CancelJob, RetryJob
  <2>2. UNCHANGED guard
    BY <1>10 DEF CallProvider, CallRaises, SaveRun, SaveTrace, SaveExpiredLease, CompleteJob, FailJob,
       SubmitJob, CancelJob, RetryJob
  <2>. QED  BY <1>1, <2>1, <2>2 DEF Goto, ThreadInv
<1>11. ASSUME DisableIdentity(t) PROVE Goal
  BY <1>11 DEF DisableIdentity
<1>12. ASSUME DecideProduction(t) PROVE Goal
  BY <1>1, <1>12 DEF DecideProduction
<1>13. ASSUME StorageError(t) PROVE Goal
  BY <1>1, <1>13 DEF StorageError, Goto, ThreadInv
<1>. QED  BY <1>4, <1>5, <1>6, <1>7, <1>8, <1>9, <1>10, <1>11, <1>12, <1>13 DEF Step

LEMMA KeysKept ==
  ASSUME TypeInv, Next, \A t \in Threads : InGuard(t) => HasKeys(t)
  PROVE  \A t \in Threads : InGuard(t)' => HasKeys(t)'
<1>. USE DEF TypeInv
<1>1. SUFFICES ASSUME NEW u \in Threads, InGuard(u)' PROVE HasKeys(u)'
  OBVIOUS
<1>2. \A k \in req[u].keys : <<ProcOf[u], k>> \in Locks
  BY Serving DEF Request, Locks
<1>3. ASSUME Same(u) \/ (InGuard(u) /\ req'[u] = req[u]),
             UNCHANGED guard \/ \E S : u \notin S /\ Release(S)
      PROVE  HasKeys(u)'
  <2>1. InGuard(u) /\ req'[u] = req[u]
    BY <1>1, <1>3 DEF Same, InGuard, IsJob
  <2>2. \A k \in req[u].keys : guard'[<<ProcOf[u], k>>] = guard[<<ProcOf[u], k>>]
    BY <1>2, <1>3, <2>1 DEF Release, HasKeys
  <2>. QED  BY <2>1, <2>2 DEF HasKeys
<1>4. ASSUME NEW t \in Threads, Acquire(t) PROVE HasKeys(u)'
  <2>1. CASE t = u
    BY <1>1, <1>4, <2>1, AcquireHasKeys
  <2>2. CASE t # u
    <3>1. Same(u)
      BY <1>4, <2>2, Others DEF Acquire
    <3>2. InGuard(u) /\ req'[u] = req[u]
      BY <1>1, <3>1 DEF Same, InGuard, IsJob
    <3>3. guard[<<ProcOf[t], NextKey(t)>>] = Nobody
          /\ guard' = [guard EXCEPT ![<<ProcOf[t], NextKey(t)>>] = t]
      BY <1>4 DEF Acquire
    <3>4. \A k \in req[u].keys : guard[<<ProcOf[u], k>>] = u /\ u # Nobody
      BY <3>2 DEF HasKeys
    <3>5. \A k \in req[u].keys : guard'[<<ProcOf[u], k>>] = u
      BY <1>2, <3>3, <3>4 DEF DataInv
    <3>. QED  BY <3>2, <3>5 DEF HasKeys
  <2>. QED  BY <2>1, <2>2
<1>5. ASSUME NEW t \in Threads, Step(t) \/ StorageError(t), ~Acquire(t) PROVE HasKeys(u)'
  <2>1. \/ UNCHANGED guard /\ (InGuard(t)' => InGuard(t) /\ req'[t] = req[t])
        \/ Release({t}) /\ ~InGuard(t)'
    BY <1>5, OtherSteps
  <2>2. CASE t = u
    BY <1>1, <1>3, <2>1, <2>2
  <2>3. CASE t # u
    <3>1. Same(u)
      BY <1>5, <2>3, StepOthers, ErrorOthers
    <3>. QED  BY <1>3, <2>1, <2>3, <3>1
  <2>. QED  BY <2>2, <2>3
<1>6. ASSUME NEW t \in Threads, BeginStep(t) PROVE HasKeys(u)'
  <2>1. UNCHANGED guard
    BY <1>6 DEF BeginStep, BeginProcessNext, BeginProcess, BeginSubmit, BeginCancel, BeginRetry,
       BeginRun, BeginKill, BeginDecide
  <2>2. Starts(t) /\ \A v \in Threads : v # t => Same(v)
    BY <1>6, BeginMoves
  <2>3. t # u
    BY <1>1, <2>2 DEF Starts, InGuard, IsJob
  <2>. QED  BY <1>3, <2>1, <2>2, <2>3
<1>7. ASSUME NEW p \in Procs, Crash(p) PROVE HasKeys(u)'
  <2>1. ProcOf[u] # p
    BY <1>1, <1>7, NoReqWellFormed DEF Crash, InGuard, IsJob
  <2>2. Same(u) /\ Release({t \in Threads : ProcOf[t] = p})
    BY <1>7, <2>1 DEF Crash, Same
  <2>. QED  BY <1>3, <2>1, <2>2
<1>8. ASSUME RecordStep PROVE HasKeys(u)'
  <2>1. Same(u) /\ UNCHANGED guard
    BY <1>8 DEF RecordStep, IssueLease, TimePasses, RequestProduction, PatchIdentity, threads, Same
  <2>. QED  BY <1>3, <2>1
<1>. QED  BY <1>4, <1>5, <1>6, <1>7, <1>8 DEF Next

\* Only the handler of a kill switch disables an identity.
LEMMA EnabledStays ==
  ASSUME TypeInv, Next, NEW a \in Agents, identity[a].enabled,
         \A t \in Threads : pc[t] = "disable" => req[t].agent # a
  PROVE  identity'[a].enabled
<1>. USE DEF TypeInv, DataInv, IdentityRecord
<1>0. ASSUME NEW b \in Agents, NEW c \in BOOLEAN,
             \/ identity' = [identity EXCEPT ![b].prod = c]
             \/ identity' = [identity EXCEPT ![b].boundary = c]
      PROVE  identity'[a].enabled
  <2>1. identity'[a] \in {identity[a], [identity[a] EXCEPT !.prod = c], [identity[a] EXCEPT !.boundary = c]}
    BY <1>0
  <2>. QED  BY <2>1
<1>1. ASSUME NEW t \in Threads, Step(t) PROVE identity'[a].enabled
  <2>1. CASE DisableIdentity(t)
    <3>1. pc[t] = "disable" /\ identity' = [identity EXCEPT ![req[t].agent].enabled = FALSE]
      BY <2>1 DEF DisableIdentity
    <3>2. req[t].agent # a
      BY <3>1
    <3>3. identity'[a] = identity[a]
      BY <3>1, <3>2
    <3>. QED  BY <3>3
  <2>2. CASE DecideProduction(t)
    <3>1. UNCHANGED identity \/ \E b \in BOOLEAN : identity' = [identity EXCEPT ![req[t].agent].prod = b]
      BY <2>2 DEF DecideProduction
    <3>2. req[t].agent \in Agents
      BY <2>2, Serving, OpsAtValues DEF DecideProduction
    <3>. QED  BY <1>0, <3>1, <3>2
  <2>3. CASE ~DisableIdentity(t) /\ ~DecideProduction(t)
    BY <1>1, <2>3 DEF Step, database, Acquire, Recheck, CheckIdentity, CheckLease, ExpireLease,
       SaveExpiredLease, ConsumeLease, BlockJob, ClaimJob, CallProvider, CallRaises, SaveRun, SaveTrace,
       CompleteJob, FailJob, SubmitJob, CancelJob, RetryJob, CancelAgentJobs
  <2>. QED  BY <2>1, <2>2, <2>3
<1>2. CASE RecordStep
  <2>1. ASSUME NEW b \in Agents, RequestProduction(b) PROVE identity'[a].enabled
    BY <1>0, <2>1 DEF RequestProduction
  <2>2. ASSUME NEW b \in Agents, NEW c \in BOOLEAN, PatchIdentity(b, c) PROVE identity'[a].enabled
    BY <1>0, <2>2 DEF PatchIdentity
  <2>3. ASSUME NEW l \in Leases, IssueLease(l) \/ TimePasses(l) PROVE identity'[a].enabled
    BY <2>3 DEF IssueLease, TimePasses
  <2>. QED  BY <1>2, <2>1, <2>2, <2>3 DEF RecordStep
<1>3. ASSUME ~RecordStep, ~\E t \in Threads : Step(t) PROVE identity'[a].enabled
  BY <1>3 DEF Next, BeginStep, BeginProcessNext, BeginProcess, BeginSubmit, BeginCancel, BeginRetry,
     BeginRun, BeginKill, BeginDecide, StorageError, Crash, database
<1>. QED  BY <1>1, <1>2, <1>3

\* In one process, a worker past the identity check and a kill switch about to
\* disable the identity would hold the same key.
LEMMA KillKeptOut ==
  ASSUME ClaimInv, GuardInv, \A p, q \in Procs : p = q,
         NEW t \in Threads, NEW u \in Threads, NEW j \in Jobs,
         req[t].op = "process", req[t].job = j, JobForm[j] = "agentId",
         pc[t] \in {"identity", "lease", "consume", "claim"}, pc[u] = "disable"
  PROVE  req[u].agent # JobAgent[j]
<1>1. SUFFICES ASSUME req[u].agent = JobAgent[j] PROVE FALSE
  OBVIOUS
<1>2. req[u].op = "kill"
  BY Serving, OpsAtValues DEF ClaimInv, TypeInv
<1>3. Faithful(req[t]) /\ Faithful(req[u])
  BY DEF ClaimInv, RequestInv
<1>4. <<JobAgent[j], "agentId">> \in req[t].keys \cap req[u].keys
  BY <1>1, <1>2, <1>3 DEF Faithful, JobKey
<1>5. HasKeys(t) /\ HasKeys(u)
  BY DEF GuardInv, InGuard, IsJob
<1>6. ProcOf[t] = ProcOf[u]
  OBVIOUS
<1>7. t = u
  BY <1>4, <1>5, <1>6 DEF HasKeys
<1>. QED  BY <1>7

LEMMA GuardStep ==
  ASSUME ClaimInv, GuardInv, \A p, q \in Procs : p = q, Next
  PROVE  GuardInv'
<1>. USE DEF ClaimInv
<1>1. \A t \in Threads : InGuard(t)' => HasKeys(t)'
  BY KeysKept DEF GuardInv
<1>2. ASSUME NEW t \in Threads, NEW j \in Jobs, req'[t].op = "process", req'[t].job = j,
             JobForm[j] = "agentId", pc'[t] \in {"lease", "consume", "claim"}
      PROVE  identity'[JobAgent[j]].enabled
  <2>1. Moved(t)
    BY NextMoves
  <2>2. req'[t] = req[t] /\ pc[t] # "idle" /\ (Same(t) \/ Goes(t))
    BY <1>2, <2>1 DEF Moved, Served, Same, Starts, Goes, Ends
  <2>3. req[t].agent = JobAgent[j] /\ JobAgent[j] \in Agents
    BY <1>2, <2>2 DEF RequestInv, Faithful
  <2>4. identity[JobAgent[j]].enabled
    <3>1. CASE pc'[t] = "lease" /\ Goes(t)
      BY <2>3, <3>1 DEF Goes, Permits
    <3>2. CASE pc[t] \in {"lease", "consume", "claim"}
      BY <1>2, <2>2, <3>2 DEF GuardInv
    <3>. QED  BY <1>2, <2>2, <3>1, <3>2 DEF Same, Goes
  <2>5. CASE \A u \in Threads : pc[u] = "disable" => req[u].agent # JobAgent[j]
    BY <2>3, <2>4, <2>5, EnabledStays
  <2>6. ASSUME NEW u \in Threads, pc[u] = "disable", req[u].agent = JobAgent[j] PROVE FALSE
    <3>1. pc[t] \in {"identity", "lease", "consume", "claim"}
      BY <1>2, <2>2 DEF Same, Goes
    <3>. QED  BY <1>2, <2>2, <2>6, <3>1, KillKeptOut
  <2>. QED  BY <2>5, <2>6
<1>. QED  BY <1>1, <1>2 DEF GuardInv

\* With one process, a job named by the agentId is claimed only while its identity
\* is enabled: the worker and every kill switch take the key of the agentId in
\* identity_execution_guard.  Jobs named by the record id are not covered.
THEOREM ClaimsNeedEnabledIdentity ==
  ASSUME \A p, q \in Procs : p = q
  PROVE  Spec => ClaimOnlyWhenEnabled
<1>1. Init => GuardInv
  BY DEF Init, GuardInv, InGuard
<1>2. ASSUME ClaimInv, GuardInv, [Next]_vars PROVE GuardInv'
  <2>1. CASE UNCHANGED vars
    BY <1>2, <2>1 DEF vars, GuardInv, InGuard, HasKeys, IsJob
  <2>. QED  BY <1>2, <2>1, GuardStep
<1>3. ASSUME ClaimInv, GuardInv, Next
      PROVE  \A j \in Jobs : job[j].status = "queued" /\ job'[j].status = "running" /\ JobForm[j] = "agentId"
                             => identity[JobAgent[j]].enabled
  <2>1. SUFFICES ASSUME NEW j \in Jobs, job[j].status = "queued", job'[j].status = "running",
                        JobForm[j] = "agentId"
                 PROVE  identity[JobAgent[j]].enabled
    OBVIOUS
  <2>2. Written(j)
    BY <1>3, <2>1, NextWrites DEF JobWrites, ClaimInv
  <2>3. PICK t \in Threads : Claims(t, j)
    BY <2>1, <2>2 DEF Written, Blocks, Fails, Stops, Completes, Submits, Cancels, Retries
  <2>4. req[t].op = "process" /\ req[t].job = j /\ pc[t] = "claim"
    BY <1>3, <2>3, Serving, OpsAtValues DEF Claims, ClaimInv, TypeInv
  <2>. QED  BY <1>3, <2>1, <2>4 DEF GuardInv
<1>4. ASSUME ClaimInv, GuardInv, [Next]_vars
      PROVE  [\A j \in Jobs : job[j].status = "queued" /\ job'[j].status = "running" /\ JobForm[j] = "agentId"
                              => identity[JobAgent[j]].enabled]_vars
  BY <1>3, <1>4
<1>. QED  BY <1>1, <1>2, <1>4, ClaimInvariance, PTL DEF Spec, ClaimOnlyWhenEnabled

-----------------------------------------------------------------------------
(* Who waits for the identity guard, and for whom.                          *)

\* A held key belongs to a request that names it and has not left the guard; a
\* request that still takes its keys lacks one and holds no agentId.
LockInv ==
  /\ \A t \in Threads, p \in Procs, k \in Keys : guard[<<p, k>>] = t =>
       p = ProcOf[t] /\ k \in req[t].keys /\ (pc[t] = "acquire" \/ InGuard(t))
  /\ \A t \in Threads : pc[t] = "acquire" =>
       /\ WaitingFor(t) # {}
       /\ \A k \in req[t].keys : guard[<<ProcOf[t], k>>] = t => k[2] = "identityId"

\* A request names one agent, so its keys differ in their form only.
LEMMA OneAgent ==
  ASSUME TypeInv, RequestInv, NEW t \in Threads, pc[t] = "acquire"
  PROVE  /\ req[t].op \in {"process", "kill", "decide"}
         /\ req[t].keys \subseteq Keys
         /\ \A k, o \in req[t].keys : k[1] = o[1]
<1>1. req[t].op \in {"process", "kill", "decide"} /\ req[t].keys \subseteq Keys
  BY Serving, OpsAtValues DEF TypeInv, Request
<1>2. Faithful(req[t])
  BY DEF RequestInv
<1>. QED  BY <1>1, <1>2 DEF Faithful

\* The record id is taken before the agentId.
LEMMA NextKeySorted ==
  ASSUME TypeInv, RequestInv, NEW t \in Threads, pc[t] = "acquire", WaitingFor(t) # {}
  PROVE  /\ NextKey(t) \in WaitingFor(t)
         /\ WaitingFor(t) # {NextKey(t)} => NextKey(t)[2] = "identityId"
<1>1. WaitingFor(t) \subseteq Keys /\ \A k, o \in WaitingFor(t) : k[1] = o[1]
  BY OneAgent DEF WaitingFor
<1>2. \E k \in WaitingFor(t) : \A o \in WaitingFor(t) : o[2] = "identityId" => k[2] = "identityId"
  <2>1. CASE \E k \in WaitingFor(t) : k[2] = "identityId"
    BY <2>1
  <2>2. CASE ~\E k \in WaitingFor(t) : k[2] = "identityId"
    BY <2>2
  <2>. QED  BY <2>1, <2>2
<1>3. /\ NextKey(t) \in WaitingFor(t)
      /\ \A o \in WaitingFor(t) : o[2] = "identityId" => NextKey(t)[2] = "identityId"
  BY <1>2 DEF NextKey
<1>4. ASSUME NEW o \in WaitingFor(t), o # NextKey(t) PROVE NextKey(t)[2] = "identityId"
  <2>1. PICK k \in Keys : k = NextKey(t)
    BY <1>1, <1>3
  <2>2. o \in Keys /\ o[1] = k[1] /\ o # k
    BY <1>1, <1>3, <1>4, <2>1
  <2>3. o[2] # k[2]
    BY <2>1, <2>2 DEF Keys
  <2>4. o[2] \in {"agentId", "identityId"} /\ k[2] \in {"agentId", "identityId"}
    BY <2>1, <2>2 DEF Keys, Forms
  <2>. QED  BY <1>3, <1>4, <2>1, <2>3, <2>4
<1>. QED  BY <1>3, <1>4

\* A request in the guard stays in it with its keys, or gives them all back.
LEMMA GuardedStays ==
  ASSUME TypeInv, NEW t \in Threads, InGuard(t), Step(t) \/ StorageError(t)
  PROVE  Release({t}) \/ (UNCHANGED guard /\ InGuard(t)' /\ req'[t] = req[t])
<1>. USE DEF TypeInv
<1>. DEFINE Goal == Release({t}) \/ (UNCHANGED guard /\ InGuard(t)' /\ req'[t] = req[t])
<1>1. ASSUME IsJob(t), Refuse(t), UNCHANGED guard PROVE Goal
  BY <1>1 DEF Refuse, Goto, ThreadInv, InGuard, IsJob
<1>2. ASSUME CheckIdentity(t) \/ CheckLease(t) \/ ExpireLease(t) \/ ConsumeLease(t) PROVE Goal
  <2>1. IsJob(t) /\ UNCHANGED guard
    BY <1>2 DEF CheckIdentity, CheckLease, ExpireLease, ConsumeLease, InGuard
  <2>2. CASE Refuse(t)
    BY <1>1, <2>1, <2>2
  <2>3. CASE UNCHANGED req /\ \E label \in {"lease", "expire", "consume", "claim"} : Goto(t, label)
    BY <2>1, <2>3 DEF Goto, ThreadInv, InGuard, IsJob
  <2>. QED  BY <1>2, <2>1, <2>2, <2>3 DEF CheckIdentity, CheckLease, ExpireLease, ConsumeLease, IsJob
<1>3. ASSUME Recheck(t) \/ BlockJob(t) \/ ClaimJob(t) \/ CancelAgentJobs(t) PROVE Goal
  BY <1>3 DEF Recheck, BlockJob, ClaimJob, CancelAgentJobs, Goto, ThreadInv, InGuard, IsJob
<1>4. ASSUME DisableIdentity(t) PROVE Goal
  BY <1>4 DEF DisableIdentity, Goto, ThreadInv, InGuard, IsJob
<1>5. ASSUME DecideProduction(t) PROVE Goal
  BY <1>5 DEF DecideProduction, Goto, ThreadInv, InGuard, IsJob
<1>6. ASSUME StorageError(t) PROVE Goal
  BY <1>6 DEF StorageError, InGuard
<1>7. ~(\/ Acquire(t) \/ SaveExpiredLease(t) \/ CallProvider(t) \/ CallRaises(t) \/ SaveRun(t) \/ SaveTrace(t)
        \/ CompleteJob(t) \/ FailJob(t) \/ SubmitJob(t) \/ CancelJob(t) \/ RetryJob(t))
  BY DEF InGuard, Acquire, SaveExpiredLease, CallProvider, CallRaises, SaveRun, SaveTrace, CompleteJob,
     FailJob, SubmitJob, CancelJob, RetryJob
<1>. QED  BY <1>2, <1>3, <1>4, <1>5, <1>6, <1>7 DEF Step

\* A request takes the keys it needs at its beginning, and never again.
LEMMA NotToAcquire ==
  ASSUME TypeInv, NEW t \in Threads, Step(t) \/ StorageError(t), pc[t] # "acquire"
  PROVE  pc'[t] # "acquire"
<1>. USE DEF TypeInv
<1>1. ASSUME Return(t) \/ Refuse(t) PROVE pc'[t] # "acquire"
  BY <1>1 DEF Return, Refuse, Goto, ThreadInv
<1>2. ASSUME NEW label, label # "acquire", Goto(t, label) PROVE pc'[t] # "acquire"
  BY <1>2 DEF Goto, ThreadInv
<1>3. ~Acquire(t)
  BY DEF Acquire
<1>. QED  BY <1>1, <1>2, <1>3 DEF Step, StorageError, Recheck, CheckIdentity, CheckLease, ExpireLease,
     SaveExpiredLease, ConsumeLease, BlockJob, ClaimJob, CallProvider, CallRaises, SaveRun, SaveTrace,
     CompleteJob, FailJob, SubmitJob, CancelJob, RetryJob, DisableIdentity, DecideProduction, CancelAgentJobs

\* The conjuncts of LockInv for one thread.
HoldsOnly(t) ==
  \A p \in Procs, k \in Keys : guard[<<p, k>>] = t =>
    p = ProcOf[t] /\ k \in req[t].keys /\ (pc[t] = "acquire" \/ InGuard(t))

StillLacks(t) ==
  pc[t] = "acquire" =>
    /\ WaitingFor(t) # {}
    /\ \A k \in req[t].keys : guard[<<ProcOf[t], k>>] = t => k[2] = "identityId"

\* A thread that stays as it was while others release or take other keys.
LEMMA LocksOfOthers ==
  ASSUME TypeInv, RequestInv, NEW u \in Threads, HoldsOnly(u), StillLacks(u), Same(u),
         \A l \in Locks : (guard'[l] = u) <=> (guard[l] = u)
  PROVE  HoldsOnly(u)' /\ StillLacks(u)'
<1>1. pc'[u] = pc[u] /\ req'[u] = req[u] /\ InGuard(u)' = InGuard(u)
  BY DEF Same, InGuard, IsJob
<1>2. \A p \in Procs, k \in Keys : (guard'[<<p, k>>] = u) <=> (guard[<<p, k>>] = u)
  BY DEF Locks
<1>3. HoldsOnly(u)'
  BY <1>1, <1>2 DEF HoldsOnly
<1>4. ASSUME pc[u] = "acquire"
      PROVE  \A k \in req[u].keys : (guard'[<<ProcOf[u], k>>] = u) <=> (guard[<<ProcOf[u], k>>] = u)
  BY <1>2, <1>4, OneAgent
<1>5. ASSUME pc[u] = "acquire" PROVE WaitingFor(u)' = WaitingFor(u)
  BY <1>1, <1>4, <1>5 DEF WaitingFor
<1>. QED  BY <1>1, <1>3, <1>4, <1>5 DEF StillLacks

\* Taking a key, the record id first, leaves only the agentId to wait for.
LEMMA AcquireLocks ==
  ASSUME TypeInv, RequestInv, NEW t \in Threads, HoldsOnly(t), StillLacks(t), Acquire(t)
  PROVE  HoldsOnly(t)' /\ StillLacks(t)'
<1>. USE DEF TypeInv
<1>1. PICK n : n = NextKey(t)
  OBVIOUS
<1>2. pc[t] = "acquire" /\ WaitingFor(t) # {} /\ UNCHANGED req
      /\ guard' = [guard EXCEPT ![<<ProcOf[t], n>>] = t]
      /\ Goto(t, IF WaitingFor(t) = {n} THEN Guarded(req[t].op) ELSE "acquire")
  BY <1>1 DEF Acquire
<1>3. n \in WaitingFor(t) /\ (WaitingFor(t) # {n} => n[2] = "identityId")
  BY <1>1, <1>2, NextKeySorted
<1>4. n \in req[t].keys /\ n \in Keys /\ req[t].keys \subseteq Keys
  BY <1>2, <1>3, OneAgent DEF WaitingFor
<1>5. \A p \in Procs, k \in Keys : guard'[<<p, k>>] = IF p = ProcOf[t] /\ k = n THEN t ELSE guard[<<p, k>>]
  BY <1>2, <1>4 DEF DataInv, Locks
<1>6. pc'[t] = "acquire" \/ InGuard(t)'
  BY <1>2, OneAgent DEF Goto, ThreadInv, Guarded, InGuard, IsJob
<1>7. HoldsOnly(t)'
  BY <1>2, <1>4, <1>5, <1>6 DEF HoldsOnly
<1>8. ASSUME pc'[t] = "acquire" PROVE WaitingFor(t) # {n}
  BY <1>2, <1>8, OneAgent DEF Goto, ThreadInv, Guarded
<1>9. WaitingFor(t)' = WaitingFor(t) \ {n}
  BY <1>2, <1>4, <1>5 DEF WaitingFor
<1>10. \A k \in req[t].keys : guard'[<<ProcOf[t], k>>] = t => k = n \/ guard[<<ProcOf[t], k>>] = t
  BY <1>4, <1>5
<1>. QED  BY <1>2, <1>3, <1>7, <1>8, <1>9, <1>10 DEF StillLacks

LEMMA LockStep ==
  ASSUME TypeInv, RequestInv, LockInv, Next
  PROVE  LockInv'
<1>. USE DEF TypeInv
<1>1. \A t \in Threads : HoldsOnly(t) /\ StillLacks(t)
  BY DEF LockInv, HoldsOnly, StillLacks
<1>2. SUFFICES ASSUME NEW u \in Threads PROVE HoldsOnly(u)' /\ StillLacks(u)'
  BY DEF LockInv, HoldsOnly, StillLacks
<1>3. ASSUME NEW S, Release(S), u \notin S PROVE \A l \in Locks : (guard'[l] = u) <=> (guard[l] = u)
  BY <1>3 DEF Release
<1>4. ASSUME NEW S, Release(S), u \in S, pc'[u] # "acquire" PROVE HoldsOnly(u)' /\ StillLacks(u)'
  <2>1. \A p \in Procs, k \in Keys : guard'[<<p, k>>] # u
    BY <1>4 DEF Release, Locks
  <2>. QED  BY <1>4, <2>1 DEF HoldsOnly, StillLacks
<1>5. ASSUME NEW t \in Threads, Acquire(t) PROVE HoldsOnly(u)' /\ StillLacks(u)'
  <2>1. CASE t = u
    BY <1>1, <1>5, <2>1, AcquireLocks
  <2>2. CASE t # u
    <3>1. Same(u)
      BY <1>5, <2>2, StepOthers DEF Step
    <3>2. guard[<<ProcOf[t], NextKey(t)>>] = Nobody /\ guard' = [guard EXCEPT ![<<ProcOf[t], NextKey(t)>>] = t]
      BY <1>5 DEF Acquire
    <3>3. \A l \in Locks : (guard'[l] = u) <=> (guard[l] = u)
      BY <2>2, <3>2 DEF DataInv
    <3>. QED  BY <1>1, <3>1, <3>3, LocksOfOthers
  <2>. QED  BY <2>1, <2>2
<1>6. ASSUME NEW t \in Threads, Step(t) \/ StorageError(t), ~Acquire(t) PROVE HoldsOnly(u)' /\ StillLacks(u)'
  <2>1. \/ UNCHANGED guard /\ (InGuard(t)' => InGuard(t) /\ req'[t] = req[t])
        \/ Release({t}) /\ ~InGuard(t)'
    BY <1>6, OtherSteps
  <2>2. CASE t # u
    <3>1. Same(u)
      BY <1>6, <2>2, StepOthers, ErrorOthers
    <3>2. \A l \in Locks : (guard'[l] = u) <=> (guard[l] = u)
      BY <1>3, <2>1, <2>2
    <3>. QED  BY <1>1, <3>1, <3>2, LocksOfOthers
  <2>3. CASE t = u
    <3>1. pc[t] # "acquire" /\ pc[t] # "idle"
      BY <1>6 DEF Step, StorageError, Recheck, CheckIdentity, CheckLease, ExpireLease, SaveExpiredLease,
         ConsumeLease, BlockJob, ClaimJob, CallProvider, CallRaises, SaveRun, SaveTrace, CompleteJob,
         FailJob, SubmitJob, CancelJob, RetryJob, DisableIdentity, DecideProduction, CancelAgentJobs
    <3>2. pc'[t] # "acquire"
      BY <1>6, <3>1, NotToAcquire
    <3>3. CASE Release({t})
      BY <1>4, <2>3, <3>2, <3>3
    <3>4. CASE UNCHANGED guard /\ InGuard(t)
      <4>1. Release({t}) \/ (InGuard(t)' /\ req'[t] = req[t])
        BY <1>6, <3>4, GuardedStays
      <4>. QED  BY <1>1, <2>3, <3>2, <3>3, <3>4, <4>1 DEF HoldsOnly, StillLacks
    <3>5. CASE UNCHANGED guard /\ ~InGuard(t)
      <4>1. \A p \in Procs, k \in Keys : guard[<<p, k>>] # t
        BY <1>1, <3>1, <3>5 DEF HoldsOnly
      <4>. QED  BY <2>3, <3>2, <3>5, <4>1 DEF HoldsOnly, StillLacks
    <3>. QED  BY <2>1, <3>3, <3>4, <3>5
  <2>. QED  BY <2>2, <2>3
<1>7. ASSUME NEW t \in Threads, BeginStep(t) PROVE HoldsOnly(u)' /\ StillLacks(u)'
  <2>1. UNCHANGED guard
    BY <1>7 DEF BeginStep, BeginProcessNext, BeginProcess, BeginSubmit, BeginCancel, BeginRetry,
       BeginRun, BeginKill, BeginDecide
  <2>2. Starts(t) /\ \A v \in Threads : v # t => Same(v)
    BY <1>7, BeginMoves
  <2>3. CASE t # u
    BY <1>1, <2>1, <2>2, <2>3, LocksOfOthers
  <2>4. CASE t = u
    <3>1. pc[t] = "idle"
      BY <2>2 DEF Starts
    <3>2. \A p \in Procs, k \in Keys : guard[<<p, k>>] # t
      <4>1. pc[t] # "acquire" /\ ~InGuard(t)
        BY <3>1 DEF InGuard
      <4>. QED  BY <1>1, <4>1 DEF HoldsOnly
    <3>3. HoldsOnly(u)'
      BY <2>1, <2>4, <3>2 DEF HoldsOnly
    <3>4. ASSUME pc'[t] = "acquire" PROVE WaitingFor(t)' = req'[t].keys /\ req'[t].keys # {}
      <4>1. TypeInv'
        BY TypeInvStep
      <4>2. req'[t].op \in {"process", "kill", "decide"} /\ req'[t].keys \subseteq Keys
        BY <3>4, <4>1, Serving, OpsAtValues DEF Placed, ThreadInv, Request
      <4>3. Faithful(req'[t])
        BY <2>2 DEF Starts
      <4>4. req'[t].keys # {}
        BY <4>2, <4>3 DEF Faithful
      <4>5. \A k \in req'[t].keys : guard'[<<ProcOf[t], k>>] # t
        BY <2>1, <3>2, <4>2
      <4>. QED  BY <4>4, <4>5 DEF WaitingFor
    <3>5. \A k \in req'[t].keys : k \in Keys
      <4>1. TypeInv'
        BY TypeInvStep
      <4>. QED  BY <4>1 DEF ThreadInv, Request
    <3>. QED  BY <2>1, <2>4, <3>2, <3>3, <3>4, <3>5 DEF StillLacks
  <2>. QED  BY <2>3, <2>4
<1>8. ASSUME NEW p \in Procs, Crash(p) PROVE HoldsOnly(u)' /\ StillLacks(u)'
  <2>1. Release({t \in Threads : ProcOf[t] = p})
    BY <1>8 DEF Crash
  <2>2. CASE ProcOf[u] = p
    <3>1. pc'[u] = "idle"
      BY <1>8, <2>2 DEF Crash
    <3>. QED  BY <1>4, <2>1, <2>2, <3>1
  <2>3. CASE ProcOf[u] # p
    <3>1. Same(u)
      BY <1>8, <2>3 DEF Crash, Same
    <3>2. \A l \in Locks : (guard'[l] = u) <=> (guard[l] = u)
      BY <1>3, <2>1, <2>3
    <3>. QED  BY <1>1, <3>1, <3>2, LocksOfOthers
  <2>. QED  BY <2>2, <2>3
<1>9. ASSUME RecordStep PROVE HoldsOnly(u)' /\ StillLacks(u)'
  <2>1. Same(u) /\ UNCHANGED guard
    BY <1>9 DEF RecordStep, IssueLease, TimePasses, RequestProduction, PatchIdentity, threads, Same
  <2>. QED  BY <1>1, <2>1, LocksOfOthers
<1>. QED  BY <1>5, <1>6, <1>7, <1>8, <1>9 DEF Next

\* Who is waited for is in the guard, or waits with the record id in hand for an
\* agentId, which only a request in the guard holds.
LEMMA WaitsAreShort ==
  ASSUME TypeInv, RequestInv, LockInv, NEW t \in Threads, Blocked(t)
  PROVE  GoesOn(Blocker(t)) \/ (Blocked(Blocker(t)) /\ GoesOn(Blocker(Blocker(t))))
<1>. USE DEF TypeInv
<1>1. ASSUME NEW v \in Threads, Blocked(v)
      PROVE  /\ Blocker(v) \in Threads /\ NextKey(v) \in req[v].keys /\ NextKey(v) \in Keys
             /\ guard[<<ProcOf[v], NextKey(v)>>] = Blocker(v) /\ Blocker(v) # v
             /\ ProcOf[Blocker(v)] = ProcOf[v] /\ NextKey(v) \in req[Blocker(v)].keys
             /\ pc[Blocker(v)] = "acquire" \/ InGuard(Blocker(v))
  <2>1. pc[v] = "acquire" /\ WaitingFor(v) # {}
    BY <1>1 DEF Blocked, LockInv
  <2>2. NextKey(v) \in req[v].keys /\ NextKey(v) \in Keys /\ guard[<<ProcOf[v], NextKey(v)>>] # v
    BY <2>1, NextKeySorted, OneAgent DEF WaitingFor
  <2>3. guard[<<ProcOf[v], NextKey(v)>>] = Blocker(v)
    BY DEF Blocker
  <2>4. Blocker(v) \in Threads
    BY <1>1, <2>2, <2>3 DEF Blocked, DataInv, Locks
  <2>. QED  BY <2>2, <2>3, <2>4 DEF LockInv
<1>2. PICK u \in Threads : u = Blocker(t)
  BY <1>1
<1>3. CASE ~Blocked(u)
  BY <1>1, <1>2, <1>3 DEF GoesOn
<1>4. CASE Blocked(u)
  <2>1. PICK v \in Threads : v = Blocker(u)
    BY <1>1, <1>4
  <2>2. PICK held \in Keys, next \in Keys : held = NextKey(t) /\ next = NextKey(u)
    BY <1>1, <1>4
  <2>3. pc[u] = "acquire"
    BY <1>4 DEF Blocked
  <2>4. /\ held \in req[u].keys /\ guard[<<ProcOf[u], held>>] = u
        /\ next \in req[u].keys /\ guard[<<ProcOf[u], next>>] # u
    BY <1>1, <1>2, <1>4, <2>2
  <2>5. held[2] = "identityId"
    BY <2>3, <2>4 DEF LockInv
  <2>6. held[1] = next[1] /\ held # next
    BY <2>3, <2>4, OneAgent
  <2>7. next[2] # "identityId"
    BY <2>5, <2>6 DEF Keys
  <2>8. ProcOf[v] = ProcOf[u] /\ next \in req[v].keys /\ guard[<<ProcOf[v], next>>] = v
        /\ (pc[v] = "acquire" \/ InGuard(v))
    BY <1>1, <1>4, <2>1, <2>2
  <2>9. InGuard(v)
    BY <2>7, <2>8 DEF LockInv
  <2>. QED  BY <1>2, <1>4, <2>1, <2>9 DEF GoesOn
<1>. QED  BY <1>3, <1>4

\* Waiting for the identity guard never closes into a circle and never depends on
\* a request that is over, for any numbers of threads, processes, agents and
\* faults: identity_execution_guard cannot deadlock.
THEOREM GuardCannotDeadlock == Spec => []WaitIsShort
<1>1. Init => LockInv
  BY DEF Init, LockInv, Locks
<1>2. ASSUME ClaimInv, LockInv, [Next]_vars PROVE LockInv'
  <2>1. CASE UNCHANGED vars
    <3>1. \A t \in Threads : WaitingFor(t)' = WaitingFor(t) /\ InGuard(t)' = InGuard(t)
      BY <2>1 DEF vars, WaitingFor, InGuard, IsJob
    <3>2. UNCHANGED <<guard, pc, req>>
      BY <2>1 DEF vars
    <3>. QED  BY <1>2, <3>1, <3>2 DEF LockInv
  <2>. QED  BY <1>2, <2>1, LockStep DEF ClaimInv
<1>3. ASSUME ClaimInv, LockInv PROVE WaitIsShort
  BY <1>3, WaitsAreShort DEF WaitIsShort, ClaimInv
<1>. QED  BY <1>1, <1>2, <1>3, ClaimInvariance, PTL DEF Spec

-----------------------------------------------------------------------------
(* The queue, the direct runtime and the lifecycle operations implement     *)
(* LeaseGrant.  A lease that has been issued stays issued: the plain save   *)
(* of an expired lease writes a lease read as active.                       *)

Grants == [l \in Leases |-> Grant(l)]

LeaseKnown == \A t \in Threads : pc[t] = "saveExpired" => lease[req[t].lease] # "none"

\* What the abstract state of a lease is, without the order of CASE.
GrantIs ==
  \A l \in Leases :
    /\ calls[l] = 1 => Grant(l) = "used"
    /\ calls[l] # 1 => calls[l] = 0
    /\ lease[l] = "none" => calls[l] = 0 /\ Grant(l) = "unissued"
    /\ lease[l] = "active" => calls[l] = 0 /\ Grant(l) = "live" /\ Holders(l) = {}
    /\ ~Unspent(l) /\ calls[l] = 0 /\ Holders(l) # {} => Grant(l) = "taken"
    /\ ~Unspent(l) /\ calls[l] = 0 /\ Holders(l) = {} => Grant(l) = "void"

LEMMA GrantValues == TypeInv /\ AuthorityInv => GrantIs
<1>. SUFFICES ASSUME TypeInv, AuthorityInv, NEW l \in Leases
     PROVE  /\ calls[l] = 1 => Grant(l) = "used"
            /\ calls[l] # 1 => calls[l] = 0
            /\ lease[l] = "none" => calls[l] = 0 /\ Grant(l) = "unissued"
            /\ lease[l] = "active" => calls[l] = 0 /\ Grant(l) = "live" /\ Holders(l) = {}
            /\ ~Unspent(l) /\ calls[l] = 0 /\ Holders(l) # {} => Grant(l) = "taken"
            /\ ~Unspent(l) /\ calls[l] = 0 /\ Holders(l) = {} => Grant(l) = "void"
  BY DEF GrantIs
<1>1. calls[l] \in Nat /\ calls[l] <= 1
  BY DEF AuthorityInv, TypeInv, DataInv
<1>2. Unspent(l) => calls[l] = 0 /\ Holders(l) = {}
  BY DEF AuthorityInv, Holders, Holds
<1>3. CASE calls[l] = 1
  <2>1. ~Unspent(l)
    BY <1>2, <1>3
  <2>. QED  BY <1>3, <2>1 DEF Grant, Unspent
<1>4. CASE calls[l] = 0
  BY <1>2, <1>4 DEF Grant, Unspent
<1>. QED  BY <1>1, <1>3, <1>4

\* A step that issues, takes and uses no lease voids some or none.
LEMMA QuietIsVoid ==
  ASSUME GrantIs, GrantIs', Quiet, \A l \in Leases : lease'[l] = "none" <=> lease[l] = "none",
         NoNewActive
  PROVE  LG!GrantNext \/ Grants' = Grants
<1>. DEFINE S == {l \in Leases : Grant(l) \in {"live", "taken"} /\ Grant(l)' = "void"}
<1>1. ASSUME NEW l \in Leases PROVE Grant(l)' = IF l \in S THEN "void" ELSE Grant(l)
  <2>1. calls'[l] = calls[l] /\ (Unspent(l)' => Unspent(l))
    BY DEF Quiet
  <2>2. Holders(l)' \subseteq Holders(l)
    BY DEF Quiet, NoNewHolder, Holders, Holds
  <2>3. CASE calls[l] = 1
    BY <2>1, <2>3 DEF GrantIs
  <2>4. CASE calls[l] = 0 /\ lease[l] = "none"
    BY <2>1, <2>4 DEF GrantIs
  <2>5. CASE calls[l] = 0 /\ lease[l] = "active"
    BY <2>1, <2>2, <2>5 DEF GrantIs, Unspent
  <2>6. CASE calls[l] = 0 /\ ~Unspent(l)
    BY <2>1, <2>2, <2>6 DEF GrantIs
  <2>. QED  BY <2>3, <2>4, <2>5, <2>6 DEF GrantIs, Unspent
<1>2. Grants' = [l \in Leases |-> IF l \in S THEN "void" ELSE Grants[l]]
  BY <1>1 DEF Grants
<1>3. S \in SUBSET Leases /\ \A l \in S : Grants[l] \in {"live", "taken"}
  BY DEF Grants
<1>4. LG!Void(S)
  BY <1>2, <1>3 DEF LG!Void, Grants
<1>. QED  BY <1>3, <1>4 DEF LG!GrantNext

\* One lease moves and the others stay.
LEMMA OneGrantMoves ==
  ASSUME NEW l \in Leases, \A k \in Leases : k # l => Grant(k)' = Grant(k),
         \/ Grant(l) = "unissued" /\ Grant(l)' = "live"
         \/ Grant(l) = "live" /\ Grant(l)' = "taken"
         \/ Grant(l) = "taken" /\ Grant(l)' = "used"
  PROVE  LG!GrantNext
<1>1. Grants[l] = Grant(l) /\ Grants' = [Grants EXCEPT ![l] = Grant(l)']
  BY DEF Grants
<1>. QED  BY <1>1 DEF LG!GrantNext, LG!Issue, LG!Take, LG!Use, LG!Move, Grants

\* No step but the issue of a lease makes one active, and none unissues one.
LEMMA IssuedStays ==
  ASSUME TypeInv, LeaseKnown, Next, \A l \in Leases : ~IssueLease(l)
  PROVE  NoNewActive /\ \A l \in Leases : lease'[l] = "none" <=> lease[l] = "none"
<1>. USE DEF TypeInv, DataInv, NoNewActive
<1>. DEFINE Kept == /\ NoNewActive
                    /\ \A l \in Leases : lease'[l] = "none" <=> lease[l] = "none"
<1>1. ASSUME NEW S, RevokeLeases(S), \A l \in S : lease[l] = "active" PROVE Kept
  BY <1>1 DEF RevokeLeases
<1>2. \A a, envs : \A l \in ActiveLeases(a, envs) : lease[l] = "active"
  BY DEF ActiveLeases
<1>3. ASSUME NEW t \in Threads, Step(t) PROVE Kept
  <2>1. CASE ExpireLease(t)
    BY <2>1 DEF ExpireLease, SetLease
  <2>2. CASE SaveExpiredLease(t)
    BY <2>2 DEF SaveExpiredLease, SetLease, LeaseKnown
  <2>3. CASE ConsumeLease(t)
    BY <2>3 DEF ConsumeLease, SetLease
  <2>4. CASE DisableIdentity(t)
    BY <1>1, <1>2, <2>4 DEF DisableIdentity
  <2>5. CASE DecideProduction(t)
    <3>1. UNCHANGED lease \/ RevokeLeases(ActiveLeases(req[t].agent, {"prod"}))
      BY <2>5 DEF DecideProduction
    <3>. QED  BY <1>1, <1>2, <3>1
  <2>6. CASE ~(ExpireLease(t) \/ SaveExpiredLease(t) \/ ConsumeLease(t) \/ DisableIdentity(t) \/ DecideProduction(t))
    BY <1>3, <2>6 DEF Step, database, Acquire, Recheck, CheckIdentity, CheckLease, BlockJob, ClaimJob,
       CallProvider, CallRaises, SaveRun, SaveTrace, CompleteJob, FailJob, SubmitJob, CancelJob, RetryJob,
       CancelAgentJobs
  <2>. QED  BY <2>1, <2>2, <2>3, <2>4, <2>5, <2>6
<1>4. CASE RecordStep
  <2>1. ASSUME NEW l \in Leases, TimePasses(l) PROVE Kept
    BY <2>1 DEF TimePasses
  <2>2. ASSUME NEW a \in Agents, RequestProduction(a) PROVE Kept
    BY <1>1, <1>2, <2>2 DEF RequestProduction
  <2>3. ASSUME NEW a \in Agents, NEW b \in BOOLEAN, PatchIdentity(a, b) PROVE Kept
    BY <1>1, <1>2, <2>3 DEF PatchIdentity
  <2>. QED  BY <1>4, <2>1, <2>2, <2>3 DEF RecordStep
<1>5. ASSUME ~RecordStep, ~\E t \in Threads : Step(t) PROVE Kept
  <2>1. UNCHANGED lease
    BY <1>5 DEF Next, BeginStep, BeginProcessNext, BeginProcess, BeginSubmit, BeginCancel, BeginRetry,
       BeginRun, BeginKill, BeginDecide, StorageError, Crash, database
  <2>. QED  BY <2>1
<1>. QED  BY <1>3, <1>4, <1>5

LEMMA KnownStays ==
  ASSUME TypeInv, LeaseKnown, Next
  PROVE  LeaseKnown'
<1>1. SUFFICES ASSUME NEW t \in Threads, pc'[t] = "saveExpired"
               PROVE  lease'[req'[t].lease] # "none"
  BY DEF LeaseKnown
<1>2. Moved(t)
  BY NextMoves
<1>3. req'[t] = req[t] /\ lease[req[t].lease] # "none"
  BY <1>1, <1>2 DEF Moved, Served, Same, Starts, Goes, Ends, LeaseKnown
<1>4. req[t].lease \in Leases
  <2>1. req'[t].op \in OpsAt("saveExpired") /\ WellFormed(req'[t])
    BY <1>1, TypeInvStep DEF TypeInv, ThreadInv, Placed
  <2>. QED  BY <1>3, <2>1, OpsAtValues DEF WellFormed
<1>5. ASSUME NEW l \in Leases, IssueLease(l) PROVE lease'[req[t].lease] # "none"
  BY <1>3, <1>4, <1>5 DEF IssueLease, SetLease, TypeInv, DataInv
<1>. QED  BY <1>3, <1>4, <1>5, IssuedStays

LEMMA IssueIsGrant ==
  ASSUME TypeInv, GrantIs, GrantIs', NEW l \in Leases, IssueLease(l)
  PROVE  LG!GrantNext
<1>1. UNCHANGED <<calls, pc, req>> /\ lease' = [lease EXCEPT ![l] = "active"] /\ lease[l] = "none"
  BY DEF IssueLease, threads, history, SetLease
<1>2. \A k \in Leases : k # l => Grant(k)' = Grant(k)
  BY <1>1 DEF Grant, Holders
<1>3. Grant(l) = "unissued" /\ Grant(l)' = "live"
  BY <1>1 DEF GrantIs, TypeInv, DataInv
<1>. QED  BY <1>2, <1>3, OneGrantMoves

LEMMA ConsumeIsGrant ==
  ASSUME TypeInv, AuthorityInv, GrantIs, GrantIs', LeaseKnown, NEW t \in Threads, ConsumeLease(t), Next
  PROVE  LG!GrantNext \/ Grants' = Grants
<1>1. PICK l \in Leases : l = req[t].lease
  BY LeaseServed DEF ConsumeLease, TypeInv
<1>2. UNCHANGED calls
  BY DEF ConsumeLease, history
<1>3. CASE lease[l] = "active"
  <2>1. /\ lease' = [lease EXCEPT ![l] = "consumed"] /\ UNCHANGED req /\ pc[t] = "consume"
        /\ \E label \in {"claim", "call"} : pc' = [pc EXCEPT ![t] = label]
    BY <1>1, <1>3 DEF ConsumeLease, Goto, SetLease
  <2>2. ASSUME NEW k \in Leases, k # l PROVE Grant(k)' = Grant(k)
    <3>1. Holders(k)' = Holders(k)
      BY <1>1, <2>1, <2>2 DEF Holders, TypeInv, ThreadInv
    <3>2. lease'[k] = lease[k] /\ calls'[k] = calls[k]
      BY <1>2, <2>1, <2>2
    <3>. QED  BY <3>1, <3>2 DEF Grant
  <2>3. t \in Holders(l)'
    BY <1>1, <2>1 DEF Holders, TypeInv, ThreadInv
  <2>4. Grant(l) = "live" /\ calls'[l] = 0 /\ lease'[l] = "consumed"
    BY <1>1, <1>2, <1>3, <2>1 DEF GrantIs, TypeInv, DataInv
  <2>5. Grant(l)' = "taken"
    BY <1>1, <2>3, <2>4 DEF GrantIs, Unspent
  <2>. QED  BY <1>1, <2>2, <2>4, <2>5, OneGrantMoves
<1>4. CASE lease[l] # "active"
  <2>1. Refuse(t) /\ UNCHANGED lease
    BY <1>1, <1>4 DEF ConsumeLease
  <2>2. Quiet
    BY <1>2, <2>1, RefuseQuiet DEF Quiet, Unspent, TypeInv
  <2>. QED  BY <2>1, <2>2, QuietIsVoid DEF NoNewActive
<1>. QED  BY <1>3, <1>4

LEMMA CallIsGrant ==
  ASSUME TypeInv, AuthorityInv, GrantIs, GrantIs', NEW t \in Threads, CallProvider(t) \/ CallRaises(t)
  PROVE  LG!GrantNext \/ Grants' = Grants
<1>1. PICK l \in Leases : l = req[t].lease /\ Holds(t, l) /\ UNCHANGED lease
  BY LeaseServed DEF CallProvider, CallRaises, TypeInv, Holds, database
<1>2. NoNewHolder
  BY GotoQuiet, ReturnQuiet DEF CallProvider, CallRaises, TypeInv
<1>3. CASE UNCHANGED calls
  BY <1>1, <1>2, <1>3, QuietIsVoid DEF Quiet, Unspent, NoNewActive
<1>4. CASE calls' = [calls EXCEPT ![l] = @ + 1]
  <2>1. calls[l] = 0 /\ ~Unspent(l) /\ Holders(l) # {}
    BY <1>1 DEF AuthorityInv, Holders, Holds
  <2>2. Grant(l) = "taken"
    BY <1>1, <2>1 DEF GrantIs
  <2>3. calls'[l] = 1
    BY <1>1, <1>4, <2>1 DEF TypeInv, DataInv
  <2>4. Grant(l)' = "used"
    BY <1>1, <2>3 DEF GrantIs
  <2>5. ASSUME NEW k \in Leases, k # l PROVE Grant(k)' = Grant(k)
    <3>1. \A u \in Threads : u # t => Same(u)
      BY StepOthers DEF Step
    <3>2. t \notin Holders(k)
      BY <1>1, <2>5 DEF Holders, Holds
    <3>3. t \notin Holders(k)'
      BY <1>2, <3>2 DEF NoNewHolder, Holders, Holds
    <3>4. Holders(k)' = Holders(k)
      BY <3>1, <3>2, <3>3 DEF Holders, Same
    <3>5. lease'[k] = lease[k] /\ calls'[k] = calls[k]
      BY <1>1, <1>4, <2>5 DEF TypeInv, DataInv
    <3>. QED  BY <3>4, <3>5 DEF Grant
  <2>. QED  BY <1>1, <2>2, <2>4, <2>5, OneGrantMoves
<1>. QED  BY <1>1, <1>3, <1>4 DEF CallProvider, CallRaises, CountCall

LEMMA StepIsGrant ==
  ASSUME TypeInv, AuthorityInv, GrantIs, GrantIs', LeaseKnown, [Next]_vars
  PROVE  LG!GrantNext \/ Grants' = Grants
<1>1. CASE UNCHANGED vars
  BY <1>1 DEF vars, Grants, Grant, Holders
<1>2. ASSUME NEW l \in Leases, IssueLease(l) PROVE LG!GrantNext
  BY <1>2, IssueIsGrant
<1>3. ASSUME Next, Quiet, \A l \in Leases : ~IssueLease(l) PROVE LG!GrantNext \/ Grants' = Grants
  BY <1>3, IssuedStays, QuietIsVoid
<1>4. ASSUME NEW t \in Threads, Step(t), Next, \A l \in Leases : ~IssueLease(l)
      PROVE  LG!GrantNext \/ Grants' = Grants
  BY <1>3, <1>4, StepQuiet, ConsumeIsGrant, CallIsGrant
<1>. QED  BY <1>1, <1>2, <1>3, <1>4, BeginStepQuiet, FaultQuiet, RecordQuiet DEF Next

\* The queue, the direct runtime and the lifecycle operations, with their faults,
\* implement LeaseGrant: a lease is taken by one execution, used once at most, and
\* never given back.
THEOREM JobQueueImplementsLeaseGrant == Spec => ImplementsLeaseGrant
<1>1. Init => LG!GrantInit
  BY DEF Init, LG!GrantInit, Grant
<1>2. Init => LeaseKnown
  BY DEF Init, LeaseKnown
<1>3. TypeInv /\ LeaseKnown /\ [Next]_vars => LeaseKnown'
  BY KnownStays DEF vars, LeaseKnown
<1>4. TypeInv /\ AuthorityInv /\ GrantIs /\ GrantIs' /\ LeaseKnown /\ [Next]_vars => [LG!GrantNext]_Grants
  BY StepIsGrant
<1>. QED  BY <1>1, <1>2, <1>3, <1>4, GrantValues, ClaimInvariance, PTL
          DEF Spec, ClaimInv, ImplementsLeaseGrant, LG!GrantSpec, Grants
=============================================================================
