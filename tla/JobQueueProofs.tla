--------------------------- MODULE JobQueueProofs ---------------------------
(* Theorems about JobQueue, for every value of its constants.               *)
EXTENDS JobQueue, TLAPS

\* The requests a thread can be serving at a label.
OpsAt(label) ==
  CASE label = "idle" -> {None}
    [] label = "acquire" -> {"process", "kill", "decide"}
    [] label \in {"recheck", "expire", "block", "claim", "complete", "fail"} -> {"process"}
    [] label \in {"identity", "lease"} -> {"process", "run", "submit"}
    [] label \in {"consume", "call", "saveRun", "saveTrace"} -> {"process", "run"}
    [] label = "saveExpired" -> {"run", "submit"}
    [] label = "saveJob" -> {"submit"}
    [] label = "saveCancel" -> {"cancel"}
    [] label = "saveRetry" -> {"retry"}
    [] label = "disable" -> {"kill"}
    [] label = "decide" -> {"decide"}
    [] label = "cancelJobs" -> {"kill", "decide"}

\* A request names what its handler is going to write.
WellFormed(r) ==
  /\ r \in Request
  /\ r.op \in {"process", "submit", "cancel", "retry"} => r.job \in Jobs
  /\ r.op \in {"process", "run", "submit"} => r.lease \in Leases
  /\ r.op \in {"kill", "decide"} => r.agent \in Agents

Placed == \A t \in Threads : req[t].op \in OpsAt(pc[t]) /\ WellFormed(req[t])

ThreadInv ==
  /\ pc \in [Threads -> Labels]
  /\ req \in [Threads -> Request]
  /\ snap \in [Threads -> JobRecord]
  /\ Placed

DataInv ==
  /\ identity \in [Agents -> IdentityRecord]
  /\ lease \in [Leases -> LeaseStatus]
  /\ late \subseteq Leases
  /\ job \in [Jobs -> JobRecord]
  /\ order \in Seq(Jobs)
  /\ runRecs \subseteq Jobs \cup Leases /\ traceRecs \subseteq Jobs \cup Leases
  /\ guard \in [Locks -> Threads \cup {Nobody}]
  /\ faults \in Nat
  /\ calls \in [Leases -> Nat]
  /\ killed \subseteq Keys
  /\ wasCancelled \subseteq Jobs

TypeInv == ThreadInv /\ DataInv

USE ConstantsAssumption

LEMMA TypeInvImpliesTypeOK == TypeInv => TypeOK
  BY DEF TypeInv, TypeOK, ThreadInv, DataInv

-----------------------------------------------------------------------------
(* The values the definitions are built from.                               *)

LEMMA OpsAtValues ==
  /\ OpsAt("idle") = {None}
  /\ OpsAt("acquire") = {"process", "kill", "decide"}
  /\ \A x \in {"recheck", "expire", "block", "claim", "complete", "fail"} : OpsAt(x) = {"process"}
  /\ OpsAt("identity") = {"process", "run", "submit"}
  /\ OpsAt("lease") = {"process", "run", "submit"}
  /\ \A x \in {"consume", "call", "saveRun", "saveTrace"} : OpsAt(x) = {"process", "run"}
  /\ OpsAt("saveExpired") = {"run", "submit"}
  /\ OpsAt("saveJob") = {"submit"}
  /\ OpsAt("saveCancel") = {"cancel"}
  /\ OpsAt("saveRetry") = {"retry"}
  /\ OpsAt("disable") = {"kill"}
  /\ OpsAt("decide") = {"decide"}
  /\ OpsAt("cancelJobs") = {"kill", "decide"}
  BY DEF OpsAt

LEMMA NoReqWellFormed == WellFormed(NoReq) /\ NoReq.op = None
  BY DEF WellFormed, NoReq, Request, Ops

LEMMA NoJobType == NoJob \in JobRecord
  BY DEF NoJob, JobRecord, JobStatus

LEMMA JobReqWellFormed ==
  ASSUME NEW op \in {"process", "submit"}, NEW j \in Jobs
  PROVE  WellFormed(JobReq(op, j)) /\ JobReq(op, j).op = op
  BY DEF WellFormed, JobReq, NoReq, Request, Ops, Envs

-----------------------------------------------------------------------------
(* The three ways a thread moves.                                           *)

LEMMA MoveType ==
  ASSUME ThreadInv, NEW t \in Threads, NEW label \in Labels, NEW r,
         WellFormed(r), r.op \in OpsAt(label),
         Goto(t, label), req' = [req EXCEPT ![t] = r], UNCHANGED snap
  PROVE  ThreadInv'
  BY DEF ThreadInv, Placed, Goto, WellFormed

LEMMA GotoType ==
  ASSUME ThreadInv, NEW t \in Threads, NEW label \in Labels,
         req[t].op \in OpsAt(label), Goto(t, label), UNCHANGED req,
         snap' \in [Threads -> JobRecord]
  PROVE  ThreadInv'
  BY DEF ThreadInv, Placed, Goto

LEMMA ReturnType ==
  ASSUME ThreadInv, NEW t \in Threads, Return(t)
  PROVE  ThreadInv'
  BY NoReqWellFormed, NoJobType, OpsAtValues
     DEF ThreadInv, Placed, Return, Goto, Labels, WellFormed

LEMMA ReleaseType ==
  ASSUME NEW S, guard \in [Locks -> Threads \cup {Nobody}], Release(S)
  PROVE  guard' \in [Locks -> Threads \cup {Nobody}]
  BY DEF Release

LEMMA RefuseType ==
  ASSUME ThreadInv, NEW t \in Threads, Refuse(t)
  PROVE  ThreadInv'
<1>1. CASE IsJob(t)
  <2>1. Goto(t, "block") /\ UNCHANGED <<req, snap>>
    BY <1>1 DEF Refuse
  <2>2. req[t].op \in OpsAt("block")
    BY <1>1, OpsAtValues DEF IsJob
  <2>. QED  BY <2>1, <2>2, GotoType DEF ThreadInv, Labels
<1>2. CASE ~IsJob(t)
  BY <1>2, ReturnType DEF Refuse
<1>. QED  BY <1>1, <1>2

LEMMA SnapType ==
  ASSUME ThreadInv, NEW t \in Threads, NEW rec \in JobRecord, snap' = [snap EXCEPT ![t] = rec]
  PROVE  snap' \in [Threads -> JobRecord]
  BY DEF ThreadInv

\* What the label of a thread says of the request it serves.
LEMMA Serving ==
  ASSUME ThreadInv, NEW t \in Threads
  PROVE  /\ pc[t] \in Labels
         /\ req[t].op \in OpsAt(pc[t])
         /\ req[t] \in Request
         /\ req[t].op \in {"process", "submit", "cancel", "retry"} => req[t].job \in Jobs
         /\ req[t].op \in {"process", "run", "submit"} => req[t].lease \in Leases
         /\ req[t].op \in {"kill", "decide"} => req[t].agent \in Agents
         /\ snap[t] \in JobRecord
  BY DEF ThreadInv, Placed, WellFormed

LEMMA JobServed ==
  ASSUME ThreadInv, NEW t \in Threads,
         pc[t] \in {"recheck", "expire", "block", "claim", "complete", "fail",
                   "saveJob", "saveCancel", "saveRetry"}
  PROVE  req[t].job \in Jobs
<1>1. req[t].op \in {"process", "submit", "cancel", "retry"}
  BY Serving, OpsAtValues
<1>. QED  BY <1>1, Serving

LEMMA LeaseServed ==
  ASSUME ThreadInv, NEW t \in Threads,
         pc[t] \in {"identity", "lease", "expire", "saveExpired", "consume", "claim", "call"}
  PROVE  req[t].lease \in Leases
<1>1. req[t].op \in {"process", "run", "submit"}
  BY Serving, OpsAtValues
<1>. QED  BY <1>1, Serving

LEMMA SetJobType ==
  ASSUME job \in [Jobs -> JobRecord], NEW j \in Jobs, NEW rec \in JobRecord, SetJob(j, rec)
  PROVE  job' \in [Jobs -> JobRecord]
  BY DEF SetJob

LEMMA SetLeaseType ==
  ASSUME lease \in [Leases -> LeaseStatus], NEW l, NEW s \in LeaseStatus, SetLease(l, s)
  PROVE  lease' \in [Leases -> LeaseStatus]
  BY DEF SetLease

LEMMA CompareAndSetType ==
  ASSUME job \in [Jobs -> JobRecord], NEW j \in Jobs, NEW from, NEW rec \in JobRecord,
         CompareAndSetJob(j, from, rec)
  PROVE  job' \in [Jobs -> JobRecord]
  BY DEF SetJob, CompareAndSetJob

LEMMA PatchType ==
  ASSUME NEW r \in JobRecord, NEW s \in JobStatus, NEW b \in BOOLEAN, NEW n \in Nat
  PROVE  /\ [r EXCEPT !.status = s] \in JobRecord
         /\ [r EXCEPT !.status = s, !.run = b] \in JobRecord
         /\ [r EXCEPT !.attempts = n] \in JobRecord
         /\ [r EXCEPT !.status = s, !.attempts = n] \in JobRecord
         /\ r.attempts \in Nat
<1>1. [r EXCEPT !.status = s] \in JobRecord
  BY DEF JobRecord
<1>2. [r EXCEPT !.status = s, !.run = b] \in JobRecord
  BY DEF JobRecord
<1>3. [r EXCEPT !.attempts = n] \in JobRecord
  BY DEF JobRecord
<1>4. [r EXCEPT !.status = s, !.attempts = n] \in JobRecord
  BY DEF JobRecord
<1>5. r.attempts \in Nat
  BY DEF JobRecord
<1>. QED  BY <1>1, <1>2, <1>3, <1>4, <1>5

-----------------------------------------------------------------------------
(* TypeInv is inductive: one step per action.                               *)

LEMMA GuardSteps ==
  ASSUME TypeInv, NEW t \in Threads
  PROVE  /\ Acquire(t) => TypeInv'
         /\ Recheck(t) => TypeInv'
         /\ CheckIdentity(t) => TypeInv'
         /\ CheckLease(t) => TypeInv'
<1>. USE Serving, OpsAtValues DEF TypeInv
<1>1. ASSUME Acquire(t) PROVE TypeInv'
  <2>1. Guarded(req[t].op) \in Labels /\ req[t].op \in OpsAt(Guarded(req[t].op))
    BY <1>1 DEF Acquire, Guarded, Labels
  <2>2. PICK label \in Labels : Goto(t, label) /\ req[t].op \in OpsAt(label)
    BY <1>1, <2>1 DEF Acquire, Labels
  <2>3. ThreadInv'
    BY <1>1, <2>2, GotoType DEF Acquire, ThreadInv
  <2>4. guard' \in [Locks -> Threads \cup {Nobody}]
    BY <1>1 DEF Acquire, DataInv
  <2>. QED  BY <1>1, <2>3, <2>4 DEF Acquire, DataInv, database, history
<1>2. ASSUME Recheck(t) PROVE TypeInv'
  <2>1. CASE job[req[t].job].status = "queued"
    <3>1. Goto(t, "identity") /\ UNCHANGED <<guard, req>> /\ snap' = [snap EXCEPT ![t] = job[req[t].job]]
      BY <1>2, <2>1 DEF Recheck
    <3>2. job[req[t].job] \in JobRecord
      BY <1>2, JobServed DEF Recheck, DataInv
    <3>3. ThreadInv'
      <4>1. req[t].op \in OpsAt("identity")
        BY <1>2, Serving DEF Recheck
      <4>. QED  BY <3>1, <3>2, <4>1, SnapType, GotoType DEF Labels
    <3>. QED  BY <1>2, <3>1, <3>3 DEF Recheck, DataInv, database, history
  <2>2. CASE job[req[t].job].status # "queued"
    <3>1. Release({t}) /\ Return(t)
      BY <1>2, <2>2 DEF Recheck
    <3>2. guard' \in [Locks -> Threads \cup {Nobody}]
      BY <3>1, ReleaseType DEF DataInv
    <3>. QED  BY <1>2, <3>1, <3>2, ReturnType DEF Recheck, DataInv, database, history
  <2>. QED  BY <2>1, <2>2
<1>3. ASSUME CheckIdentity(t) PROVE TypeInv'
  <2>1. CASE Permits(req[t].agent, req[t].env)
    <3>1. Goto(t, "lease") /\ UNCHANGED <<req, snap>>
      BY <1>3, <2>1 DEF CheckIdentity
    <3>2. req[t].op \in OpsAt("lease")
      BY <1>3 DEF CheckIdentity
    <3>3. ThreadInv'
      BY <3>1, <3>2, GotoType DEF ThreadInv, Labels
    <3>. QED  BY <1>3, <3>3 DEF CheckIdentity, DataInv, database, history
  <2>2. CASE ~Permits(req[t].agent, req[t].env)
    BY <1>3, <2>2, RefuseType DEF CheckIdentity, DataInv, database, history
  <2>. QED  BY <2>1, <2>2
<1>4. ASSUME CheckLease(t) PROVE TypeInv'
  <2>1. CASE lease[req[t].lease] = "active" /\ Bound(t)
    <3>1. PICK label \in {"expire", "saveExpired", "saveJob", "consume"} :
            Goto(t, label) /\ req[t].op \in OpsAt(label)
      BY <1>4, <2>1 DEF CheckLease, IsJob
    <3>2. ThreadInv'
      BY <1>4, <2>1, <3>1, GotoType DEF CheckLease, ThreadInv, Labels
    <3>. QED  BY <1>4, <3>2 DEF CheckLease, DataInv, database, history
  <2>2. CASE ~(lease[req[t].lease] = "active" /\ Bound(t))
    BY <1>4, <2>2, RefuseType DEF CheckLease, DataInv, database, history
  <2>. QED  BY <2>1, <2>2
<1>. QED  BY <1>1, <1>2, <1>3, <1>4

LEMMA LeaseSteps ==
  ASSUME TypeInv, NEW t \in Threads
  PROVE  /\ ExpireLease(t) => TypeInv'
         /\ SaveExpiredLease(t) => TypeInv'
         /\ ConsumeLease(t) => TypeInv'
         /\ BlockJob(t) => TypeInv'
         /\ ClaimJob(t) => TypeInv'
<1>. USE OpsAtValues DEF TypeInv
<1>1. ASSUME ExpireLease(t) PROVE TypeInv'
  <2>1. lease' \in [Leases -> LeaseStatus]
    <3>1. req[t].lease \in Leases
      BY <1>1, LeaseServed DEF ExpireLease
    <3>2. lease[req[t].lease] \in LeaseStatus /\ "expired" \in LeaseStatus
      BY <3>1 DEF DataInv, LeaseStatus
    <3>. QED  BY <1>1, <3>2, SetLeaseType DEF ExpireLease, DataInv
  <2>. QED  BY <1>1, <2>1, RefuseType DEF ExpireLease, DataInv, history
<1>2. ASSUME SaveExpiredLease(t) PROVE TypeInv'
  <2>1. lease' \in [Leases -> LeaseStatus]
    BY <1>2, SetLeaseType DEF SaveExpiredLease, DataInv, LeaseStatus
  <2>. QED  BY <1>2, <2>1, ReturnType DEF SaveExpiredLease, DataInv, history
<1>3. ASSUME ConsumeLease(t) PROVE TypeInv'
  <2>1. lease' \in [Leases -> LeaseStatus]
    <3>1. "consumed" \in LeaseStatus
      BY DEF LeaseStatus
    <3>2. SetLease(req[t].lease, "consumed") \/ UNCHANGED lease
      BY <1>3 DEF ConsumeLease
    <3>. QED  BY <3>1, <3>2, SetLeaseType DEF DataInv
  <2>2. ThreadInv'
    <3>1. CASE lease[req[t].lease] = "active"
      <4>1. PICK label \in {"claim", "call"} : Goto(t, label) /\ req[t].op \in OpsAt(label)
        BY <1>3, <3>1, Serving DEF ConsumeLease, IsJob
      <4>. QED  BY <1>3, <3>1, <4>1, GotoType DEF ConsumeLease, ThreadInv, Labels
    <3>2. CASE lease[req[t].lease] # "active"
      BY <1>3, <3>2, RefuseType DEF ConsumeLease
    <3>. QED  BY <3>1, <3>2
  <2>. QED  BY <1>3, <2>1, <2>2 DEF ConsumeLease, DataInv, history
<1>4. ASSUME BlockJob(t) PROVE TypeInv'
  <2>1. job' \in [Jobs -> JobRecord]
    <3>1. req[t].job \in Jobs /\ "blocked" \in JobStatus
      BY <1>4, JobServed DEF BlockJob, JobStatus
    <3>. QED  BY <1>4, <3>1, PatchType, CompareAndSetType DEF BlockJob, DataInv
  <2>2. guard' \in [Locks -> Threads \cup {Nobody}]
    BY <1>4, ReleaseType DEF BlockJob, DataInv
  <2>. QED  BY <1>4, <2>1, <2>2, ReturnType DEF BlockJob, DataInv, history
<1>5. ASSUME ClaimJob(t) PROVE TypeInv'
  <2>1. guard' \in [Locks -> Threads \cup {Nobody}]
    BY <1>5, ReleaseType DEF ClaimJob, DataInv
  <2>2. snap[t] \in JobRecord /\ snap[t].attempts \in Nat
    BY Serving DEF JobRecord
  <2>3. CASE job[req[t].job].status = "queued"
    <3>1. job' \in [Jobs -> JobRecord]
      <4>1. req[t].job \in Jobs /\ "running" \in JobStatus
        BY <1>5, JobServed DEF ClaimJob, JobStatus
      <4>2. [job[req[t].job] EXCEPT !.status = "running", !.attempts = snap[t].attempts + 1] \in JobRecord
        <5>1. snap[t].attempts + 1 \in Nat /\ job[req[t].job] \in JobRecord
          BY <2>2, <4>1 DEF DataInv
        <5>. QED  BY <4>1, <5>1, PatchType
      <4>. QED  BY <1>5, <2>3, <4>1, <4>2, SetJobType DEF ClaimJob, DataInv
    <3>2. snap' \in [Threads -> JobRecord]
      BY <1>5, <2>2, <2>3 DEF ClaimJob, ThreadInv, JobRecord
    <3>3. Goto(t, "call") /\ UNCHANGED req /\ req[t].op \in OpsAt("call")
      BY <1>5, <2>3, Serving DEF ClaimJob
    <3>4. ThreadInv'
      BY <3>2, <3>3, GotoType DEF Labels
    <3>. QED  BY <1>5, <2>1, <3>1, <3>4 DEF ClaimJob, DataInv, history
  <2>4. CASE job[req[t].job].status # "queued"
    BY <1>5, <2>1, <2>4, ReturnType DEF ClaimJob, DataInv, history
  <2>. QED  BY <2>3, <2>4
<1>. QED  BY <1>1, <1>2, <1>3, <1>4, <1>5

LEMMA ExecutionSteps ==
  ASSUME TypeInv, NEW t \in Threads
  PROVE  /\ CallProvider(t) => TypeInv'
         /\ CallRaises(t) => TypeInv'
         /\ SaveRun(t) => TypeInv'
         /\ SaveTrace(t) => TypeInv'
         /\ CompleteJob(t) => TypeInv'
         /\ FailJob(t) => TypeInv'
<1>. USE OpsAtValues DEF TypeInv
<1>0. ASSUME CountCall(t) \/ UNCHANGED calls PROVE calls' \in [Leases -> Nat]
  BY <1>0 DEF CountCall, DataInv
<1>1. ASSUME CallProvider(t) PROVE TypeInv'
  <2>1. req[t].op \in OpsAt("saveRun")
    BY <1>1, Serving DEF CallProvider
  <2>2. ThreadInv'
    BY <1>1, <2>1, GotoType DEF CallProvider, ThreadInv, Labels
  <2>. QED  BY <1>0, <1>1, <2>2 DEF CallProvider, DataInv, database
<1>2. ASSUME CallRaises(t) PROVE TypeInv'
  <2>1. CountCall(t) \/ UNCHANGED calls
    BY <1>2 DEF CallRaises
  <2>2. ThreadInv'
    <3>1. CASE IsJob(t)
      <4>1. Goto(t, "fail") /\ UNCHANGED <<req, snap>> /\ req[t].op \in OpsAt("fail")
        BY <1>2, <3>1 DEF CallRaises, IsJob
      <4>. QED  BY <4>1, GotoType DEF ThreadInv, Labels
    <3>2. CASE ~IsJob(t)
      BY <1>2, <3>2, ReturnType DEF CallRaises
    <3>. QED  BY <3>1, <3>2
  <2>. QED  BY <1>0, <1>2, <2>1, <2>2 DEF CallRaises, DataInv, database
<1>3. ASSUME SaveRun(t) \/ SaveTrace(t) PROVE Owner(t) \in Jobs \cup Leases
  <2>1. req[t].op \in {"process", "run"}
    BY <1>3, Serving DEF SaveRun, SaveTrace
  <2>. QED  BY <2>1, Serving DEF Owner, IsJob
<1>4. ASSUME SaveRun(t) PROVE TypeInv'
  <2>1. Goto(t, "saveTrace") /\ UNCHANGED <<req, snap>> /\ req[t].op \in OpsAt("saveTrace")
    BY <1>4, Serving DEF SaveRun
  <2>2. ThreadInv'
    BY <2>1, GotoType DEF ThreadInv, Labels
  <2>. QED  BY <1>3, <1>4, <2>2 DEF SaveRun, DataInv, history
<1>5. ASSUME SaveTrace(t) PROVE TypeInv'
  <2>1. CASE IsJob(t)
    <3>1. Goto(t, "complete") /\ UNCHANGED <<req, snap>> /\ req[t].op \in OpsAt("complete")
      BY <1>5, <2>1 DEF SaveTrace, IsJob
    <3>2. ThreadInv'
      BY <3>1, GotoType DEF ThreadInv, Labels
    <3>. QED  BY <1>3, <1>5, <3>2 DEF SaveTrace, DataInv, history
  <2>2. CASE ~IsJob(t)
    BY <1>3, <1>5, <2>2, ReturnType DEF SaveTrace, DataInv, history
  <2>. QED  BY <2>1, <2>2
<1>6. ASSUME CompleteJob(t) PROVE TypeInv'
  <2>1. job' \in [Jobs -> JobRecord]
    <3>1. req[t].job \in Jobs
      BY <1>6, JobServed DEF CompleteJob
    <3>2. PICK s \in JobStatus :
            CompareAndSetJob(req[t].job, "running", [job[req[t].job] EXCEPT !.status = s, !.run = TRUE])
      BY <1>6 DEF CompleteJob, JobStatus
    <3>. QED  BY <3>1, <3>2, PatchType, CompareAndSetType DEF DataInv
  <2>. QED  BY <1>6, <2>1, ReturnType DEF CompleteJob, DataInv, history
<1>7. ASSUME FailJob(t) PROVE TypeInv'
  <2>1. job' \in [Jobs -> JobRecord]
    <3>1. req[t].job \in Jobs
      BY <1>7, JobServed DEF FailJob
    <3>2. PICK s \in JobStatus :
            CompareAndSetJob(req[t].job, "running", [job[req[t].job] EXCEPT !.status = s])
      BY <1>7 DEF FailJob, JobStatus
    <3>. QED  BY <3>1, <3>2, PatchType, CompareAndSetType DEF DataInv
  <2>. QED  BY <1>7, <2>1, ReturnType DEF FailJob, DataInv, history
<1>. QED  BY <1>1, <1>2, <1>4, <1>5, <1>6, <1>7

LEMMA RecordKeepingSteps ==
  ASSUME TypeInv, NEW t \in Threads
  PROVE  /\ SubmitJob(t) => TypeInv'
         /\ CancelJob(t) => TypeInv'
         /\ RetryJob(t) => TypeInv'
<1>. USE DEF TypeInv
<1>1. ASSUME SubmitJob(t) PROVE TypeInv'
  <2>1. req[t].job \in Jobs
    BY <1>1, JobServed DEF SubmitJob
  <2>2. job' \in [Jobs -> JobRecord]
    <3>1. [NoJob EXCEPT !.status = "queued"] \in JobRecord
      BY DEF NoJob, JobRecord, JobStatus
    <3>. QED  BY <1>1, <2>1, <3>1, SetJobType DEF SubmitJob, DataInv
  <2>3. order' \in Seq(Jobs)
    BY <1>1, <2>1 DEF SubmitJob, DataInv
  <2>. QED  BY <1>1, <2>2, <2>3, ReturnType DEF SubmitJob, DataInv, history
<1>2. ASSUME CancelJob(t) PROVE TypeInv'
  <2>1. req[t].job \in Jobs
    BY <1>2, JobServed DEF CancelJob
  <2>2. job' \in [Jobs -> JobRecord]
    <3>1. [snap[t] EXCEPT !.status = "cancelled"] \in JobRecord
      BY Serving DEF JobRecord, JobStatus
    <3>. QED  BY <1>2, <2>1, <3>1, SetJobType DEF CancelJob, DataInv
  <2>. QED  BY <1>2, <2>1, <2>2, ReturnType DEF CancelJob, DataInv
<1>3. ASSUME RetryJob(t) PROVE TypeInv'
  <2>1. req[t].job \in Jobs
    BY <1>3, JobServed DEF RetryJob
  <2>2. job' \in [Jobs -> JobRecord]
    <3>1. [snap[t] EXCEPT !.status = "queued", !.run = FALSE] \in JobRecord
      BY Serving DEF JobRecord, JobStatus
    <3>. QED  BY <1>3, <2>1, <3>1, SetJobType DEF RetryJob, DataInv
  <2>. QED  BY <1>3, <2>2, ReturnType DEF RetryJob, DataInv, history
<1>. QED  BY <1>1, <1>2, <1>3


LEMMA IdentityFieldType ==
  ASSUME DataInv, NEW a, NEW b \in BOOLEAN
  PROVE  /\ [identity EXCEPT ![a].enabled = b] \in [Agents -> IdentityRecord]
         /\ [identity EXCEPT ![a].boundary = b] \in [Agents -> IdentityRecord]
         /\ [identity EXCEPT ![a].prod = b] \in [Agents -> IdentityRecord]
<1>1. identity \in [Agents -> IdentityRecord]
  BY DEF DataInv
<1>2. CASE a \notin Agents
  <2>1. \A f : [identity EXCEPT ![a] = f] = identity
    BY <1>1, <1>2
  <2>. QED  BY <1>1, <2>1
<1>3. CASE a \in Agents
  <2>1. [identity[a] EXCEPT !.enabled = b] \in IdentityRecord
    BY <1>1, <1>3 DEF IdentityRecord
  <2>2. [identity[a] EXCEPT !.boundary = b] \in IdentityRecord
    BY <1>1, <1>3 DEF IdentityRecord
  <2>3. [identity[a] EXCEPT !.prod = b] \in IdentityRecord
    BY <1>1, <1>3 DEF IdentityRecord
  <2>. QED  BY <1>1, <2>1, <2>2, <2>3
<1>. QED  BY <1>2, <1>3

LEMMA RevokeType ==
  ASSUME DataInv, NEW S, RevokeLeases(S)
  PROVE  lease' \in [Leases -> LeaseStatus]
  BY DEF DataInv, RevokeLeases, LeaseStatus

LEMMA LifecycleSteps ==
  ASSUME TypeInv, NEW t \in Threads
  PROVE  /\ DisableIdentity(t) => TypeInv'
         /\ DecideProduction(t) => TypeInv'
         /\ CancelAgentJobs(t) => TypeInv'
<1>. USE OpsAtValues DEF TypeInv
<1>1. ASSUME DisableIdentity(t) PROVE TypeInv'
  <2>1. req[t].op \in OpsAt("cancelJobs")
    BY <1>1, Serving DEF DisableIdentity
  <2>2. ThreadInv'
    BY <1>1, <2>1, GotoType DEF DisableIdentity, ThreadInv, Labels
  <2>. QED  BY <1>1, <2>2, IdentityFieldType, RevokeType DEF DisableIdentity, DataInv, history
<1>2. ASSUME DecideProduction(t) PROVE TypeInv'
  <2>1. CASE UNCHANGED <<identity, lease>> /\ Release({t}) /\ Return(t)
    BY <1>2, <2>1, ReturnType, ReleaseType DEF DecideProduction, DataInv, history
  <2>2. CASE /\ identity' = [identity EXCEPT ![req[t].agent].prod = TRUE]
             /\ UNCHANGED lease /\ Release({t}) /\ Return(t)
    BY <1>2, <2>2, ReturnType, ReleaseType, IdentityFieldType DEF DecideProduction, DataInv, history
  <2>3. CASE /\ identity' = [identity EXCEPT ![req[t].agent].prod = FALSE]
             /\ RevokeLeases(ActiveLeases(req[t].agent, {"prod"}))
             /\ Goto(t, "cancelJobs") /\ UNCHANGED <<guard, req, snap>>
    <3>1. req[t].op \in OpsAt("cancelJobs")
      BY <1>2, Serving DEF DecideProduction
    <3>2. ThreadInv'
      BY <2>3, <3>1, GotoType DEF ThreadInv, Labels
    <3>. QED  BY <1>2, <2>3, <3>2, RevokeType, IdentityFieldType DEF DecideProduction, DataInv, history
  <2>. QED  BY <1>2, <2>1, <2>2, <2>3 DEF DecideProduction
<1>3. ASSUME CancelAgentJobs(t) PROVE TypeInv'
  <2>1. job' \in [Jobs -> JobRecord]
    <3>1. \A j \in Jobs : [job[j] EXCEPT !.status = "cancelled"] \in JobRecord
      <4>1. "cancelled" \in JobStatus /\ \A j \in Jobs : job[j] \in JobRecord
        BY DEF DataInv, JobStatus
      <4>. QED  BY <4>1, PatchType
    <3>. QED  BY <1>3, <3>1 DEF CancelAgentJobs, DataInv
  <2>2. guard' \in [Locks -> Threads \cup {Nobody}]
    BY <1>3, ReleaseType DEF CancelAgentJobs, DataInv
  <2>3. killed' \subseteq Keys
    BY <1>3, Serving DEF CancelAgentJobs, DataInv, Request
  <2>4. wasCancelled' \subseteq Jobs
    BY <1>3 DEF CancelAgentJobs, DataInv, Affected
  <2>. QED  BY <1>3, <2>1, <2>2, <2>3, <2>4, ReturnType DEF CancelAgentJobs, DataInv
<1>. QED  BY <1>1, <1>2, <1>3

LEMMA BeginType ==
  ASSUME TypeInv, NEW t \in Threads, NEW op, NEW label \in Labels, NEW r,
         WellFormed(r), r.op \in OpsAt(label), Begin(t, op, label, r),
         snap' \in [Threads -> JobRecord]
  PROVE  ThreadInv'
  BY DEF TypeInv, ThreadInv, Placed, Begin, Goto, WellFormed

LEMMA BeginSteps ==
  ASSUME TypeInv, NEW t \in Threads
  PROVE  BeginStep(t) => TypeInv'
<1>. USE OpsAtValues DEF TypeInv
<1>1. ASSUME NEW j \in Jobs, BeginProcess(t, j) PROVE TypeInv'
  <2>1. JobKey(j) \in Keys
    BY DEF JobKey, Keys
  <2>2. [JobReq("process", j) EXCEPT !.keys = {JobKey(j)}].op = "process"
    BY DEF JobReq, NoReq
  <2>3. WellFormed([JobReq("process", j) EXCEPT !.keys = {JobKey(j)}])
    BY <2>1 DEF WellFormed, JobReq, NoReq, Request, Ops, Envs
  <2>4. ThreadInv'
    BY <1>1, <2>2, <2>3, BeginType DEF BeginProcess, Labels, ThreadInv
  <2>. QED  BY <1>1, <2>4 DEF BeginProcess, DataInv, database, history
<1>2. ASSUME NEW j \in Jobs, BeginSubmit(t, j) PROVE TypeInv'
  <2>1. ThreadInv'
    BY <1>2, JobReqWellFormed, BeginType DEF BeginSubmit, Labels, ThreadInv
  <2>. QED  BY <1>2, <2>1 DEF BeginSubmit, DataInv, database, history
<1>3. ASSUME NEW j \in Jobs, NEW op \in {"cancel", "retry"}
      PROVE  /\ [NoReq EXCEPT !.op = op, !.job = j].op = op
             /\ WellFormed([NoReq EXCEPT !.op = op, !.job = j])
  BY DEF WellFormed, NoReq, Request, Ops
<1>4. ASSUME NEW j \in Jobs, BeginCancel(t, j) PROVE TypeInv'
  <2>1. snap' \in [Threads -> JobRecord]
    BY <1>4, SnapType DEF BeginCancel, DataInv
  <2>2. ThreadInv'
    BY <1>3, <1>4, <2>1, BeginType DEF BeginCancel, Labels
  <2>. QED  BY <1>4, <2>2 DEF BeginCancel, DataInv, database, history
<1>5. ASSUME NEW j \in Jobs, BeginRetry(t, j) PROVE TypeInv'
  <2>1. snap' \in [Threads -> JobRecord]
    BY <1>5, SnapType DEF BeginRetry, DataInv
  <2>2. ThreadInv'
    BY <1>3, <1>5, <2>1, BeginType DEF BeginRetry, Labels
  <2>. QED  BY <1>5, <2>2 DEF BeginRetry, DataInv, database, history
<1>6. ASSUME NEW l \in Leases, BeginRun(t, l) PROVE TypeInv'
  <2> DEFINE r == [NoReq EXCEPT !.op = "run", !.lease = l, !.agent = LeaseAgent[l], !.env = LeaseEnv[l]]
  <2>1. r.op = "run" /\ WellFormed(r)
    BY DEF WellFormed, NoReq, Request, Ops, Envs
  <2>2. ThreadInv'
    BY <1>6, <2>1, BeginType DEF BeginRun, Labels, ThreadInv
  <2>. QED  BY <1>6, <2>2 DEF BeginRun, DataInv, database, history
<1>7. ASSUME NEW a \in Agents, NEW form \in Forms PROVE Aliases(a, form) \in SUBSET Keys
  BY DEF Aliases, Keys, Forms
<1>8. ASSUME NEW a \in Agents, NEW form \in Forms, BeginKill(t, a, form) PROVE TypeInv'
  <2> DEFINE r == [NoReq EXCEPT !.op = "kill", !.agent = a, !.keys = Aliases(a, form)]
  <2>1. r.op = "kill" /\ WellFormed(r)
    BY <1>7 DEF WellFormed, NoReq, Request, Ops
  <2>2. ThreadInv'
    BY <1>8, <2>1, BeginType DEF BeginKill, Labels, ThreadInv
  <2>. QED  BY <1>8, <2>2 DEF BeginKill, DataInv, database, history
<1>9. ASSUME NEW a \in Agents, NEW approve \in BOOLEAN, BeginDecide(t, a, approve) PROVE TypeInv'
  <2> DEFINE r == [NoReq EXCEPT !.op = "decide", !.agent = a, !.env = "prod",
                                !.keys = Aliases(a, "identityId"), !.approve = approve]
  <2>1. "identityId" \in Forms
    BY DEF Forms
  <2>2. r.op = "decide" /\ WellFormed(r)
    BY <1>7, <2>1 DEF WellFormed, NoReq, Request, Ops, Envs
  <2>3. ThreadInv'
    BY <1>9, <2>2, BeginType DEF BeginDecide, Labels, ThreadInv
  <2>. QED  BY <1>9, <2>3 DEF BeginDecide, DataInv, database, history
<1>. QED  BY <1>1, <1>2, <1>4, <1>5, <1>6, <1>8, <1>9 DEF BeginStep, BeginProcessNext

LEMMA StepSteps ==
  ASSUME TypeInv, NEW t \in Threads, Step(t)
  PROVE  TypeInv'
  BY GuardSteps, LeaseSteps, ExecutionSteps, RecordKeepingSteps, LifecycleSteps DEF Step

LEMMA FaultSteps ==
  ASSUME TypeInv
  PROVE  /\ \A t \in Threads : StorageError(t) => TypeInv'
         /\ \A p \in Procs : Crash(p) => TypeInv'
<1>. USE OpsAtValues DEF TypeInv
<1>1. ASSUME NEW t \in Threads, StorageError(t) PROVE TypeInv'
  <2>1. CASE IsJob(t) /\ pc[t] \in {"saveRun", "saveTrace", "complete"}
    <3>1. Goto(t, "fail") /\ UNCHANGED <<guard, req, snap>> /\ req[t].op \in OpsAt("fail")
      BY <1>1, <2>1 DEF StorageError, IsJob
    <3>2. ThreadInv'
      BY <3>1, GotoType DEF ThreadInv, Labels
    <3>. QED  BY <1>1, <3>1, <3>2 DEF StorageError, DataInv, database, history
  <2>2. CASE ~(IsJob(t) /\ pc[t] \in {"saveRun", "saveTrace", "complete"})
    BY <1>1, <2>2, ReturnType, ReleaseType DEF StorageError, DataInv, database, history
  <2>. QED  BY <2>1, <2>2
<1>2. ASSUME NEW p \in Procs, Crash(p) PROVE TypeInv'
  <2>1. ThreadInv'
    BY <1>2, NoReqWellFormed, NoJobType DEF Crash, ThreadInv, Placed, Labels, WellFormed
  <2>2. guard' \in [Locks -> Threads \cup {Nobody}]
    BY <1>2, ReleaseType DEF Crash, DataInv
  <2>. QED  BY <1>2, <2>1, <2>2 DEF Crash, DataInv, database, history
<1>. QED  BY <1>1, <1>2

LEMMA RecordSteps ==
  ASSUME TypeInv, RecordStep
  PROVE  TypeInv'
<1>. USE DEF TypeInv
<1>1. ASSUME UNCHANGED threads PROVE ThreadInv'
  BY <1>1 DEF ThreadInv, Placed, threads
<1>2. ASSUME NEW l \in Leases, IssueLease(l) PROVE TypeInv'
  <2>1. lease' \in [Leases -> LeaseStatus]
    BY <1>2, SetLeaseType DEF IssueLease, DataInv, LeaseStatus
  <2>. QED  BY <1>1, <1>2, <2>1 DEF IssueLease, DataInv, history
<1>3. ASSUME NEW l \in Leases, TimePasses(l) PROVE TypeInv'
  BY <1>1, <1>3 DEF TimePasses, DataInv, history
<1>4. ASSUME NEW a \in Agents, RequestProduction(a) PROVE TypeInv'
  BY <1>1, <1>4, IdentityFieldType, RevokeType DEF RequestProduction, DataInv, history
<1>5. ASSUME NEW a \in Agents, NEW b \in BOOLEAN, PatchIdentity(a, b) PROVE TypeInv'
  BY <1>1, <1>5, IdentityFieldType, RevokeType DEF PatchIdentity, DataInv, history
<1>. QED  BY <1>2, <1>3, <1>4, <1>5 DEF RecordStep

LEMMA TypeInvInit == Init => TypeInv
<1>. SUFFICES ASSUME Init PROVE TypeInv
  OBVIOUS
<1>1. ThreadInv
  BY NoReqWellFormed, NoJobType, OpsAtValues DEF Init, ThreadInv, Placed, Labels, WellFormed
<1>2. DataInv
  BY NoJobType DEF Init, DataInv, IdentityRecord, LeaseStatus
<1>. QED  BY <1>1, <1>2 DEF TypeInv

LEMMA TypeInvStep == TypeInv /\ [Next]_vars => TypeInv'
<1>1. ASSUME TypeInv, Next PROVE TypeInv'
  BY <1>1, StepSteps, BeginSteps, FaultSteps, RecordSteps DEF Next
<1>2. ASSUME TypeInv, UNCHANGED vars PROVE TypeInv'
  BY <1>2 DEF vars, TypeInv, ThreadInv, DataInv, Placed
<1>. QED  BY <1>1, <1>2

\* Every reachable state is well typed, and every thread serves a request that
\* fits the label it is at.
THEOREM TypeInvariance == Spec => []TypeInv
  BY TypeInvInit, TypeInvStep, PTL DEF Spec

\* Type correctness, whatever the agents, jobs, leases, threads and processes.
THEOREM TypeCorrectness == Spec => []TypeOK
  BY TypeInvariance, TypeInvImpliesTypeOK, PTL

-----------------------------------------------------------------------------
(* A lease pays for one execution.  The claim is not inductive by itself: a *)
(* thread that has consumed the lease and not called the provider yet holds *)
(* the right to one call.                                                   *)

Holds(t, l) == req[t].lease = l /\ pc[t] \in {"claim", "call"}
Unspent(l) == lease[l] \in {"none", "active"}

AuthorityInv ==
  \A l \in Leases :
    /\ calls[l] <= 1
    /\ Unspent(l) => calls[l] = 0 /\ \A t \in Threads : ~Holds(t, l)
    /\ \A t \in Threads : Holds(t, l) => /\ calls[l] = 0
                                          /\ \A u \in Threads : Holds(u, l) => u = t

\* Most steps create no holder, call no provider and restore no lease.
NoNewHolder == \A t \in Threads, l \in Leases : Holds(t, l)' => Holds(t, l)
Quiet ==
  /\ NoNewHolder
  /\ UNCHANGED calls
  /\ \A l \in Leases : Unspent(l)' => Unspent(l)

LEMMA QuietKeepsAuthority ==
  ASSUME TypeInv, AuthorityInv, Quiet
  PROVE  AuthorityInv'
  BY DEF AuthorityInv, Quiet, NoNewHolder

LEMMA GotoQuiet ==
  ASSUME ThreadInv, NEW t \in Threads, NEW label, label \notin {"claim", "call"}, Goto(t, label),
         UNCHANGED req \/ \E r : req' = [req EXCEPT ![t] = r]
  PROVE  NoNewHolder
  BY DEF NoNewHolder, Holds, Goto, ThreadInv

LEMMA ReturnQuiet ==
  ASSUME ThreadInv, NEW t \in Threads, Return(t)
  PROVE  NoNewHolder
  BY GotoQuiet DEF Return

LEMMA RefuseQuiet ==
  ASSUME ThreadInv, NEW t \in Threads, Refuse(t)
  PROVE  NoNewHolder
  BY GotoQuiet, ReturnQuiet DEF Refuse

LEMMA BeginQuiet ==
  ASSUME ThreadInv, NEW t \in Threads, NEW op, NEW label, label \notin {"claim", "call"}, NEW r,
         Begin(t, op, label, r)
  PROVE  NoNewHolder
  BY GotoQuiet DEF Begin

LEMMA RevokeQuiet ==
  ASSUME DataInv, NEW S, RevokeLeases(S)
  PROVE  \A l \in Leases : Unspent(l)' => Unspent(l)
  BY DEF RevokeLeases, Unspent

LEMMA SetLeaseQuiet ==
  ASSUME DataInv, NEW l, NEW s, SetLease(l, s), s \in {"none", "active"} => l \in Leases /\ Unspent(l)
  PROVE  \A k \in Leases : Unspent(k)' => Unspent(k)
  BY DEF SetLease, Unspent, DataInv

LEMMA BeginStepQuiet ==
  ASSUME TypeInv, NEW t \in Threads, BeginStep(t)
  PROVE  Quiet
<1>. USE BeginQuiet DEF TypeInv, Quiet, Unspent, database, history
<1>1. ASSUME NEW j \in Jobs, BeginProcess(t, j) PROVE Quiet
  BY <1>1 DEF BeginProcess
<1>2. ASSUME NEW j \in Jobs, BeginSubmit(t, j) PROVE Quiet
  BY <1>2 DEF BeginSubmit
<1>3. ASSUME NEW j \in Jobs, BeginCancel(t, j) PROVE Quiet
  BY <1>3 DEF BeginCancel
<1>4. ASSUME NEW j \in Jobs, BeginRetry(t, j) PROVE Quiet
  BY <1>4 DEF BeginRetry
<1>5. ASSUME NEW l \in Leases, BeginRun(t, l) PROVE Quiet
  BY <1>5 DEF BeginRun
<1>6. ASSUME NEW a \in Agents, NEW form \in Forms, BeginKill(t, a, form) PROVE Quiet
  BY <1>6 DEF BeginKill
<1>7. ASSUME NEW a \in Agents, NEW approve \in BOOLEAN, BeginDecide(t, a, approve) PROVE Quiet
  BY <1>7 DEF BeginDecide
<1>. QED  BY <1>1, <1>2, <1>3, <1>4, <1>5, <1>6, <1>7 DEF BeginStep, BeginProcessNext

\* The steps of a request, but for the ones that consume a lease or call the provider.
LEMMA StepQuiet ==
  ASSUME TypeInv, NEW t \in Threads, Step(t),
         ~ConsumeLease(t), ~CallProvider(t), ~CallRaises(t)
  PROVE  Quiet
<1>. USE DEF TypeInv, Quiet
<1>1. ASSUME Acquire(t) PROVE Quiet
  <2>1. PICK label : Goto(t, label) /\ label \notin {"claim", "call"}
    BY <1>1, Serving, OpsAtValues DEF Acquire, Guarded
  <2>. QED  BY <1>1, <2>1, GotoQuiet DEF Acquire, database, history, Unspent
<1>2. ASSUME Recheck(t) PROVE Quiet
  <2>1. NoNewHolder
    BY <1>2, GotoQuiet, ReturnQuiet DEF Recheck
  <2>. QED  BY <1>2, <2>1 DEF Recheck, database, history, Unspent
<1>3. ASSUME CheckIdentity(t) PROVE Quiet
  <2>1. NoNewHolder
    BY <1>3, GotoQuiet, RefuseQuiet DEF CheckIdentity
  <2>. QED  BY <1>3, <2>1 DEF CheckIdentity, database, history, Unspent
<1>4. ASSUME CheckLease(t) PROVE Quiet
  <2>1. NoNewHolder
    BY <1>4, GotoQuiet, RefuseQuiet DEF CheckLease
  <2>. QED  BY <1>4, <2>1 DEF CheckLease, database, history, Unspent
<1>5. ASSUME ExpireLease(t) PROVE Quiet
  <2>1. req[t].lease \in Leases
    BY <1>5, LeaseServed DEF ExpireLease
  <2>2. \A k \in Leases : Unspent(k)' => Unspent(k)
    BY <1>5, <2>1, SetLeaseQuiet DEF ExpireLease, Unspent
  <2>. QED  BY <1>5, <2>2, RefuseQuiet DEF ExpireLease, history
<1>6. ASSUME SaveExpiredLease(t) PROVE Quiet
  <2>1. \A k \in Leases : Unspent(k)' => Unspent(k)
    BY <1>6, SetLeaseQuiet DEF SaveExpiredLease
  <2>. QED  BY <1>6, <2>1, ReturnQuiet DEF SaveExpiredLease, history
<1>7. ASSUME ClaimJob(t) PROVE Quiet
  <2>1. NoNewHolder
    <3>1. CASE job[req[t].job].status = "queued"
      BY <1>7, <3>1 DEF ClaimJob, NoNewHolder, Holds, Goto, ThreadInv
    <3>2. CASE job[req[t].job].status # "queued"
      BY <1>7, <3>2, ReturnQuiet DEF ClaimJob
    <3>. QED  BY <3>1, <3>2
  <2>. QED  BY <1>7, <2>1 DEF ClaimJob, history, Unspent
<1>8. ASSUME SaveTrace(t) PROVE Quiet
  <2>1. NoNewHolder
    BY <1>8, GotoQuiet, ReturnQuiet DEF SaveTrace
  <2>. QED  BY <1>8, <2>1 DEF SaveTrace, history, Unspent
<1>9. ASSUME DisableIdentity(t) PROVE Quiet
  BY <1>9, GotoQuiet, RevokeQuiet DEF DisableIdentity, history
<1>10. ASSUME DecideProduction(t) PROVE Quiet
  <2>1. NoNewHolder
    BY <1>10, GotoQuiet, ReturnQuiet DEF DecideProduction
  <2>2. UNCHANGED lease \/ RevokeLeases(ActiveLeases(req[t].agent, {"prod"}))
    BY <1>10 DEF DecideProduction
  <2>. QED  BY <1>10, <2>1, <2>2, RevokeQuiet DEF DecideProduction, history, Unspent
<1>11. ASSUME SaveRun(t) PROVE Quiet
  BY <1>11, GotoQuiet DEF SaveRun, history, Unspent
<1>12. ASSUME \/ BlockJob(t) \/ CompleteJob(t) \/ FailJob(t) \/ SubmitJob(t)
              \/ CancelJob(t) \/ RetryJob(t) \/ CancelAgentJobs(t)
       PROVE  Quiet
  <2>1. Return(t) /\ UNCHANGED <<lease, calls>>
    BY <1>12 DEF BlockJob, CompleteJob, FailJob, SubmitJob, CancelJob, RetryJob, CancelAgentJobs, history
  <2>. QED  BY <2>1, ReturnQuiet DEF Unspent
<1>. QED  BY <1>1, <1>2, <1>3, <1>4, <1>5, <1>6, <1>7, <1>8, <1>9, <1>10, <1>11, <1>12 DEF Step

LEMMA FaultQuiet ==
  ASSUME TypeInv
  PROVE  /\ \A t \in Threads : StorageError(t) => Quiet
         /\ \A p \in Procs : Crash(p) => Quiet
<1>. USE DEF TypeInv, Quiet, Unspent, database, history
<1>1. ASSUME NEW t \in Threads, StorageError(t) PROVE Quiet
  BY <1>1, GotoQuiet, ReturnQuiet DEF StorageError
<1>2. ASSUME NEW p \in Procs, Crash(p) PROVE Quiet
  <2>1. NoNewHolder
    BY <1>2 DEF Crash, NoNewHolder, Holds, ThreadInv
  <2>. QED  BY <1>2, <2>1 DEF Crash
<1>. QED  BY <1>1, <1>2

LEMMA RecordQuiet ==
  ASSUME TypeInv, RecordStep
  PROVE  Quiet
<1>. USE DEF TypeInv, Quiet
<1>1. NoNewHolder /\ UNCHANGED calls
  BY DEF RecordStep, IssueLease, TimePasses, PatchIdentity, RequestProduction,
         threads, history, NoNewHolder, Holds
<1>2. ASSUME NEW l \in Leases, IssueLease(l)
      PROVE  \A k \in Leases : Unspent(k)' => Unspent(k)
  BY <1>2, SetLeaseQuiet DEF IssueLease, Unspent
<1>3. ASSUME NEW l \in Leases, TimePasses(l)
      PROVE  \A k \in Leases : Unspent(k)' => Unspent(k)
  BY <1>3 DEF TimePasses, Unspent
<1>4. ASSUME NEW a \in Agents, NEW b \in BOOLEAN, PatchIdentity(a, b) \/ RequestProduction(a)
      PROVE  \A k \in Leases : Unspent(k)' => Unspent(k)
  BY <1>4, RevokeQuiet DEF PatchIdentity, RequestProduction
<1>5. \A k \in Leases : Unspent(k)' => Unspent(k)
  <2>1. ASSUME NEW l \in Leases, IssueLease(l) \/ TimePasses(l)
        PROVE  \A k \in Leases : Unspent(k)' => Unspent(k)
    BY <2>1, <1>2, <1>3
  <2>2. ASSUME NEW a \in Agents, RequestProduction(a) \/ \E b \in BOOLEAN : PatchIdentity(a, b)
        PROVE  \A k \in Leases : Unspent(k)' => Unspent(k)
    BY <2>2, <1>4
  <2>. QED  BY <2>1, <2>2 DEF RecordStep
<1>. QED  BY <1>1, <1>5

\* Consuming the lease makes t its only holder.
LEMMA ConsumeKeepsAuthority ==
  ASSUME TypeInv, AuthorityInv, NEW t \in Threads, ConsumeLease(t)
  PROVE  AuthorityInv'
<1>. DEFINE l == req[t].lease
<1>1. l \in Leases
  BY LeaseServed DEF ConsumeLease, TypeInv
<1>2. UNCHANGED calls
  BY DEF ConsumeLease, history
<1>3. CASE lease[l] = "active"
  <2>1. /\ SetLease(l, "consumed") /\ UNCHANGED req
        /\ \/ Goto(t, "claim") \/ Goto(t, "call")
    BY <1>3 DEF ConsumeLease
  <2>2. \A k \in Leases : Unspent(k)' => Unspent(k) /\ k # l
    BY <1>1, <2>1 DEF SetLease, Unspent, TypeInv, DataInv
  <2>3. \A u \in Threads, k \in Leases : Holds(u, k)' => Holds(u, k) \/ (u = t /\ k = l)
    BY <2>1 DEF Goto, Holds, TypeInv, ThreadInv
  <2>4. calls[l] = 0 /\ \A u \in Threads : ~Holds(u, l)
    BY <1>1, <1>3 DEF AuthorityInv, Unspent
  <2>. QED  BY <1>1, <1>2, <2>2, <2>3, <2>4 DEF AuthorityInv
<1>4. CASE lease[l] # "active"
  <2>1. Refuse(t) /\ UNCHANGED lease
    BY <1>4 DEF ConsumeLease
  <2>. QED  BY <1>2, <2>1, RefuseQuiet, QuietKeepsAuthority DEF Quiet, Unspent, TypeInv
<1>. QED  BY <1>3, <1>4

\* Calling the provider ends the holder's right.
LEMMA CallKeepsAuthority ==
  ASSUME TypeInv, AuthorityInv, NEW t \in Threads, CallProvider(t) \/ CallRaises(t)
  PROVE  AuthorityInv'
<1>. DEFINE l == req[t].lease
<1>1. l \in Leases /\ Holds(t, l)
  BY LeaseServed DEF CallProvider, CallRaises, TypeInv, Holds
<1>2. UNCHANGED lease
  BY DEF CallProvider, CallRaises, database
<1>3. NoNewHolder
  BY GotoQuiet, ReturnQuiet DEF CallProvider, CallRaises, TypeInv
<1>4. pc'[t] \notin {"claim", "call"}
  BY DEF CallProvider, CallRaises, Goto, Return, TypeInv, ThreadInv
<1>5. \A u \in Threads : ~(req'[u].lease = l /\ pc'[u] \in {"claim", "call"})
  <2>1. \A u \in Threads : Holds(u, l) => u = t
    BY <1>1 DEF AuthorityInv
  <2>2. \A u \in Threads : req'[u].lease = l /\ pc'[u] \in {"claim", "call"} => Holds(u, l)
    BY <1>1, <1>3 DEF NoNewHolder, Holds
  <2>. QED  BY <2>1, <2>2, <1>4
<1>6. calls[l] = 0 /\ ~Unspent(l)
  BY <1>1 DEF AuthorityInv
<1>7. UNCHANGED calls \/ CountCall(t)
  BY DEF CallProvider, CallRaises
<1>8. calls'[l] <= 1 /\ \A k \in Leases : k # l => calls'[k] = calls[k]
  BY <1>1, <1>6, <1>7 DEF CountCall, TypeInv, DataInv
<1>9. \A k \in Leases : Unspent(k)' <=> Unspent(k)
  BY <1>2 DEF Unspent
<1>10. SUFFICES ASSUME NEW k \in Leases
       PROVE  /\ calls'[k] <= 1
              /\ Unspent(k)' => calls'[k] = 0 /\ \A u \in Threads : ~Holds(u, k)'
              /\ \A u \in Threads : Holds(u, k)' => /\ calls'[k] = 0
                                                    /\ \A v \in Threads : Holds(v, k)' => v = u
  BY DEF AuthorityInv
<1>11. CASE k = l
  BY <1>1, <1>2, <1>5, <1>6, <1>8, <1>11 DEF Holds, Unspent
<1>12. CASE k # l
  BY <1>3, <1>8, <1>9, <1>12 DEF AuthorityInv, NoNewHolder
<1>. QED  BY <1>11, <1>12

LEMMA AuthorityStep ==
  ASSUME TypeInv, AuthorityInv, [Next]_vars
  PROVE  AuthorityInv'
<1>1. CASE UNCHANGED vars
  BY <1>1 DEF vars, AuthorityInv, Unspent, Holds
<1>2. ASSUME NEW t \in Threads, Step(t) PROVE AuthorityInv'
  BY <1>2, StepQuiet, QuietKeepsAuthority, ConsumeKeepsAuthority, CallKeepsAuthority
<1>3. ASSUME NEW t \in Threads, BeginStep(t) PROVE AuthorityInv'
  BY <1>3, BeginStepQuiet, QuietKeepsAuthority
<1>4. ASSUME NEW t \in Threads, StorageError(t) PROVE AuthorityInv'
  BY <1>4, FaultQuiet, QuietKeepsAuthority
<1>5. ASSUME NEW p \in Procs, Crash(p) PROVE AuthorityInv'
  BY <1>5, FaultQuiet, QuietKeepsAuthority
<1>6. CASE RecordStep
  BY <1>6, RecordQuiet, QuietKeepsAuthority
<1>. QED  BY <1>1, <1>2, <1>3, <1>4, <1>5, <1>6 DEF Next

\* One lease pays for at most one run_agent execution, whatever threads,
\* processes, faults and revocations there are.
THEOREM LeasePaysOnce == Spec => []LeaseSingleUse
<1>1. Init => AuthorityInv
  BY DEF Init, AuthorityInv, Unspent, Holds, NoReq
<1>2. AuthorityInv => LeaseSingleUse
  BY DEF AuthorityInv, LeaseSingleUse
<1>3. TypeInv /\ AuthorityInv /\ [Next]_vars => AuthorityInv'
  BY AuthorityStep
<1>. QED  BY <1>1, <1>2, <1>3, TypeInvariance, PTL DEF Spec

-----------------------------------------------------------------------------
(* An active lease is backed by its identity: ActiveLeaseBacked is           *)
(* inductive with the types, because whatever takes a permission away        *)
(* revokes the active leases that need it in the same transaction.           *)

NoNewActive == \A l \in Leases : lease'[l] = "active" => lease[l] = "active"

LEMMA NoNewActiveBacked ==
  ASSUME ActiveLeaseBacked, NoNewActive, UNCHANGED identity
  PROVE  ActiveLeaseBacked'
  BY DEF ActiveLeaseBacked, NoNewActive, Permits

\* A field of one identity changes and the active leases in S are revoked.
LEMMA RevokedLeasesBacked ==
  ASSUME TypeInv, ActiveLeaseBacked, NEW a \in Agents, NEW envs,
         RevokeLeases(ActiveLeases(a, envs)),
         \A b \in Agents : b # a => identity'[b] = identity[b],
         \A e \in Envs : Permits(a, e) => e \in envs \/ Permits(a, e)'
  PROVE  ActiveLeaseBacked'
<1>1. SUFFICES ASSUME NEW l \in Leases, lease'[l] = "active"
      PROVE  Permits(LeaseAgent[l], LeaseEnv[l])'
  BY DEF ActiveLeaseBacked
<1>2. lease[l] = "active" /\ ~(LeaseAgent[l] = a /\ LeaseEnv[l] \in envs)
  BY <1>1 DEF RevokeLeases, ActiveLeases
<1>3. Permits(LeaseAgent[l], LeaseEnv[l]) /\ LeaseAgent[l] \in Agents /\ LeaseEnv[l] \in Envs
  BY <1>2 DEF ActiveLeaseBacked
<1>4. CASE LeaseAgent[l] = a
  BY <1>2, <1>3, <1>4
<1>5. CASE LeaseAgent[l] # a
  BY <1>3, <1>5 DEF Permits
<1>. QED  BY <1>4, <1>5

LEMMA RecordBacked ==
  ASSUME TypeInv, ActiveLeaseBacked, RecordStep
  PROVE  ActiveLeaseBacked'
<1>1. ASSUME NEW l \in Leases, IssueLease(l) PROVE ActiveLeaseBacked'
  BY <1>1 DEF IssueLease, SetLease, ActiveLeaseBacked, Permits, TypeInv, DataInv
<1>2. ASSUME NEW l \in Leases, TimePasses(l) PROVE ActiveLeaseBacked'
  BY <1>2, NoNewActiveBacked DEF TimePasses, NoNewActive
<1>3. ASSUME NEW a \in Agents, NEW b \in BOOLEAN, PatchIdentity(a, b) PROVE ActiveLeaseBacked'
  BY <1>3, RevokedLeasesBacked DEF PatchIdentity, TypeInv, DataInv
<1>4. ASSUME NEW a \in Agents, RequestProduction(a) PROVE ActiveLeaseBacked'
  <2>1. \A e \in Envs : Permits(a, e) => e \in {"prod"} \/ Permits(a, e)'
    BY <1>4 DEF RequestProduction, Permits, Envs, TypeInv, DataInv, IdentityRecord
  <2>. QED  BY <1>4, <2>1, RevokedLeasesBacked DEF RequestProduction, TypeInv, DataInv
<1>5. ASSUME NEW l \in Leases, IssueLease(l) \/ TimePasses(l) PROVE ActiveLeaseBacked'
  BY <1>1, <1>2, <1>5
<1>6. ASSUME NEW a \in Agents, RequestProduction(a) \/ \E b \in BOOLEAN : PatchIdentity(a, b)
      PROVE  ActiveLeaseBacked'
  BY <1>3, <1>4, <1>6
<1>. QED  BY <1>5, <1>6 DEF RecordStep

LEMMA StepBacked ==
  ASSUME TypeInv, ActiveLeaseBacked, NEW t \in Threads, Step(t)
  PROVE  ActiveLeaseBacked'
<1>1. CASE DisableIdentity(t)
  <2>1. req[t].agent \in Agents
    BY <1>1, Serving, OpsAtValues DEF DisableIdentity, TypeInv
  <2>. QED  BY <1>1, <2>1, RevokedLeasesBacked DEF DisableIdentity, TypeInv, DataInv
<1>2. CASE DecideProduction(t)
  <2>1. PICK a \in Agents : a = req[t].agent
    BY <1>2, Serving, OpsAtValues DEF DecideProduction, TypeInv
  <2>2. CASE UNCHANGED <<identity, lease>>
    BY <2>2, NoNewActiveBacked DEF NoNewActive
  <2>3. CASE UNCHANGED lease /\ identity' = [identity EXCEPT ![a].prod = TRUE]
    BY <2>1, <2>3 DEF ActiveLeaseBacked, Permits, TypeInv, DataInv, IdentityRecord
  <2>4. CASE /\ identity' = [identity EXCEPT ![a].prod = FALSE]
             /\ RevokeLeases(ActiveLeases(a, {"prod"}))
    <3>1. \A e \in Envs : Permits(a, e) => e \in {"prod"} \/ Permits(a, e)'
      BY <2>1, <2>4 DEF Permits, Envs, TypeInv, DataInv, IdentityRecord
    <3>. QED  BY <2>1, <2>4, <3>1, RevokedLeasesBacked DEF TypeInv, DataInv
  <2>. QED  BY <1>2, <2>1, <2>2, <2>3, <2>4 DEF DecideProduction
<1>3. CASE ~DisableIdentity(t) /\ ~DecideProduction(t)
  <2>1. UNCHANGED identity
    BY <1>3 DEF Step, database, Acquire, Recheck, CheckIdentity, CheckLease, ExpireLease,
       SaveExpiredLease, ConsumeLease, BlockJob, ClaimJob, CallProvider, CallRaises, SaveRun,
       SaveTrace, CompleteJob, FailJob, SubmitJob, CancelJob, RetryJob, CancelAgentJobs
  <2>2. UNCHANGED lease \/ \E l, s : s # "active" /\ (SetLease(l, s) \/ SetLease(l, lease[l]))
    BY <1>3 DEF Step, database, Acquire, Recheck, CheckIdentity, CheckLease, ExpireLease,
       SaveExpiredLease, ConsumeLease, BlockJob, ClaimJob, CallProvider, CallRaises, SaveRun,
       SaveTrace, CompleteJob, FailJob, SubmitJob, CancelJob, RetryJob, CancelAgentJobs
  <2>3. NoNewActive
    BY <2>2 DEF NoNewActive, SetLease, TypeInv, DataInv
  <2>. QED  BY <2>1, <2>3, NoNewActiveBacked
<1>. QED  BY <1>1, <1>2, <1>3

LEMMA BeginAndFaultBacked ==
  ASSUME TypeInv, ActiveLeaseBacked,
         \/ UNCHANGED vars
         \/ \E t \in Threads : BeginStep(t) \/ StorageError(t)
         \/ \E p \in Procs : Crash(p)
  PROVE  ActiveLeaseBacked'
<1>1. UNCHANGED <<identity, lease>>
  BY DEF vars, BeginStep, BeginProcessNext, BeginProcess, BeginSubmit, BeginCancel, BeginRetry,
     BeginRun, BeginKill, BeginDecide, StorageError, Crash, database
<1>. QED  BY <1>1, NoNewActiveBacked DEF NoNewActive

\* A lease is active only while its identity still permits what it allows.
THEOREM LeaseBacked == Spec => []ActiveLeaseBacked
<1>1. Init => ActiveLeaseBacked
  BY DEF Init, ActiveLeaseBacked
<1>2. ASSUME TypeInv, ActiveLeaseBacked, [Next]_vars PROVE ActiveLeaseBacked'
  BY <1>2, StepBacked, RecordBacked, BeginAndFaultBacked DEF Next
<1>. QED  BY <1>1, <1>2, TypeInvariance, PTL DEF Spec
=============================================================================
