# NeuralOps Platform: a TLA+ development

This directory holds a formal model of the NeuralOps backend
(`backend/app/`), the TLC runs that check it on small instances, and TLAPS
proofs that hold for every instance. It is read beside the code: `PROJECT.json`
gives, for every definition, the source lines it stands for.

## 1. The system

NeuralOps is a FastAPI backend (`main.py`, about 10 000 lines of handlers) over
one table of JSON records (`database.py`, SQLite or Postgres), with an
in-process agent runtime (`agent_runtime.py`), a job queue driven by HTTP calls
(`job_queue.py`), two SDKs and a React console. Handlers run in a thread pool,
and several server processes may share the database. Three storage idioms
decide what may interleave:

- a *plain save* writes a whole record that the handler read earlier;
- *compare-and-set* patches a record if its status is still as expected;
- a *lifecycle transaction* locks an identity's row and changes it together with
  its leases, its requests or a new lease.

### Inventory

| Component | State | Operations | What makes it hard | What makes it correct |
|---|---|---|---|---|
| Agent job queue | `agent_jobs`, in-memory identity guard, `agent_runs`, `traces` | submit, process, process-next, cancel, retry | workers racing with each other and with the kill switch; provider call outside the guard; saves after stale reads | a lease pays once, a cancelled job is not revived, evidence precedes success, locks are released |
| Agent identities, kill switch | `agent_identities` | register, patch, rotate, revoke, kill | one transaction with the leases, then a second one with the jobs | an active lease is backed by its identity, no job of a killed agent runs |
| Production access | `agent_access_requests` | file, approve, block, revoke | concurrent filings and reviewers, retried decisions | one request under review, posture follows the newest, a decision applies once |
| Approvals and leases | `agent_approvals`, `agent_authorization_leases` | request, decide, authorize, validate, consume, privacy purge | idempotent authorization, expiry, plain saves of approvals | an approval yields one lease, a consumed lease stays consumed |
| Direct runtime | `agent_runs`, `traces` | run | shares leases with the queue, no identity guard | as the queue |
| API keys, service accounts | `settings` (one record), `service_accounts` | create, use, rotate, revoke; webhooks, retention | recording a use saves the whole payload, without the lock the other writers take | an answered change, a revocation above all, stands |
| Workspace, invites, roles | `workspace_members`, `workspace_invites` | first use, invite, accept, add, patch, remove | two first users, acceptance by read and save, expiry | a spent invite admits nobody afterwards |
| AI gateway | `gateway_budgets`, rate events, cache, policy modes | chat completion, edits of budget, limit and policy mode | counters by read and save around provider calls, failover, cached answers | what the budget shows was written or charged, limits hold where requests do not overlap, a provider's blocked answer stays inside |
| Provider connections | `provider_connections` | create, patch, enable, disable, rotate, test, route | a test pings for seconds and saves what it read | a key serves traffic only if it was vetted |
| Connector deliveries, automations | `connector_deliveries`, `automation_rules`, `automation_events` | trigger, patch, retry, process, comment | a send and its record are two steps; whole-record saves | delivered means accepted, once; counted runs have events |
| Data governance | policy, `legal_holds`, simulations, all governed records | hold, release, simulate, purge, edits of the records, clean-up at start | candidates chosen before they are deleted | a purge deletes only what was old and unheld when it looked; the docs promise more |
| Trace ingest | `traces`, `trace_idempotency` | ingest one or a batch | the key is recorded last | one trace per key, if its requests do not overlap |
| Pilot applications | `pilot_applications`, buckets in memory | apply | buckets evicted or lost, concurrent retries | one application per key while it is stored, the rate limit |
| Startup, readiness | `STARTUP_STATE`, the store | start, probe, stop | initialisation in a background thread, several servers on one store | ready only after seeding |
| Release gates, replay, autopilot | definitions, results | create, patch, delete, run, replay | a run saves its definition late, from an early read | a definition shows the newest of its runs |
| Python SDK | the guarded tool, its requests | authorize, consume, run | lost and late answers, repeated invocations | a tool runs once for a consumed lease |
| Prompts, policies, incidents | one record each | edit, deploy | edits beside purges, modes read at every request | see `Governance` and `Gateway` |
| SLOs, estate, risk, evidence, metrics, labs, detection | one record each | edit, compute, insert | single-record lost updates | mostly pure computation |
| JavaScript SDK, console, migrations, deployment | client side | the same guard; pages | as the Python SDK | see section 5 |

`PROJECT.json` lists the same components with their status, and under
`hazards` every place where a test hardly reaches, with the property that covers
it or the reason none does. A hazard that a property excuses by a history variable is not
listed under that property.

## 2. Modules

| Module | What it is |
|---|---|
| `JobQueue` | the queue and everything that touches its records: workers, submission, cancel, retry, direct runtime, kill switch, production decisions, lease issue, expiry, boundary changes, faults |
| `LeaseGrant` | abstract specification: what an authorization lease promises |
| `JobQueueProofs` | theorems about the types and the leases of `JobQueue` |
| `JobQueueSafety` | theorems about the jobs of `JobQueue`, and its refinement of `LeaseGrant` |
| `MCJobQueue` | instances of `JobQueue` for TLC |
| `ProductionAccess` | filing and deciding production access of one identity |
| `ProductionAccessProofs` | theorems about `ProductionAccess` |
| `MCProductionAccess` | instances of `ProductionAccess` for TLC |
| `Authorization` | approvals, leases and the privacy policy of one agent identity; refines `LeaseGrant` |
| `AuthorizationProofs` | theorems about `Authorization` |
| `MCAuthorization` | instances of `Authorization` for TLC |
| `Server` | threads and whole-record saves, shared by the modules below |
| `Credentials` | settings with their API keys, and a service account |
| `Workspace` | members, roles and invites |
| `Gateway` | chat completions: budget, rate limit, cache, failover, policies |
| `Providers` | a provider connection and its keys |
| `Connectors` | automation rules and connector deliveries |
| `Governance` | retention, legal holds, purges, the clean-up at start |
| `TraceIngest` | trace ingest with idempotency keys |
| `Startup` | server processes that initialise one store |
| `Pilot` | pilot applications and their rate limit |
| `ReleaseGates` | gate definitions, runs, replays and the autopilot |
| `GuardedTool` | the Python SDK's guard and the server it talks to; refines `LeaseGrant` |
| `MCServices` | the eleven modules above on one server, for TLC |
| `GatewayProofs` | theorems about `Gateway` |
| `ServicesProofs` | theorems about `Providers`, `Governance`, `Startup`, `Workspace`, `ReleaseGates`, `Pilot` and `Credentials` |
| `DeliveryProofs` | theorems about `Connectors`, `TraceIngest` and `GuardedTool` |
| `CompositionProofs` | theorems about `MCServices`: what holds of a part holds of the whole |

### JobQueue

A *thread* serves one HTTP request at a time; `pc[t]` says where it is, `req[t]`
what it serves, `snap[t]` the job record it read before. One action is one
database statement or transaction, or one lock operation, so everything the
code lets interleave interleaves. Several *processes* may run; the identity
guard (`_identity_locks`) is in memory, so there is one per process, the records
are shared.

| Variable | Code |
|---|---|
| `identity[a]` | status not disabled or revoked; `agent:run`, environment and provider access permit the run; `productionAccessStatus = "approved"` |
| `lease[l]`, `late` | status of a lease; leases past `expiresAt` |
| `job[j]`, `order` | status, attempts, whether `runId` is set; jobs by `createdAt` |
| `runRecs`, `traceRecs` | stored runs and traces, by the job or lease that ran |
| `guard` | `identity_execution_guard`, by process and name |

A worker goes through `acquire, recheck, identity, lease, consume, claim, call,
saveRun, saveTrace, complete` as `process_job` does, with `expire`, `block` and
`fail` as its other ends; `claim` releases the guard, `call` is the provider.
Submission and the direct runtime use the labels they share with it
(`identity`, `lease`, `consume`, `call` ...) and differ where the code differs:
they save an expired lease whole instead of by compare-and-set, the direct
runtime takes no guard, submission does not consume.
The kill switch and revocation are `acquire, disable, cancelJobs`. A built-in
agent has two names (agentId and identity record id); the guard and the
cancellation work on names, as in the code.

Not in the model: workspaces (every query is scoped to one), roles, audit
events, contents. The fields of a lease binding are represented by its agent
and environment. Identity records exist from the start. A lease or job id never repeats. A lease whose
`expiresAt` has passed matters only while it is active.
`calls`, `killed` and `wasCancelled` are history variables. Purges of the
queue's records are not modelled: what is said of stored runs and traces
(`EvidenceBeforeSuccess`) is about the order of the writes, for records within their
retention, and ends where a later purge (`main.py:332`) or the clean-up of a start
(`database.py:187`) deletes them.

`LeaseGrant` sees a lease as unissued, live, taken, used or void; the refinement
mapping `Grant` reads it off the lease's status, the threads that hold a consumed
lease and the calls made with it. `Authorization` refines it too; there the
consumption answered to the agent is the taking, a second one would be an overuse, and what the agent does with it
is outside the server. `GuardedTool` is the third refinement and sees that other end:
a lease is taken when the client has the answer to its consumption, used when the
tool runs, and void if that answer was lost.

### ProductionAccess

One identity, requests with `createdAt` and an id that breaks ties, reviewers
that serve decisions under an idempotency key. Reading the clock and storing
the request are two actions, so are reading a request and deciding it; the
transactions lock the identity row and are one action each. `Confirm` is the
second look for a replay after a refused transaction. What an approval permits,
and which leases and jobs a refusal takes away, is `DecideProduction` and
`RequestProduction` in `JobQueue`.

### Authorization

One agent identity and the calls that authorize its actions. A *key* stands for
an idempotency key with the action bound to it; those in `HighRisk` need an
approval. The id of an approval is computed from its binding, so there is one
approval per key; a lease's id is random.

| Variable | Code |
|---|---|
| `enabled` | the identity is neither disabled nor revoked |
| `mode` | `agent_control_privacy_policies`, record `current` |
| `approval[k]` | status, whether a preview is stored, the decisions in `decisionHistory` |
| `lease[l]` | status, and the key it was issued for |
| `late` | approvals and leases whose `expiresAt` has passed |
| `agent[a]`, `review[r]`, `admin[x]` | the call a thread serves: where it is, its request, the record it read |

`Authorize` and `RequestApproval` read the approval and go on to `Create`,
`Lapse` (the approval read is saved whole, expired) or `Issue`, one transaction
that looks for an earlier lease of the key, checks the approval and consumes
it. The clock of a lease is read when `Authorize` begins, so a call that was
early stays early: `late` is part of the call. `UseLease` stands for
`bound_agent_lease`, which both the validation and the consumption begin with,
and goes on to `Consume` (compare-and-set) or `LapseLease` (a plain save).
`BeginDecision` reads an approval, `Decide` is the transaction with its leases,
`LapseAtDecision` the plain save of a decision that comes late. `PatchPolicy`,
`SavePolicy`, `Scan` and `Purge` are a change of the privacy policy: the purge
reads all approvals at once and saves them back one by one.

`decided`, `uses` and `overwrote` are history variables. The last one says that
a purge has saved an approval that had changed since its scan: the code has
that race (see Findings), so three properties are stated for the behaviours
without it, the others hold with it. Left out: roles and the ban on approving
one's own request, the comparison of binding fields, other permissions of the
identity (they are in `JobQueue`), audit events, the limit of ten entries of
the history, and the copy of a preview inside a stored decision result.

### The services

Each of these modules is one record domain with the handlers that touch it. A
handler reads in one action and saves in a later one, so a second thread may save
in between; consecutive reads are one action, since no property tells them apart.
`Server` has the threads and `Stale`, which says that a save goes over something its
thread has not seen. Where the code has such a race and nothing
against it, the model contains it, a history variable records that it
happened, and the property says what holds otherwise. (Section 3 lists these races, with
what the documents say of them.) The history
variable is set by the one step that overwrites, never by an outcome, so a second cause
of the same damage would be found.

- `Credentials`. `settings` is the set of changes the payload contains, so a lost update is a
  smaller set. `OpenSettings` takes `SETTINGS_WRITE_LOCK` for the endpoints
  that do (`Locks`), `SaveChange` saves and releases it; `RecordKeyUse` (a request
  authenticated by a key) and `SeedSettings` save without it, which `unlocked`
  records when they undo something. A service account has no lock: `reissued`.
- `Workspace`. `Enter` is the gate and the permission check of a writing
  request, `EnterEmpty`, `Bootstrap` and `Permit` the first request to an
  empty workspace. An acceptance is `OpenInvite`, `Refresh` (saves only
  an expiry), `AdmitMember`, `SpendInvite`.
- `Gateway`. A completion is `Admit` (policy, provider, budget), `Count`,
  `LookUp`, then `Expire` or `Hit`, `AttemptFails` and `Answer`, `AddSpend`,
  `Store`. It keeps the budget, the count and the rate limit it read on admission.
  `OpenBudget` and `PatchBudget` merge any field into the budget that was read, `spentUsd`,
  `hardLimitEnabled` and `environment` (`covers`) included; `PutRateLimit` is a new
  routing policy, `SetMode` the edit of a policy. `due` and `adjusted` follow what
  operators wrote into `spentUsd`; `uncounted` and `miscounted` record overwritten
  budgets and counts, `remoded` a change of a policy's mode. The run moves one of three parts of it:
  `spend`, `rate` or `cache`, which leave out what the others are about.
- `Providers`. Keys are numbered as operators supply them; `vetted` are the keys
  created with, tested or enabled; 0 is no key, enough for a provider that needs
  none (`keyless`). A request is routed by `OpenConnection` with
  "mark", and marks the record it reads again after the answer (`Reread`).
- `Connectors`. `Trigger`, `RunRule`, `SaveEvent`, `SaveRule` are a trigger,
  which may also come from the other modules' records, `OtherRuleRuns` a rule of which only
  the delivery is kept; `OpenQueue`, `Send`,
  `Mark` process a page of the queue. `accepted` counts what the receiver
  took, `contended` are deliveries two requests held, or whose request stopped,
  `purged` counts the events a purge deleted.
- `Governance`. A record has a time and a text. Holds cover texts; days pass; an edit
  (`OpenEdit`, `SaveEdit`) saves the record it read with another text, also over
  its deletion, and makes one of `Renewed` young again: prompts, whose only time is
  `updatedAt`. A purge is `OpenPurge` (holds), `Choose` (records), `DeleteRecord`
  one by one, of which nothing is read again. `rewritten` are chosen records an edit saved
  since. `CleanUpMarked` is what a start of the server deletes.
- `TraceIngest`. A request checks, saves and triggers trace after trace, and
  records the keys at the end; `DropIngest` is a failure at any point.
- `Startup`. Here `Threads` are server processes. On SQLite (`~inBackground`) a server serves
  after its start, on Postgres during it.
- `Pilot`. `admitted` are the applications taken in the window, oldest first; `kept` says
  that the process still has the time of one in its client's bucket, which an eviction or a restart forgets.
- `ReleaseGates`. A run is `RunGate`, `NameResult`, `SaveLastRun`, three saves. What a run checks
  and decides is left out: the properties are about which run a definition shows.
  `PurgeResult` and `DeleteGate` are also purges.
- `GuardedTool`. `tool` is the client, `wire` the requests on their way, each
  served later, never, or twice when the client sends it again. `Process` is
  `Authorization`'s commit of one request; its races are in that module.

`MCServices` puts them on one server. They share no record, so instead of
their product an initial state chooses the part that moves, and the rest
stays. Where modules touch, each has the other's effect as an action of its
own. A start of a server cleans up (`CleanUp`, `CleanUpMarked`), traces trigger
automations (`TriggerTrace`), the retention policy saves the settings. `Governance`
has the purge itself; of the domains it may delete (`DATA_GOVERNANCE_DOMAINS`), these
have the deletion in the module that keeps the records: traces
(`PurgeTrace`), automation rules and events and deliveries (`PurgeRule`,
`PurgeEvent`, `PurgeDelivery`), pilot applications (`PurgeApplication`), gate results and
definitions (`PurgeResult`, `DeleteGate`), budgets and cache entries
(`PurgeBudget`, `ClearCache`), policies (`SetMode`), provider connections (`PurgeConnection`).
Purges of the records of `JobQueue`, `ProductionAccess` and `Authorization`
(`agent_runs`, `agent_jobs`, `agent_identities`, approvals, leases, requests) are not modelled: their
properties are about records within their retention. The other domains hold records
nothing else depends on.

## 3. Runs

| Run | Instance | Checks |
|---|---|---|
| `queue` | 1 process, 2 workers that also retry and cancel, 1 operator that kills and submits; 2 jobs under the two names of one agent, 1 shared lease, `MaxAttempts` 1 so that a failed job can be retried | `TypeOK`, `ClaimedAtMostOnce`, `CancelledStaysStopped`, `RunningHasOneWorker`, `ClaimOnlyWhenEnabled`, `ImplementsLeaseGrant` |
| `faults` | 2 processes with one worker each; the second also serves direct runs, the first cancellations; kill switch, production decisions; 1 production job, `MaxAttempts` 2, one crash or storage error | `LeaseSingleUse`, `ActiveLeaseBacked`, `KilledNotRunning`, `EvidenceBeforeSuccess` |
| `liveness` | 1 process, a worker and two operators that lock one or two names, fairness | `WaitIsShort`, `GuardIsReleased`, `RunningEnds` |
| `access` | 3 requests, 2 reviewers, 2 keys, 2 clock readings | `OnePending`, `PostureBacked`, `DecisionRemembered`, `AppliedOnce` |
| `authorization` | one high-risk and one other key, 2 leases, 2 agent threads, 2 reviewers, 1 administrator, 2 calls at a time | `TypeOK`, `OneLeasePerKey`, `ExplicitApproval`, `LeaseSpendsApproval`, `OneVerdict`, `RevocationHolds`, `LeaseAsGranted` |
| `services` | every part of `MCServices`, two threads (two servers in `Startup`); one record of each kind, two where an order matters | `ServicesTypeOK`, `AnsweredChangesStand`, `CountedRunsHaveEvents`, `DeliveredOnce`, `PurgeSparesHeld`, `InviteStaysSpent`, `RoutedKeyIsVetted`, `SpendIsCharged`, `RateLimitHolds`, `BlockedAnswerWithheld`, `ToolRunsOnce`, `TraceStoredOnce`, `ReadyIsSeeded`, `PilotPromises`, `GateShowsNewestRun`, `ToolAsGranted` |
| `kill_races_submit`, `next_page`, `access_race`, `purge_undoes_revocation`, `held_record_deleted`, `stop_misses_record_id` | violations, see below | `KillLeavesNoJob`, `NextSeesQueued`, `NewestPending`, `RevocationFinal`, `HeldRecordSurvives`, `StopReachesBothNames` |

Bounds. Two workers and one lease are enough for every race on a lease or a
job, since the transactions concern one lease, one identity or one job at a
time; the second job makes the lease shared. `CanDo` gives each thread the
requests it serves; together the runs fire every action. `MaxFaults` = 1 puts
one crash or storage error at every point. Three requests in `access` give a
newest, a superseded and one that arrives late. In `authorization`, `MaxCalls`
bounds the calls served at the same time, not how many are made: every pair of
calls races in every order, any number of times. A key gets one lease, so two
leases for two keys never run out; a third call at a time adds no
transaction on other records, and the theorems have no such bound. In
`services`, a race is always between two handlers on one record, so two threads and one
record meet it; `AccountKeys`, `ApiKeys`, `Records`, `Texts`, `RateLimits`, `Users`, `Clients`, `PilotKeys` and `Forms` have two
members because there a property compares two: the two records differ in that one
is young again after an edit (`Renewed`) and the other is taken for demonstration data (`Marked`), the two
texts in what a hold covers. `MaxTime` = 2 days is one more than the shortest
retention. `Spends` = {0} clears what was charged, up to 2. `PageLimit` = 1 makes a page of the
delivery queue smaller than the queue; `DeliveredOnce` is proved for every limit. `MaxRuns`, `MaxCharge`, `MaxCalls`,
`MaxPosts`, `MaxTraces`, `MaxAdmitted` and `MaxResults` stop histories that would grow for ever, after
one more than the limit in question; `MaxPosts` = 4 is an invocation and its
repetition. Threads are interchangeable, hence the symmetry. Where a thread may rest for
ever (no request arrives) the runs do not check for deadlock.

What the runs say, beyond the table: `maxAttempts` gives no second execution,
because the retried job's lease is spent (`ClaimedAtMostOnce`); the identity
guard is needed for `ClaimOnlyWhenEnabled`, protects only one process, and only jobs that name their
identity by agentId, the name every kill switch locks (`StopReachesBothNames` shows the others), while
`KilledNotRunning` and `LeaseSingleUse` rest on compare-and-set and hold
across processes. Waiting for the guard has length two at most
(`WaitIsShort`): a kill switch may wait for one that has the record id and waits for
a worker. `GuardIsReleased` adds that the waiting ends.

Fairness (`liveness` only): a request that has begun goes on (`WF` of its
steps: the server's threads are scheduled and the provider client has a 20
second timeout, `agent_runtime.py:243`), and a thread waiting for a lock that is free again
and again gets it (`SF` of `Acquire`). Nothing is assumed about requests
arriving. Faults are off: a crash after the claim leaves a job
`running` for ever, and the code has no recovery.

### Findings

- `KillLeavesNoJob`: submission checks identity and lease, then saves the job
  without the guard (`main.py:9467-9477`). A kill switch in between answers that it has
  cancelled the agent's jobs, and a queued one appears. README.md:52 of the
  repository: "Revocation and the kill switch revoke active leases and cancel affected jobs".
  The job cannot run any more; a worker will block it.
- `NextSeesQueued`: `process_next_job` looks for queued jobs among the newest
  100 of any status (`PageLimit`, 1 in the run), so older queued jobs starve and the endpoint
  answers "No queued agent jobs".
- `NewestPending`: `createdAt` is read before the transaction. If two requests
  commit in the other order, the newest is revoked and the older one stays
  pending, and nobody can decide it because it is not the newest. The test
  `test_concurrent_production_access_requests_leave_only_the_newest_pending`
  only counts.
- `RevocationFinal`: changing the privacy policy to `metadata_only` saves every
  approval with a preview as it was read (`main.py:8527-8532`). An approval
  revoked in between is approved again and the next authorization is issued a
  lease. docs/agent-tool-integrations.md:112 of the repository: "Revocation
  blocks future authorization and consumption". Decisions are compare-and-set
  and have no such race (`RevocationHolds`), and even the purge makes no second
  lease (`OneLeasePerKey`) and no unapproved one (`ExplicitApproval`).
- `HeldRecordSurvives`: every start of a server deletes the records that
  `is_fake_record` takes for demonstration data, and looks at no legal hold
  (`database.py:146`). Real records match: all `costs`, violations of the
  gateway (`main.py:5393`), every OpenTelemetry trace without a
  session id (`otel.py:80`), incidents of automations where ids are not scoped
  (`main.py:4242`). docs/data-governance.md:21: "Legal holds always win over retention
  rules". Without the clean-up (`Marked` empty) the property still fails: a hold
  placed after a purge read the holds does not stop it (`main.py:10076`).
  `PurgeSparesHeld` is what the purge does guarantee.
- `StopReachesBothNames`: a job may be submitted under the agentId or the record id of its
  identity; the guard and the cancellation work on names. A kill switch addressed by
  agentId has only that name (`main.py:8985-8997`), so it neither waits for a worker on a
  job under the record id nor cancels the job. In the trace the worker has read the
  identity as enabled and consumed the lease when the identity is disabled, claims
  the job (`job_queue.py:177-216`) and runs on after the answer. README.md:52 of the repository:
  "Revocation and the kill switch revoke active leases and cancel affected jobs".

Other races and gaps met while modelling. The first group is what the history variables of the
services stand for: each shows as a counterexample when the variable is taken out of
the property, and each contradicts a sentence of the repository.

- `rewritten` (`PurgeSparesHeld`): a purge chooses all candidates, then deletes them by id
  (`main.py:10076-10080`). A prompt deployed in between (`main.py:7921-7924` sets `updatedAt`, its
  only time) is deleted although it is young, a record edited to match a hold
  although the purge had read the hold. docs/data-governance.md:61: "The backend recomputes eligible
  records immediately before deletion, so newly protected records are not deleted".
- `uncounted` (`SpendIsCharged`): concurrent requests that each fit under the hard limit of the
  budget they read spend more together, and one's charge is lost (`main.py:5079`, `main.py:5092`).
  docs/provider-gateway.md:134: "a hard environment budget would be exceeded before provider spend".
- `miscounted` (`RateLimitHolds`): two requests read one count of the minute and both pass
  (`main.py:5102-5106`). docs/provider-gateway.md:133: "the NeuralOps API key exceeded the rolling
  per-minute gateway limit".
- `repeated` (`TraceStoredOnce`): the key of a trace is looked up first and recorded last
  (`main.py:7456`, `main.py:7581`). Two requests with it that overlap, or a repetition after a stop
  between, store two traces. docs/integration-kit.md:99: "NeuralOps deduplicates repeated
  envelopes with the same `idempotencyKey`".
- `reverted` (`GateShowsNewestRun`): a run of a gate, or a patch, saves the definition it read over
  another's save, or over its deletion (`main.py:3542`, `main.py:6728`): a deleted gate is back.
  backend/tests/test_api.py:2261-2266 requires a 404 after the deletion, with nothing beside it.

Of the others no document or test speaks, but for the first: `request_agent_approval` stores a
preview without reading the policy (`main.py:8668`; `RequestApproval` in `Authorization`), unlike
`authorize_agent_action` (docs/agent-tool-integrations.md:64: "The backend rejects preview payloads unless workspace
policy enables them"). Approving or blocking
an approval after its 15 minutes saves it as expired even if it was consumed, and then
it cannot be revoked although its lease may be active (`main.py:8761`). Recording the use of an API
key can undo the revocation of another (`main.py:574`), and of a service account its rotation
(`main.py:654`). A cached
answer is checked again and returned with status 200 even if a policy now blocks it
(`main.py:7063`). A seeding cut off is never completed, for the
store is not empty any more (`database.py:124`). Two requests with one invite are both
admitted (`main.py:9680`). A slow test saves an old key or a disabled connection's status back
(`provider_catalog.py:417`). The purge of previews also
leaves the copy of a preview in `decisionHistory` (`main.py:8782`).

## 4. Proofs

All theorems hold for any numbers of agents, jobs, leases, threads, processes,
requests, keys, records, calls and faults, from each module's assumption on its
constants alone (`ConstantsAssumption`, `ServerAssumption`, `CredentialsAssumption`,
`GatewayAssumption` and so on: types of the constants, and which of them are
distinct), which TLC evaluates in every run.

- `TypeCorrectness` (`JobQueue`): `TypeOK` is not inductive: a step writes the record
  of the job in its request, which must be a job. `TypeInv` adds `Placed`: which requests a
  thread can serve at each label (`OpsAt`) and what such a request names. One
  lemma per group of actions, one step per action.
- `LeasePaysOnce` (`LeaseSingleUse`): `AuthorityInv` adds that an issued or
  active lease has no calls and no holder, and that a consumed one has at most
  one thread between consumption and call, with no call made yet. Most actions
  are *quiet* (no new holder, no call, no lease restored), which is proved once;
  consuming and calling are the two steps that move the right.
- `LeaseBacked` (`ActiveLeaseBacked`): inductive with the types; the heart is
  `RevokedLeasesBacked`, a permission is taken away together with
  the active leases that need it.
- `JobQueueSafety` first says once what a step does to each thread (`NextMoves`: it
  stays, ends, goes on or starts, and what it has made sure of when it reaches a
  label) and to each job (`NextWrites`); the invariants are shown against these
  cases instead of every action.
  - `JobsAreClaimedOnce` and `CancelledJobsStayStopped`, from `ClaimInv`: a job is
    `Closed` once its lease is spent and no thread is about to claim with that lease.
    A job that was claimed or is being retried is closed, a cancelled one is if a
    retry has queued it again, and a closed job stays closed: no spent lease comes back.
  - `SuccessHasEvidence`: a thread at `complete` has stored both records.
  - `KilledJobsDoNotRun`, for any number of processes: the guard does not keep
    a kill switch out of another process; what does is that disabling the identity
    revokes its active leases (`ActiveLeaseBacked`), so no later claim finds one.
  - `RunningJobsHaveOneWorker` under `MaxFaults = 0`, and `ClaimsNeedEnabledIdentity`
    when all threads share one process, for jobs that name their identity by agentId (a
    worker past the identity check and a kill switch about to disable it would hold the same
    key; on a job under the record id they hold two, and the claim happens): the conditions under
    which the runs check these two properties.
  - `GuardCannotDeadlock` (`WaitIsShort`), with crashes and storage errors: `LockInv` says
    that a held key belongs to a request that names it and has not left the guard,
    and that a request still taking its keys lacks one and holds no agentId. So
    one that waits with a key in hand waits for an agentId, which only a request
    in the guard has.
  - `JobQueueImplementsLeaseGrant`: issuing, consuming and calling are the abstract
    `Issue`, `Take` and `Use`; every quiet step voids some leases or none. It needs
    that an issued lease stays issued, though an expired one is saved whole.
- `ProductionAccessProofs`: one invariant `AccessInv` yields `AccessTypes`,
  `AtMostOneReview`, `PostureIsBacked`, `DecisionsAreRemembered` and
  `DecisionsApplyOnce`. The status of a request only moves up (`Rank`), so a
  decision whose expected status still holds also read the history that still
  holds, although that history is written from an earlier read.
- `AuthorizationProofs`: `AuthorizationInv` is the types, `CallInv` (what a
  call in progress holds: a decision is applied to a status it is meant for, an
  approval read as approved has been approved) and `RecordInv`. `Agrees` is its
  heart, kept while no purge has overwritten: an approval that can still be
  used has no lease, a consumed one has one, decided approvals are no longer
  pending, a revoked one has no active lease. It implies `LeaseSpendsApproval`,
  `OneVerdict` and `RevocationHolds` (`ApprovalIsSpent`, `VerdictsAreOne`,
  `RevocationsHold`), which are not inductive alone: a decision is committed on the
  status it read, so the history of decisions has to be tied to the status.
  `AuthorizationTypes`, `LeasedOnce`, `ApprovalIsExplicit` and `ConsumedOnce` hold
  whatever a purge saves. `AuthorizationImplementsLeaseGrant` maps every step to
  a step of `LeaseGrant` or a stutter (`StepIsGrant`), from the same invariant.

The theorems on the services are first about the component's own specification
(`CredSpec`, `GateSpec`, ...), with every request and every thread at once,
where the `services` run explores one part at a time.

- `GatewayProofs`: `BudgetIsCharged`, `MinuteIsLimited` and `BlockedIsWithheld` from
  `GateInv`: a budget that any request has read shows no more than operators wrote and
  was charged, whatever is patched or purged meanwhile (`SpendInv`), every request that
  passed is in the count and was compared with a limit no higher than `top` (`RateInv`), a request in
  progress was not blocked and what is or will be cached was allowed (`PolicyInv`).
- `ServicesProofs`:
  - `UsedKeyIsVetted` (`ProvInv`: the stored connection, and every
    record read of it, has a vetted key if it is in use), `PurgeSparesWhatItRead`
    (`GovInv`: what a hold covers never changes once it is
    placed, time only makes a record older, and only an edit changes its time or
    text, which then leaves what the property is about), `ReadyServersAreSeeded`
    (`BootInv`: the store is blank or complete unless a seeding is under way or was
    cut off) and `SpentInvitesStaySpent` (`WsInv`: a spent invite stays stored, so no
    new one takes its place).
  - `RevocationsStand` (`AnsweredChangesStand`) from `CredInv`. The
    property speaks of the stored settings; what makes it inductive is that a writer
    in progress holds the lock (`CredCallInv`) and has read every answered change
    (`SettingsInv`), and that an account being rotated or used was read while active.
  - `NewestRunShown` (`GateShowsNewestRun`) from `ReleaseInv`. A result gets its name
    after it is saved, and the definition after that, so the invariant (`Shown`) is of
    all named results, purged ones too; it needs that a run in progress has a result no other run
    has, and that only a run about to save its definition has one that is named.
  - `PilotPromisesHold` from `PilotInv`. The limit is kept on the bucket, not on what
    the property counts; the two agree for a client of whom nothing was forgotten. The
    oldest admission leaving the window shifts the others, which is an injection of
    the new bucket into the old one.
- `DeliveryProofs`:
  - `CountedRuns` and `DeliveredOnceHolds` from `ConnInv`: every copy of a rule, stored or in
    a request, counts no more runs than events were ever saved (`Behind`: stored or purged), so a stale save
    may lose a count but not invent one; a delivery that one request holds was not accepted,
    but for one whose outcome is known and about to be saved, and one that nobody holds was
    accepted exactly if its status says so.
  - `TracesStoredOnce` from `IngestInv`: until its key is recorded, a trace is
    known to the request that stored it, and only to that one unless two
    requests overlapped or one was cut off (`OneHolder`).
  - `GuardedToolRunsOnce` (`ToolRunsOnce`). The argument is a
    *ticket*: a thread whose consumption was answered and which has not run yet.
    A consumption creates at most one, whatever message is lost, late or sent
    again (`WireInv` ties an answer to the request that waits for it), and a run
    spends it (`TicketInv`). `ToolImplementsLeaseGrant` (`ToolAsGranted`) reads
    a taken lease off its ticket: with the answer the ticket appears and the lease
    leaves `live`, the run trades it for `used`, every other step voids or changes nothing.
- `CompositionProofs`: a step of `MCServices` is a step of the part that moves
  and leaves the others (`PartStep`), so the whole implements each component
  (`ServicesImplement`). Hence `ServicesTyped` (`ServicesTypeOK`), and
  `ServicesKeepPromises`: the other properties of the `services` run hold of its
  own specification, for every value of the constants.

Only model-checked: the two liveness properties, since fairness is out of the proof
system's reach. Each safety property, action property and refinement that a passing
run checks is the statement of a theorem. No module declares a RECURSIVE operator;
no theorem needs induction over data.

## 5. Not modelled

- The first materialisation of a built-in identity (`main.py:8112`) against a
  kill switch, and registration: identities exist from the start in `JobQueue`.
- Of the prompt registry, policies and incidents, only what other parts depend on: an edit of a governed record
  beside a purge (`Governance`: deployments, traffic, patches) and the mode of a
  policy (`Gateway`). Creation, rollback, SLO definitions and detection cases are inserts or edits of one record by
  read and save, with no promise beyond it.
- What a release gate, a replay or the autopilot checks and decides, and the scores: computed from records whose
  contents the models abstract.
- Purges of the records of the queue, of production access and of authorization.
- Estate, risk, cost, evidence and SLO reports, the provider calibration, the metrics, the conversion of
  OpenTelemetry spans, the scores of evaluations: pure functions
  of stored records whose content the models abstract.
- The JavaScript SDK: the same protocol as `GuardedTool`. Telemetry of the Python SDK.
- Audit events: inserts of independent records beside each operation.
- User interface, migrations, deployment scripts, the wording of answers.

Worth adding next: `AgentIdentity` (materialisation and registration), and a proof that
`GuardedTool`'s server commits only what `Authorization` allows: today both
refine `LeaseGrant`, each from its end.
