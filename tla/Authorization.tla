---------------------------- MODULE Authorization ----------------------------
(***************************************************************************)
(* Authorization of the actions of one agent identity (app/main.py and     *)
(* app/database.py): a high-risk action waits for a person's approval, an  *)
(* authorized action gets a short-lived lease, the lease is consumed once. *)
(* JobQueue models what a lease pays for inside this server.               *)
(*                                                                         *)
(* A key is an idempotency key of the agent with the action bound to it:   *)
(* a request that binds it to another action is refused before anything    *)
(* changes, and so is any request whose first reads refuse it.  A record   *)
(* is read by one action and saved by a later one; a transaction is one    *)
(* action.  A decision stands for its idempotency key: it is retried with  *)
(* the reason and the key it was first sent with.                          *)
(*                                                                         *)
(* A definition marked "Faulty variant" belongs to no specification.       *)
(***************************************************************************)
EXTENDS Naturals, FiniteSets

CONSTANTS
  Keys,          \* idempotency keys, one action each
  HighRisk,      \* the keys whose action needs an approval
  Ids,           \* ids of leases (a bound: no lease is issued beyond them)
  Agents,        \* threads that serve the agent
  Reviewers,     \* threads that serve decisions
  Admins,        \* threads that serve changes of the privacy policy
  MaxCalls,      \* calls served at the same time (a bound)
  None

ASSUME ConstantsAssumption ==
  /\ HighRisk \subseteq Keys
  /\ Keys \cap Ids = {}
  /\ None \notin Keys \cup Ids \cup {"approved", "blocked", "revoked"}

VARIABLES
  enabled,       \* the identity is neither disabled nor revoked
  mode,          \* agent_control_privacy_policies "current"
  approval,      \* agent_approvals, by key: the id is computed from the key
  lease,         \* agent_authorization_leases
  late,          \* keys and ids whose record's expiresAt has passed
  agent,         \* per agent thread: the call it serves
  review,        \* per reviewer thread: the decision it serves
  admin,         \* per admin thread: the change it serves
  decided,       \* history variable, by key: decisions a transaction has committed
  uses,          \* history variable, by lease: consumptions answered with success
  overwrote      \* history variable: a purge has saved over an approval changed since its scan

vars == <<enabled, mode, approval, lease, late, agent, review, admin, decided, uses, overwrote>>

-----------------------------------------------------------------------------
Modes == {"metadata_only", "redacted_preview"}
Decisions == {"approved", "blocked", "revoked"}

\* history: the decisions stored in decisionHistory.
Approval == [status : Decisions \cup {"none", "pending", "expired", "consumed"},
             preview : BOOLEAN, history : SUBSET Decisions]
Lease == [status : {"none", "active", "consumed", "revoked", "expired"}, key : Keys \cup {None}]

NoApproval == [status |-> "none", preview |-> FALSE, history |-> {}]
NoLease == [status |-> "none", key |-> None]

AgentCall == [at : {"idle", "create", "issue", "lapse", "consume", "lapse_lease"},
              key : Keys \cup {None}, lease : Ids \cup {None},
              preview : BOOLEAN, late : BOOLEAN, read : Approval]
ReviewCall == [at : {"idle", "decide", "lapse"}, key : Keys \cup {None},
               decision : Decisions \cup {None}, read : Approval]
AdminCall == [at : {"idle", "policy", "scan", "purge"}, mode : Modes,
              todo : SUBSET Keys, read : [Keys -> Approval]]

NoAgentCall == [at |-> "idle", key |-> None, lease |-> None,
                preview |-> FALSE, late |-> FALSE, read |-> NoApproval]
NoReviewCall == [at |-> "idle", key |-> None, decision |-> None, read |-> NoApproval]
NoAdminCall == [at |-> "idle", mode |-> "metadata_only", todo |-> {},
                read |-> [k \in Keys |-> NoApproval]]

Issued == {l \in Ids : lease[l].status # "none"}
LeasesOf(k) == {l \in Issued : lease[l].key = k}

Actionable(d) ==
  IF d = "revoked" THEN {"pending", "approved", "consumed"} ELSE {"pending"}

\* Faulty variant: an approval is born approved.
ApprovedAtOnce(p) == [NoApproval EXCEPT !.status = "approved", !.preview = p]

\* The record create_agent_approval inserts.
Pending(p) == [NoApproval EXCEPT !.status = "pending", !.preview = p]

\* The active leases of the set S are revoked.
Revoke(S) ==
  lease' = [l \in Ids |-> IF l \in S /\ lease[l].status = "active"
                            THEN [lease[l] EXCEPT !.status = "revoked"]
                            ELSE lease[l]]

Free ==
  Cardinality({a \in Agents : agent[a].at # "idle"})
    + Cardinality({r \in Reviewers : review[r].at # "idle"})
    + Cardinality({x \in Admins : admin[x].at # "idle"}) < MaxCalls

AgentDone(a) == agent' = [agent EXCEPT ![a] = NoAgentCall]

Init ==
  /\ enabled = TRUE
  /\ mode = "metadata_only"
  /\ approval = [k \in Keys |-> NoApproval]
  /\ lease = [l \in Ids |-> NoLease]
  /\ late = {}
  /\ agent = [a \in Agents |-> NoAgentCall]
  /\ review = [r \in Reviewers |-> NoReviewCall]
  /\ admin = [x \in Admins |-> NoAdminCall]
  /\ decided = [k \in Keys |-> {}]
  /\ uses = [l \in Ids |-> 0]
  /\ overwrote = FALSE

-----------------------------------------------------------------------------
(* The identity and the clock.                                             *)

\* Kill switch or revocation: one transaction with the identity's leases.
Disable ==
  /\ enabled
  /\ enabled' = FALSE
  /\ Revoke(Ids)
  /\ UNCHANGED <<mode, approval, late, agent, review, admin, decided, uses, overwrote>>

\* 15 minutes after the approval was requested, 5 or 10 after the lease was issued.
Expire(e) ==
  /\ e \notin late
  /\ e \in Issued \cup {k \in Keys : approval[k].status # "none"}
  /\ late' = late \cup {e}
  /\ UNCHANGED <<enabled, mode, approval, lease, agent, review, admin, decided, uses, overwrote>>

-----------------------------------------------------------------------------
(* The agent's calls.                                                      *)

\* approval_for_action finds an approval that has expired since: it is saved as
\* expired by the next step.
Lapsing(k) == k \in late /\ approval[k].status \in {"pending", "approved"}

\* authorize_agent_action: credential, policy and approval are read.  The time
\* read here is the one the lease is issued at.
Authorize(a, k, p) ==
  /\ Free /\ agent[a].at = "idle" /\ enabled
  /\ p => k \in HighRisk /\ mode = "redacted_preview"
  /\ LET st == approval[k].status
         call == [NoAgentCall EXCEPT !.key = k]
         Go(c) == agent' = [agent EXCEPT ![a] = c]
     IN \/ k \notin HighRisk /\ Go([call EXCEPT !.at = "issue"])
        \/ /\ k \in HighRisk /\ st = "none"
           /\ Go([call EXCEPT !.at = "create", !.preview = p])
        \/ /\ k \in HighRisk /\ Lapsing(k)
           /\ Go([call EXCEPT !.at = "lapse", !.read = approval[k]])
        \/ /\ k \in HighRisk /\ ~Lapsing(k) /\ st \in {"approved", "consumed"}
           /\ Go([call EXCEPT !.at = "issue", !.late = k \in late])
  /\ UNCHANGED <<enabled, mode, approval, lease, late, review, admin, decided, uses, overwrote>>

\* request_agent_approval: no look at the privacy policy.
RequestApproval(a, k, p) ==
  /\ Free /\ agent[a].at = "idle" /\ enabled
  /\ k \in HighRisk
  /\ agent' = [agent EXCEPT ![a] = [NoAgentCall EXCEPT !.at = "create", !.key = k, !.preview = p]]
  /\ UNCHANGED <<enabled, mode, approval, lease, late, review, admin, decided, uses, overwrote>>

\* create_agent_approval: an approval made meanwhile is answered as it is.
Create(a) ==
  LET c == agent[a] IN
  /\ c.at = "create"
  /\ IF approval[c.key].status = "none"
       THEN approval' = [approval EXCEPT ![c.key] = Pending(c.preview)] /\ AgentDone(a)
       ELSE /\ UNCHANGED approval
            /\ IF Lapsing(c.key)
                 THEN agent' = [agent EXCEPT ![a] = [NoAgentCall EXCEPT
                                   !.at = "lapse", !.key = c.key, !.read = approval[c.key]]]
                 ELSE AgentDone(a)
  /\ UNCHANGED <<enabled, mode, lease, late, review, admin, decided, uses, overwrote>>

\* The approval read before is saved, expired.
Lapse(a) ==
  LET c == agent[a] IN
  /\ c.at = "lapse"
  /\ approval' = [approval EXCEPT ![c.key] = [c.read EXCEPT !.status = "expired"]]
  /\ AgentDone(a)
  /\ UNCHANGED <<enabled, mode, lease, late, review, admin, decided, uses, overwrote>>

\* Faulty variant: leases issued before under the same key are not looked for.
MayIssueAgain(c) ==
  /\ enabled
  /\ c.key \in HighRisk => approval[c.key].status = "approved" /\ ~c.late

\* The transaction issues a lease.
MayIssue(c) ==
  /\ enabled
  /\ LeasesOf(c.key) = {}
  /\ c.key \in HighRisk => approval[c.key].status = "approved" /\ ~c.late

\* Faulty variant: the approval stays usable.
IssueKeepsApproval(a) ==
  LET c == agent[a] IN
  /\ c.at = "issue"
  /\ IF MayIssue(c)
       THEN \E l \in Ids \ Issued : lease' = [lease EXCEPT ![l] = [status |-> "active", key |-> c.key]]
       ELSE UNCHANGED lease
  /\ AgentDone(a)
  /\ UNCHANGED <<enabled, mode, approval, late, review, admin, decided, uses, overwrote>>

\* issue_agent_authorization_lease: the approval is consumed with the issue.  An
\* earlier lease of the key is replayed if it is active and refused if not.
Issue(a) ==
  LET c == agent[a] IN
  /\ c.at = "issue"
  /\ IF MayIssue(c)
       THEN /\ \E l \in Ids \ Issued : lease' = [lease EXCEPT ![l] = [status |-> "active", key |-> c.key]]
            /\ approval' = IF c.key \in HighRisk THEN [approval EXCEPT ![c.key].status = "consumed"]
                                                 ELSE approval
       ELSE UNCHANGED <<lease, approval>>
  /\ AgentDone(a)
  /\ UNCHANGED <<enabled, mode, late, review, admin, decided, uses, overwrote>>

\* bound_agent_lease: a lease found expired is saved so by the next step.  A
\* validation does no more than this.
UseLease(a, l) ==
  /\ Free /\ agent[a].at = "idle" /\ enabled
  /\ lease[l].status = "active"
  /\ agent' = [agent EXCEPT ![a] = [NoAgentCall EXCEPT
                 !.at = IF l \in late THEN "lapse_lease" ELSE "consume", !.lease = l]]
  /\ UNCHANGED <<enabled, mode, approval, lease, late, review, admin, decided, uses, overwrote>>

\* Faulty variant: the lease read before is saved, consumed.
ConsumeBySave(a) ==
  LET l == agent[a].lease IN
  /\ agent[a].at = "consume"
  /\ lease' = [lease EXCEPT ![l].status = "consumed"]
  /\ uses' = [uses EXCEPT ![l] = @ + 1]
  /\ AgentDone(a)
  /\ UNCHANGED <<enabled, mode, approval, late, review, admin, decided, overwrote>>

\* consume_agent_lease: compare and set.
Consume(a) ==
  LET l == agent[a].lease IN
  /\ agent[a].at = "consume"
  /\ IF lease[l].status = "active"
       THEN /\ lease' = [lease EXCEPT ![l].status = "consumed"]
            /\ uses' = [uses EXCEPT ![l] = @ + 1]
       ELSE UNCHANGED <<lease, uses>>
  /\ AgentDone(a)
  /\ UNCHANGED <<enabled, mode, approval, late, review, admin, decided, overwrote>>

\* Faulty variant: a status the lease schema does not know.
LapseLeaseUnknown(a) ==
  /\ agent[a].at = "lapse_lease"
  /\ lease' = [lease EXCEPT ![agent[a].lease].status = "lapsed"]
  /\ AgentDone(a)
  /\ UNCHANGED <<enabled, mode, approval, late, review, admin, decided, uses, overwrote>>

\* The lease read before is saved, expired.
LapseLease(a) ==
  /\ agent[a].at = "lapse_lease"
  /\ lease' = [lease EXCEPT ![agent[a].lease].status = "expired"]
  /\ AgentDone(a)
  /\ UNCHANGED <<enabled, mode, approval, late, review, admin, decided, uses, overwrote>>

-----------------------------------------------------------------------------
(* Decisions.                                                              *)

\* decide_agent_approval: a decision found in the history is replayed; an
\* approval or a block that comes late saves the approval as expired.
BeginDecision(r, k, d) ==
  LET Go(step) == review' = [review EXCEPT ![r] =
                     [at |-> step, key |-> k, decision |-> d, read |-> approval[k]]]
  IN
  /\ Free /\ review[r].at = "idle"
  /\ approval[k].status # "none" /\ d \notin approval[k].history
  /\ IF d # "revoked" /\ k \in late THEN Go("lapse")
     ELSE approval[k].status \in Actionable(d) /\ Go("decide")
  /\ UNCHANGED <<enabled, mode, approval, lease, late, agent, admin, decided, uses, overwrote>>

LapseAtDecision(r) ==
  LET c == review[r] IN
  /\ c.at = "lapse"
  /\ approval' = [approval EXCEPT ![c.key] = [c.read EXCEPT !.status = "expired"]]
  /\ review' = [review EXCEPT ![r] = NoReviewCall]
  /\ UNCHANGED <<enabled, mode, lease, late, agent, admin, decided, uses, overwrote>>

\* The patch carries the history read before, extended by this decision.
Decided(c) ==
  approval' = [approval EXCEPT
     ![c.key] = [@ EXCEPT !.status = c.decision, !.history = c.read.history \cup {c.decision}]]

\* Faulty variant: the approval may have been decided since it was read.
DecideUnexpected(r) ==
  LET c == review[r] IN
  /\ c.at = "decide"
  /\ Decided(c)
  /\ decided' = [decided EXCEPT ![c.key] = @ \cup {c.decision}]
  /\ IF c.decision = "approved" THEN UNCHANGED lease ELSE Revoke(LeasesOf(c.key))
  /\ review' = [review EXCEPT ![r] = NoReviewCall]
  /\ UNCHANGED <<enabled, mode, late, agent, admin, uses, overwrote>>

\* Faulty variant: only a block revokes leases.
DecideLeavesLeases(r) ==
  LET c == review[r] IN
  /\ c.at = "decide"
  /\ IF approval[c.key].status = c.read.status
       THEN /\ Decided(c)
            /\ decided' = [decided EXCEPT ![c.key] = @ \cup {c.decision}]
            /\ IF c.decision # "blocked" THEN UNCHANGED lease ELSE Revoke(LeasesOf(c.key))
       ELSE UNCHANGED <<approval, decided, lease>>
  /\ review' = [review EXCEPT ![r] = NoReviewCall]
  /\ UNCHANGED <<enabled, mode, late, agent, admin, uses, overwrote>>

\* decide_agent_approval_atomic: compare and set, with the leases.
Decide(r) ==
  LET c == review[r] IN
  /\ c.at = "decide"
  /\ IF approval[c.key].status = c.read.status
       THEN /\ Decided(c)
            /\ decided' = [decided EXCEPT ![c.key] = @ \cup {c.decision}]
            /\ IF c.decision = "approved" THEN UNCHANGED lease ELSE Revoke(LeasesOf(c.key))
       ELSE UNCHANGED <<approval, decided, lease>>
  /\ review' = [review EXCEPT ![r] = NoReviewCall]
  /\ UNCHANGED <<enabled, mode, late, agent, admin, uses, overwrote>>

-----------------------------------------------------------------------------
(* The privacy policy: patch_agent_control_privacy_policy.                 *)

PatchPolicy(x, m) ==
  /\ Free /\ admin[x].at = "idle"
  /\ m # mode
  /\ admin' = [admin EXCEPT ![x] = [NoAdminCall EXCEPT !.at = "policy", !.mode = m]]
  /\ UNCHANGED <<enabled, mode, approval, lease, late, agent, review, decided, uses, overwrote>>

SavePolicy(x) ==
  /\ admin[x].at = "policy"
  /\ mode' = admin[x].mode
  /\ admin' = [admin EXCEPT ![x] = IF @.mode = "metadata_only"
                                      THEN [@ EXCEPT !.at = "scan"] ELSE NoAdminCall]
  /\ UNCHANGED <<enabled, approval, lease, late, agent, review, decided, uses, overwrote>>

\* All approvals are read at once.
Scan(x) ==
  LET todo == {k \in Keys : approval[k].preview} IN
  /\ admin[x].at = "scan"
  /\ admin' = [admin EXCEPT ![x] = IF todo = {} THEN NoAdminCall
                                   ELSE [@ EXCEPT !.at = "purge", !.todo = todo,
                                                  !.read = [k \in Keys |-> IF k \in todo THEN approval[k]
                                                                            ELSE NoApproval]]]
  /\ UNCHANGED <<enabled, mode, approval, lease, late, agent, review, decided, uses, overwrote>>

\* Those with a preview are saved one by one, as they were read but for it.
Purge(x, k) ==
  LET c == admin[x] IN
  /\ c.at = "purge" /\ k \in c.todo
  /\ approval' = [approval EXCEPT ![k] = [c.read[k] EXCEPT !.preview = FALSE]]
  /\ overwrote' = (overwrote \/ approval[k] # c.read[k])
  /\ admin' = [admin EXCEPT ![x] =
       IF c.todo = {k} THEN NoAdminCall
       ELSE [c EXCEPT !.todo = c.todo \ {k}, !.read = [c.read EXCEPT ![k] = NoApproval]]]
  /\ UNCHANGED <<enabled, mode, lease, late, agent, review, decided, uses>>

-----------------------------------------------------------------------------
AgentStep(a) ==
  \/ \E k \in Keys, p \in BOOLEAN : Authorize(a, k, p) \/ RequestApproval(a, k, p)
  \/ \E l \in Ids : UseLease(a, l)
  \/ Create(a) \/ Lapse(a) \/ Issue(a) \/ Consume(a) \/ LapseLease(a)

ReviewStep(r) ==
  \/ \E k \in Keys, d \in Decisions : BeginDecision(r, k, d)
  \/ LapseAtDecision(r) \/ Decide(r)

AdminStep(x) ==
  \/ \E m \in Modes : PatchPolicy(x, m)
  \/ SavePolicy(x) \/ Scan(x)
  \/ \E k \in Keys : Purge(x, k)

Next ==
  \/ Disable
  \/ \E e \in Keys \cup Ids : Expire(e)
  \/ \E a \in Agents : AgentStep(a)
  \/ \E r \in Reviewers : ReviewStep(r)
  \/ \E x \in Admins : AdminStep(x)

Spec == Init /\ [][Next]_vars

-----------------------------------------------------------------------------
(* Properties.                                                             *)

TypeOK ==
  /\ enabled \in BOOLEAN
  /\ mode \in Modes
  /\ approval \in [Keys -> Approval]
  /\ lease \in [Ids -> Lease]
  /\ late \subseteq Keys \cup Ids
  /\ agent \in [Agents -> AgentCall]
  /\ review \in [Reviewers -> ReviewCall]
  /\ admin \in [Admins -> AdminCall]
  /\ decided \in [Keys -> SUBSET Decisions]
  /\ uses \in [Ids -> Nat]
  /\ overwrote \in BOOLEAN

\* An action is leased once, however often and however concurrently its
\* authorization is asked for.
OneLeasePerKey == \A k \in Keys : \A l, m \in LeasesOf(k) : l = m

\* A high-risk action is leased only if somebody has approved it.
ExplicitApproval ==
  \A l \in Issued : lease[l].key \in HighRisk => "approved" \in decided[lease[l].key]

\* No lease exists beside an approval that could still be used or refused, and
\* a consumed approval has its lease, unless a purge restored an older approval.
LeaseSpendsApproval ==
  ~overwrote =>
    \A k \in HighRisk :
      /\ approval[k].status \in {"none", "pending", "approved", "blocked"} => LeasesOf(k) = {}
      /\ approval[k].status = "consumed" => LeasesOf(k) # {}

\* Of an approval and a block at the same time one is answered with success,
\* unless a purge restored the approval it had decided.
OneVerdict ==
  ~overwrote => \A k \in Keys : ~({"approved", "blocked"} \subseteq decided[k])

\* "Revocation blocks future authorization and consumption": once an approval is
\* revoked, no lease of its action is active.
RevocationFinal ==
  \A k \in Keys : "revoked" \in decided[k] => \A l \in LeasesOf(k) : lease[l].status # "active"

\* So it is unless a purge restored the approval revoked.
RevocationHolds == ~overwrote => RevocationFinal

\* What the lease promises (LeaseGrant), the consumption being the execution's
\* licence: taken once, by one call, and never live again once it has ended.
Grant(l) ==
  CASE uses[l] > 1 -> "overused"
    [] uses[l] <= 1 /\ lease[l].status = "none" -> "unissued"
    [] uses[l] <= 1 /\ lease[l].status = "active" -> "live"
    [] uses[l] <= 1 /\ lease[l].status = "consumed" -> "taken"
    [] OTHER -> "void"

LG == INSTANCE LeaseGrant WITH Leases <- Ids, grant <- [l \in Ids |-> Grant(l)]

LeaseAsGranted == LG!GrantSpec
=============================================================================
