------------------------- MODULE AuthorizationProofs -------------------------
(* Theorems about Authorization, for every value of its constants.           *)
EXTENDS Authorization, TLAPS

USE ConstantsAssumption

\* What a call holds: an approval belongs to a high-risk key, a lease in use is
\* one that was issued, a decision is applied to a status it is meant for, an
\* approval read as approved has been approved.
AgentInv ==
  \A a \in Agents :
    /\ agent[a].at \in {"create", "lapse"} => agent[a].key \in HighRisk
    /\ agent[a].at = "issue" => agent[a].key \in Keys
    /\ agent[a].at \in {"consume", "lapse_lease"} => agent[a].lease \in Issued

ReviewInv ==
  \A r \in Reviewers :
    /\ review[r].at # "idle" => review[r].key \in HighRisk /\ review[r].decision \in Decisions
    /\ review[r].at = "decide" => review[r].read.status \in Actionable(review[r].decision)

AdminInv ==
  \A x \in Admins :
    /\ admin[x].todo \subseteq HighRisk
    /\ \A k \in Keys : admin[x].read[k].status = "approved" => "approved" \in decided[k]

CallInv == AgentInv /\ ReviewInv /\ AdminInv

LeaseInv ==
  /\ \A l \in Issued : lease[l].key \in Keys
  /\ \A l \in Ids : uses[l] <= 1 /\ (lease[l].status \in {"none", "active"} => uses[l] = 0)

\* What holds whatever a purge has saved.
ApprovalInv ==
  \A k \in Keys :
    /\ approval[k].status # "none" \/ approval[k].preview => k \in HighRisk
    /\ approval[k].status = "approved" => "approved" \in decided[k]
    /\ decided[k] # {} => k \in HighRisk

\* An approval, its decisions and its leases agree.
Agrees(k) ==
  /\ approval[k].status \in {"none", "pending", "approved", "blocked"} => LeasesOf(k) = {}
  /\ approval[k].status = "consumed" => LeasesOf(k) # {}
  /\ "approved" \in decided[k] \/ "blocked" \in decided[k] =>
       approval[k].status \notin {"none", "pending"}
  /\ ~("approved" \in decided[k] /\ "blocked" \in decided[k])
  /\ "revoked" \in decided[k] =>
       /\ approval[k].status \in {"revoked", "expired"}
       /\ \A l \in LeasesOf(k) : lease[l].status # "active"

RecordInv ==
  /\ LeaseInv /\ OneLeasePerKey
  /\ ApprovalInv /\ ExplicitApproval
  /\ ~overwrote => \A k \in HighRisk : Agrees(k)

AuthorizationInv == TypeOK /\ CallInv /\ RecordInv

-----------------------------------------------------------------------------
LEMMA IdleTypes ==
  /\ NoApproval \in Approval /\ NoLease \in Lease
  /\ NoAgentCall \in AgentCall /\ NoReviewCall \in ReviewCall /\ NoAdminCall \in AdminCall
BY DEF NoApproval, Approval, NoLease, Lease, NoAgentCall, AgentCall, NoReviewCall, ReviewCall,
       NoAdminCall, AdminCall, Modes

LEMMA PendingType ==
  ASSUME NEW p \in BOOLEAN
  PROVE  /\ Pending(p) \in Approval
         /\ Pending(p).status = "pending" /\ Pending(p).preview = p
BY DEF Pending, NoApproval, Approval

LEMMA RevokeType ==
  ASSUME lease \in [Ids -> Lease], NEW S, Revoke(S)
  PROVE  /\ lease' \in [Ids -> Lease]
         /\ \A l \in Ids :
              /\ lease'[l].key = lease[l].key
              /\ lease'[l].status = IF l \in S /\ lease[l].status = "active"
                                      THEN "revoked" ELSE lease[l].status
BY DEF Revoke, Lease

\* A step of the agent keeps the types.
LEMMA AgentTypes ==
  ASSUME TypeOK, CallInv, NEW a \in Agents, AgentStep(a)
  PROVE  TypeOK'
<1>. USE IdleTypes DEF TypeOK
<1>1. ASSUME NEW k \in Keys, NEW p \in BOOLEAN, Authorize(a, k, p) PROVE TypeOK'
  <2>. DEFINE call == [NoAgentCall EXCEPT !.key = k]
  <2>0. PICK b \in BOOLEAN : b = (k \in late)
    <3>1. (k \in late) \in BOOLEAN
      OBVIOUS
    <3>. QED  BY <3>1, Zenon
  <2>a. /\ [call EXCEPT !.at = "issue"] \in AgentCall
        /\ [call EXCEPT !.at = "create", !.preview = p] \in AgentCall
        /\ [call EXCEPT !.at = "lapse", !.read = approval[k]] \in AgentCall
        /\ [call EXCEPT !.at = "issue", !.late = b] \in AgentCall
    BY DEF NoAgentCall, AgentCall
  <2>1. PICK c \in AgentCall : agent' = [agent EXCEPT ![a] = c]
    BY <1>1, <2>0, <2>a DEF Authorize
  <2>. QED  BY <1>1, <2>1 DEF Authorize
<1>2. ASSUME NEW k \in Keys, NEW p \in BOOLEAN, RequestApproval(a, k, p) PROVE TypeOK'
  <2>1. [NoAgentCall EXCEPT !.at = "create", !.key = k, !.preview = p] \in AgentCall
    BY DEF NoAgentCall, AgentCall
  <2>. QED  BY <1>2, <2>1 DEF RequestApproval
<1>3. ASSUME NEW l \in Ids, UseLease(a, l) PROVE TypeOK'
  <2>1. \A s \in {"lapse_lease", "consume"} :
          [NoAgentCall EXCEPT !.at = s, !.lease = l] \in AgentCall
    BY DEF NoAgentCall, AgentCall
  <2>. QED  BY <1>3, <2>1 DEF UseLease
<1>4. ASSUME Create(a) PROVE TypeOK'
  <2>1. agent[a] \in AgentCall /\ agent[a].key \in Keys /\ agent[a].preview \in BOOLEAN
    BY <1>4 DEF Create, CallInv, AgentInv, AgentCall
  <2>2. [NoAgentCall EXCEPT !.at = "lapse", !.key = agent[a].key, !.read = approval[agent[a].key]]
          \in AgentCall
    BY <2>1 DEF NoAgentCall, AgentCall
  <2>3. Pending(agent[a].preview) \in Approval
    BY <2>1, PendingType
  <2>. QED  BY <1>4, <2>1, <2>2, <2>3 DEF Create, AgentDone
<1>5. ASSUME Lapse(a) PROVE TypeOK'
  <2>1. [agent[a].read EXCEPT !.status = "expired"] \in Approval
    BY DEF AgentCall, Approval
  <2>. QED  BY <1>5, <2>1 DEF Lapse, AgentDone
<1>6. ASSUME Issue(a) PROVE TypeOK'
  <2>1. agent[a].key \in Keys
    BY <1>6 DEF Issue, CallInv, AgentInv
  <2>2. lease' \in [Ids -> Lease]
    <3>1. [status |-> "active", key |-> agent[a].key] \in Lease
      BY <2>1 DEF Lease
    <3>. QED  BY <1>6, <3>1 DEF Issue
  <2>3. approval' \in [Keys -> Approval]
    <3>1. [approval[agent[a].key] EXCEPT !.status = "consumed"] \in Approval
      BY <2>1 DEF Approval
    <3>. QED  BY <1>6, <3>1 DEF Issue
  <2>. QED  BY <1>6, <2>2, <2>3 DEF Issue, AgentDone
<1>7. ASSUME Consume(a) PROVE TypeOK'
  <2>1. agent[a].lease \in Ids
    BY <1>7 DEF Consume, CallInv, AgentInv, Issued
  <2>2. [lease[agent[a].lease] EXCEPT !.status = "consumed"] \in Lease
    BY <2>1 DEF Lease
  <2>. QED  BY <1>7, <2>1, <2>2 DEF Consume, AgentDone
<1>8. ASSUME LapseLease(a) PROVE TypeOK'
  <2>1. agent[a].lease \in Ids
    BY <1>8 DEF LapseLease, CallInv, AgentInv, Issued
  <2>2. [lease[agent[a].lease] EXCEPT !.status = "expired"] \in Lease
    BY <2>1 DEF Lease
  <2>. QED  BY <1>8, <2>1, <2>2 DEF LapseLease, AgentDone
<1>. QED  BY <1>1, <1>2, <1>3, <1>4, <1>5, <1>6, <1>7, <1>8 DEF AgentStep

\* So does a step of a reviewer, of an administrator, of the clock.
LEMMA OtherTypes ==
  ASSUME TypeOK, CallInv, Next, \A a \in Agents : ~AgentStep(a)
  PROVE  TypeOK'
<1>. USE IdleTypes DEF TypeOK
<1>1. CASE Disable
  BY <1>1, RevokeType DEF Disable
<1>2. ASSUME NEW e \in Keys \cup Ids, Expire(e) PROVE TypeOK'
  BY <1>2 DEF Expire
<1>3. ASSUME NEW r \in Reviewers, NEW k \in Keys, NEW d \in Decisions, BeginDecision(r, k, d)
      PROVE TypeOK'
  <2>1. \A s \in {"lapse", "decide"} :
          [at |-> s, key |-> k, decision |-> d, read |-> approval[k]] \in ReviewCall
    BY DEF ReviewCall
  <2>. QED  BY <1>3, <2>1 DEF BeginDecision
<1>4. ASSUME NEW r \in Reviewers, LapseAtDecision(r) PROVE TypeOK'
  <2>1. [review[r].read EXCEPT !.status = "expired"] \in Approval
    BY DEF ReviewCall, Approval
  <2>. QED  BY <1>4, <2>1 DEF LapseAtDecision
<1>5. ASSUME NEW r \in Reviewers, Decide(r) PROVE TypeOK'
  <2>. DEFINE c == review[r]
  <2>1. c \in ReviewCall /\ c.key \in Keys /\ c.decision \in Decisions
    BY <1>5 DEF Decide, CallInv, ReviewInv
  <2>2. approval' \in [Keys -> Approval]
    <3>1. [approval[c.key] EXCEPT !.status = c.decision,
                                  !.history = c.read.history \cup {c.decision}] \in Approval
      BY <2>1 DEF Approval, ReviewCall
    <3>2. CASE approval[c.key].status = c.read.status
      <4>1. Decided(c)
        BY <1>5, <3>2 DEF Decide
      <4>2. approval' = [approval EXCEPT ![c.key] =
              [approval[c.key] EXCEPT !.status = c.decision,
                                      !.history = c.read.history \cup {c.decision}]]
        BY <4>1 DEF Decided
      <4>. QED  BY <3>1, <4>2
    <3>. QED  BY <1>5, <3>2 DEF Decide
  <2>3. lease' \in [Ids -> Lease]
    BY <1>5, RevokeType DEF Decide
  <2>4. decided' \in [Keys -> SUBSET Decisions]
    BY <1>5, <2>1 DEF Decide
  <2>. QED  BY <1>5, <2>2, <2>3, <2>4 DEF Decide
<1>6. ASSUME NEW x \in Admins, NEW m \in Modes, PatchPolicy(x, m) PROVE TypeOK'
  <2>1. [NoAdminCall EXCEPT !.at = "policy", !.mode = m] \in AdminCall
    BY DEF NoAdminCall, AdminCall
  <2>. QED  BY <1>6, <2>1 DEF PatchPolicy
<1>7. ASSUME NEW x \in Admins, SavePolicy(x) PROVE TypeOK'
  <2>1. [admin[x] EXCEPT !.at = "scan"] \in AdminCall /\ admin[x].mode \in Modes
    BY DEF AdminCall
  <2>. QED  BY <1>7, <2>1 DEF SavePolicy
<1>8. ASSUME NEW x \in Admins, Scan(x) PROVE TypeOK'
  <2>. DEFINE todo == {k \in Keys : approval[k].preview}
              read == [k \in Keys |-> IF k \in todo THEN approval[k] ELSE NoApproval]
  <2>1. read \in [Keys -> Approval]
    OBVIOUS
  <2>2. [admin[x] EXCEPT !.at = "purge", !.todo = todo, !.read = read] \in AdminCall
    BY <2>1 DEF AdminCall
  <2>. QED  BY <1>8, <2>2 DEF Scan
<1>9. ASSUME NEW x \in Admins, NEW k \in Keys, Purge(x, k) PROVE TypeOK'
  <2>1. admin[x] \in AdminCall /\ admin[x].read \in [Keys -> Approval]
    BY DEF AdminCall
  <2>2. [admin[x].read[k] EXCEPT !.preview = FALSE] \in Approval
    BY <2>1 DEF Approval
  <2>3. [admin[x].read EXCEPT ![k] = NoApproval] \in [Keys -> Approval]
    BY <2>1
  <2>4. [admin[x] EXCEPT !.todo = admin[x].todo \ {k},
                         !.read = [admin[x].read EXCEPT ![k] = NoApproval]] \in AdminCall
    BY <2>1, <2>3 DEF AdminCall
  <2>5. overwrote' \in BOOLEAN
    BY <1>9 DEF Purge
  <2>. QED  BY <1>9, <2>2, <2>4, <2>5 DEF Purge
<1>. QED  BY <1>1, <1>2, <1>3, <1>4, <1>5, <1>6, <1>7, <1>8, <1>9
          DEF Next, ReviewStep, AdminStep
-----------------------------------------------------------------------------
\* Steps that end leases and do nothing else to the records.
LEMMA LeasesEnd ==
  ASSUME RecordInv, UNCHANGED <<approval, decided, overwrote>>, LeaseInv',
         \A l \in Ids : /\ lease'[l].key = lease[l].key
                        /\ lease'[l].status = "none" <=> lease[l].status = "none"
                        /\ lease'[l].status = "active" => lease[l].status = "active"
  PROVE  RecordInv' /\ Issued' = Issued
<1>1. Issued' = Issued
  BY DEF Issued
<1>2. \A k : LeasesOf(k)' = LeasesOf(k)
  BY <1>1 DEF LeasesOf, Issued
<1>3. OneLeasePerKey'
  BY <1>2 DEF OneLeasePerKey, RecordInv
<1>4. ApprovalInv' /\ ExplicitApproval'
  BY <1>1 DEF ApprovalInv, ExplicitApproval, RecordInv, Issued
<1>5. ~overwrote' => \A k \in HighRisk : Agrees(k)'
  BY <1>2 DEF RecordInv, Agrees, LeasesOf, Issued
<1>. QED  BY <1>1, <1>3, <1>4, <1>5 DEF RecordInv

\* Steps that save an approval as expired.
LEMMA ApprovalLapses ==
  ASSUME TypeOK, RecordInv, NEW k \in HighRisk, NEW f \in Approval,
         approval' = [approval EXCEPT ![k] = [f EXCEPT !.status = "expired"]],
         UNCHANGED <<lease, decided, uses, overwrote>>
  PROVE  RecordInv'
<1>1. approval'[k].status = "expired" /\ \A q \in Keys : q # k => approval'[q] = approval[q]
  BY DEF TypeOK, Approval
<1>2. LeaseInv' /\ OneLeasePerKey' /\ ExplicitApproval'
  BY DEF RecordInv, LeaseInv, OneLeasePerKey, ExplicitApproval, Issued, LeasesOf
<1>3. ApprovalInv'
  BY <1>1 DEF ApprovalInv, RecordInv
<1>4. ~overwrote' => \A q \in HighRisk : Agrees(q)'
  BY <1>1 DEF RecordInv, Agrees, LeasesOf, Issued
<1>. QED  BY <1>2, <1>3, <1>4 DEF RecordInv

LEMMA CreateKeepsRecords ==
  ASSUME AuthorizationInv, NEW a \in Agents, Create(a)
  PROVE  RecordInv'
<1>. USE DEF AuthorizationInv
<1>. DEFINE k == agent[a].key
<1>1. k \in HighRisk /\ agent[a].preview \in BOOLEAN /\ UNCHANGED <<lease, decided, uses, overwrote>>
  BY DEF Create, CallInv, AgentInv, TypeOK, AgentCall
<1>2. \/ approval' = approval
      \/ /\ approval[k].status = "none" /\ approval'[k].status = "pending"
         /\ \A q \in Keys : q # k => approval'[q] = approval[q]
  BY <1>1, PendingType DEF Create, TypeOK
<1>3. LeaseInv' /\ OneLeasePerKey' /\ ExplicitApproval'
  BY <1>1 DEF RecordInv, LeaseInv, OneLeasePerKey, ExplicitApproval, Issued, LeasesOf
<1>4. ApprovalInv'
  BY <1>1, <1>2 DEF ApprovalInv, RecordInv
<1>5. ~overwrote' => \A q \in HighRisk : Agrees(q)'
  BY <1>1, <1>2 DEF RecordInv, Agrees, LeasesOf, Issued
<1>. QED  BY <1>3, <1>4, <1>5 DEF RecordInv

LEMMA IssueKeepsRecords ==
  ASSUME AuthorizationInv, NEW a \in Agents, Issue(a)
  PROVE  RecordInv' /\ Issued \subseteq Issued'
<1>. USE DEF AuthorizationInv
<1>. PICK c : c = agent[a]
  OBVIOUS
<1>. PICK k : k = c.key
  OBVIOUS
<1>1. k \in Keys /\ UNCHANGED <<decided, uses, overwrote>>
  BY DEF Issue, CallInv, AgentInv
<1>2. CASE ~MayIssue(c)
  <2>1. UNCHANGED <<lease, approval>>
    BY <1>2 DEF Issue
  <2>. QED  BY <1>1, <2>1 DEF RecordInv, LeaseInv, OneLeasePerKey, ApprovalInv, ExplicitApproval,
                              Agrees, Issued, LeasesOf
<1>3. CASE MayIssue(c)
  <2>1. PICK l \in Ids \ Issued : lease' = [lease EXCEPT ![l] = [status |-> "active", key |-> k]]
    BY <1>3 DEF Issue
  <2>2. /\ LeasesOf(k) = {}
        /\ k \in HighRisk => approval[k].status = "approved"
    BY <1>3 DEF MayIssue
  <2>3. /\ lease'[l].status = "active" /\ lease'[l].key = k
        /\ \A m \in Ids : m # l => lease'[m] = lease[m]
    BY <2>1 DEF TypeOK
  <2>4. Issued' = Issued \cup {l}
    BY <2>3 DEF Issued
  <2>5. /\ LeasesOf(k)' = {l}
        /\ \A q : q # k => LeasesOf(q)' = LeasesOf(q)
    BY <2>1, <2>2, <2>3, <2>4 DEF LeasesOf, Issued
  <2>6. /\ k \in HighRisk => approval'[k].status = "consumed" /\ approval'[k].preview = approval[k].preview
        /\ k \notin HighRisk => approval'[k] = approval[k]
        /\ \A q \in Keys : q # k => approval'[q] = approval[q]
    BY <1>1, <1>3 DEF Issue, TypeOK, Approval
  <2>7. LeaseInv'
    <3>1. lease[l].status = "none" /\ uses[l] = 0
      BY DEF Issued, RecordInv, LeaseInv
    <3>. QED  BY <1>1, <2>3, <2>4, <3>1 DEF RecordInv, LeaseInv, Issued
  <2>8. OneLeasePerKey'
    BY <2>5 DEF RecordInv, OneLeasePerKey
  <2>9. ApprovalInv'
    BY <1>1, <2>6 DEF ApprovalInv, RecordInv
  <2>10. ExplicitApproval'
    BY <1>1, <2>2, <2>3, <2>4 DEF RecordInv, ExplicitApproval, ApprovalInv, Issued
  <2>11. ~overwrote' => \A q \in HighRisk : Agrees(q)'
    <3>. SUFFICES ASSUME ~overwrote, NEW q \in HighRisk PROVE Agrees(q)'
      BY <1>1
    <3>1. Agrees(q)
      BY DEF RecordInv
    <3>2. CASE q = k
      BY <1>1, <2>2, <2>5, <2>6, <3>1, <3>2 DEF Agrees
    <3>3. CASE q # k
      <4>1. \A m \in LeasesOf(q) : lease'[m] = lease[m]
        BY <2>3, <3>3 DEF LeasesOf, Issued
      <4>. QED  BY <1>1, <2>5, <2>6, <3>1, <3>3, <4>1 DEF Agrees
    <3>. QED  BY <3>2, <3>3
  <2>. QED  BY <2>4, <2>7, <2>8, <2>9, <2>10, <2>11 DEF RecordInv
<1>. QED  BY <1>2, <1>3

LEMMA DecideKeepsRecords ==
  ASSUME AuthorizationInv, NEW r \in Reviewers, Decide(r)
  PROVE  /\ RecordInv' /\ Issued' = Issued
         /\ \A k \in Keys : decided[k] \subseteq decided'[k]
<1>. USE DEF AuthorizationInv
<1>. PICK c : c = review[r]
  OBVIOUS
<1>. PICK k : k = c.key
  OBVIOUS
<1>. PICK d : d = c.decision
  OBVIOUS
<1>1. /\ k \in HighRisk /\ d \in Decisions /\ c.read.status \in Actionable(d)
      /\ UNCHANGED <<uses, overwrote>>
  BY DEF Decide, CallInv, ReviewInv
<1>2. CASE approval[k].status # c.read.status
  <2>1. UNCHANGED <<approval, decided, lease>>
    BY <1>2 DEF Decide
  <2>. QED  BY <1>1, <2>1 DEF RecordInv, LeaseInv, OneLeasePerKey, ApprovalInv, ExplicitApproval,
                              Agrees, Issued, LeasesOf
<1>3. CASE approval[k].status = c.read.status
  <2>1. /\ Decided(c)
        /\ decided' = [decided EXCEPT ![k] = @ \cup {d}]
        /\ IF d = "approved" THEN UNCHANGED lease ELSE Revoke(LeasesOf(k))
    BY <1>3 DEF Decide
  <2>2. /\ approval'[k].status = d /\ approval'[k].preview = approval[k].preview
        /\ \A q \in Keys : q # k => approval'[q] = approval[q]
    BY <1>1, <2>1 DEF Decided, TypeOK, Approval
  <2>3. /\ decided'[k] = decided[k] \cup {d}
        /\ \A q \in Keys : q # k => decided'[q] = decided[q]
    BY <1>1, <2>1 DEF TypeOK
  <2>4. /\ \A l \in Ids : /\ lease'[l].key = lease[l].key
                          /\ lease'[l].status = "none" <=> lease[l].status = "none"
                          /\ lease'[l].status = "active" => lease[l].status = "active"
        /\ d # "approved" => \A l \in LeasesOf(k) : lease'[l].status # "active"
    BY <2>1, RevokeType DEF TypeOK, LeasesOf, Issued
  <2>5. Issued' = Issued
    BY <2>4 DEF Issued
  <2>6. \A q : LeasesOf(q)' = LeasesOf(q)
    BY <2>4, <2>5 DEF LeasesOf, Issued
  <2>7. LeaseInv'
    BY <1>1, <2>4, <2>5 DEF RecordInv, LeaseInv, Issued
  <2>8. OneLeasePerKey'
    BY <2>6 DEF RecordInv, OneLeasePerKey
  <2>9. ApprovalInv'
    BY <1>1, <2>2, <2>3 DEF ApprovalInv, RecordInv
  <2>10. ExplicitApproval'
    <3>1. \A l \in Issued : lease[l].key \in Keys
      BY DEF RecordInv, LeaseInv
    <3>. QED  BY <2>3, <2>4, <2>5, <3>1 DEF RecordInv, ExplicitApproval, Issued
  <2>11. ~overwrote' => \A q \in HighRisk : Agrees(q)'
    <3>. SUFFICES ASSUME ~overwrote, NEW q \in HighRisk PROVE Agrees(q)'
      BY <1>1
    <3>1. Agrees(q)
      BY DEF RecordInv
    <3>2. \A l \in LeasesOf(q) : lease'[l].status = "active" => lease[l].status = "active"
      BY <2>4 DEF LeasesOf, Issued
    <3>3. CASE q = k
      <4>1. CASE d = "revoked"
        BY <1>1, <1>3, <2>2, <2>3, <2>4, <2>6, <3>1, <3>3, <4>1 DEF Agrees, Actionable
      <4>2. CASE d # "revoked"
        <5>1. approval[k].status = "pending" /\ d \in {"approved", "blocked"}
          BY <1>1, <1>3, <4>2 DEF Actionable, Decisions
        <5>. QED  BY <2>2, <2>3, <2>6, <3>1, <3>3, <5>1 DEF Agrees
      <4>. QED  BY <4>1, <4>2
    <3>4. CASE q # k
      BY <2>2, <2>3, <2>6, <3>1, <3>2, <3>4 DEF Agrees
    <3>. QED  BY <3>3, <3>4
  <2>. QED  BY <2>3, <2>5, <2>7, <2>8, <2>9, <2>10, <2>11 DEF RecordInv
<1>. QED  BY <1>2, <1>3

\* A purge that overwrites nothing changes a preview only.
LEMMA PurgeKeepsRecords ==
  ASSUME AuthorizationInv, NEW x \in Admins, NEW k \in Keys, Purge(x, k)
  PROVE  RecordInv'
<1>. USE DEF AuthorizationInv
<1>. PICK f : f = admin[x].read[k]
  OBVIOUS
<1>1. /\ k \in HighRisk /\ f \in Approval
      /\ f.status = "approved" => "approved" \in decided[k]
      /\ UNCHANGED <<lease, decided, uses>>
  BY DEF Purge, CallInv, AdminInv, TypeOK, AdminCall
<1>2. /\ approval'[k].status = f.status
      /\ \A q \in Keys : q # k => approval'[q] = approval[q]
  BY <1>1 DEF Purge, TypeOK, Approval
<1>3. LeaseInv' /\ OneLeasePerKey' /\ ExplicitApproval'
  BY <1>1 DEF RecordInv, LeaseInv, OneLeasePerKey, ExplicitApproval, Issued, LeasesOf
<1>4. ApprovalInv'
  BY <1>1, <1>2 DEF ApprovalInv, RecordInv
<1>5. ~overwrote' => \A q \in HighRisk : Agrees(q)'
  <2>1. ~overwrote' => ~overwrote /\ f = approval[k]
    BY DEF Purge, TypeOK
  <2>. QED  BY <1>1, <1>2, <2>1 DEF RecordInv, Agrees, LeasesOf, Issued
<1>. QED  BY <1>3, <1>4, <1>5 DEF RecordInv
-----------------------------------------------------------------------------
\* What the steps do to the calls, given what they do to the records.
LEMMA AgentCalls ==
  ASSUME AuthorizationInv, NEW a \in Agents, AgentStep(a), Issued \subseteq Issued',
         UNCHANGED decided
  PROVE  CallInv'
<1>. USE DEF AuthorizationInv, TypeOK, CallInv
<1>1. ReviewInv' /\ AdminInv'
  BY DEF AgentStep, Authorize, RequestApproval, UseLease, Create, Lapse, Issue, Consume, LapseLease,
         ReviewInv, AdminInv
<1>. DEFINE Fits(c) == /\ c.at \in {"create", "lapse"} => c.key \in HighRisk
                       /\ c.at = "issue" => c.key \in Keys
                       /\ c.at \in {"consume", "lapse_lease"} => c.lease \in Issued
            Becomes(c) == agent' = [agent EXCEPT ![a] = c]
<1>2. \E c : Becomes(c) /\ Fits(c)
  <2>1. Fits(NoAgentCall)
    BY DEF NoAgentCall
  <2>2. ASSUME NEW k \in Keys, NEW p \in BOOLEAN, Authorize(a, k, p)
        PROVE  \E c : Becomes(c) /\ Fits(c)
    <3>. DEFINE call == [NoAgentCall EXCEPT !.key = k]
    <3>1. Fits([call EXCEPT !.at = "issue"]) /\ Fits([call EXCEPT !.at = "issue", !.late = k \in late])
      BY DEF NoAgentCall
    <3>2. k \in HighRisk => /\ Fits([call EXCEPT !.at = "create", !.preview = p])
                            /\ Fits([call EXCEPT !.at = "lapse", !.read = approval[k]])
      BY DEF NoAgentCall
    <3>3. \/ Becomes([call EXCEPT !.at = "issue"])
          \/ Becomes([call EXCEPT !.at = "issue", !.late = k \in late])
          \/ k \in HighRisk /\ Becomes([call EXCEPT !.at = "create", !.preview = p])
          \/ k \in HighRisk /\ Becomes([call EXCEPT !.at = "lapse", !.read = approval[k]])
      BY <2>2, Zenon DEF Authorize
    <3>. HIDE DEF Fits, Becomes
    <3>. QED  BY <3>1, <3>2, <3>3
  <2>3. ASSUME NEW k \in Keys, NEW p \in BOOLEAN, RequestApproval(a, k, p)
        PROVE  \E c : Becomes(c) /\ Fits(c)
    <3>. DEFINE d == [NoAgentCall EXCEPT !.at = "create", !.key = k, !.preview = p]
    <3>1. Becomes(d) /\ Fits(d)
      BY <2>3 DEF RequestApproval, NoAgentCall
    <3>. QED  BY <3>1
  <2>4. ASSUME NEW l \in Ids, UseLease(a, l) PROVE \E c : Becomes(c) /\ Fits(c)
    <3>1. PICK s : Becomes([NoAgentCall EXCEPT !.at = s, !.lease = l]) /\ s \in {"lapse_lease", "consume"}
      BY <2>4 DEF UseLease
    <3>2. Fits([NoAgentCall EXCEPT !.at = s, !.lease = l])
      BY <2>4, <3>1 DEF UseLease, NoAgentCall, Issued
    <3>. HIDE DEF Fits, Becomes
    <3>. QED  BY <3>1, <3>2
  <2>5. CASE Create(a)
    <3>. DEFINE d == [NoAgentCall EXCEPT !.at = "lapse", !.key = agent[a].key,
                                         !.read = approval[agent[a].key]]
    <3>1. Becomes(NoAgentCall) \/ Becomes(d)
      BY <2>5 DEF Create, AgentDone
    <3>2. Fits(d)
      BY <2>5 DEF Create, AgentInv, NoAgentCall
    <3>. HIDE DEF Fits, Becomes
    <3>. QED  BY <2>1, <3>1, <3>2
  <2>6. CASE Lapse(a) \/ Issue(a) \/ Consume(a) \/ LapseLease(a)
    <3>1. Becomes(NoAgentCall)
      BY <2>6 DEF Lapse, Issue, Consume, LapseLease, AgentDone
    <3>. HIDE DEF Fits, Becomes
    <3>. QED  BY <2>1, <3>1
  <2>. HIDE DEF Fits, Becomes
  <2>. QED  BY <2>2, <2>3, <2>4, <2>5, <2>6 DEF AgentStep
<1>3. AgentInv'
  BY <1>2 DEF AgentInv
<1>. QED  BY <1>1, <1>3

LEMMA OtherCalls ==
  ASSUME AuthorizationInv, Issued \subseteq Issued',
         \A k \in Keys : decided[k] \subseteq decided'[k],
         \/ Disable
         \/ \E e \in Keys \cup Ids : Expire(e)
         \/ \E r \in Reviewers : ReviewStep(r)
         \/ \E x \in Admins : AdminStep(x)
  PROVE  CallInv'
<1>. USE DEF AuthorizationInv, TypeOK, CallInv
<1>1. UNCHANGED agent /\ AgentInv'
  BY DEF Disable, Expire, ReviewStep, BeginDecision, LapseAtDecision, Decide,
         AdminStep, PatchPolicy, SavePolicy, Scan, Purge, AgentInv
<1>2. CASE UNCHANGED <<review, admin>>
  BY <1>1, <1>2 DEF ReviewInv, AdminInv
<1>3. ASSUME NEW r \in Reviewers, ReviewStep(r) PROVE CallInv'
  <2>1. UNCHANGED admin /\ AdminInv'
    BY <1>3 DEF ReviewStep, BeginDecision, LapseAtDecision, Decide, AdminInv
  <2>2. CASE review' = [review EXCEPT ![r] = NoReviewCall]
    BY <1>1, <2>1, <2>2 DEF ReviewInv, NoReviewCall
  <2>3. ASSUME NEW k \in Keys, NEW d \in Decisions, BeginDecision(r, k, d) PROVE ReviewInv'
    <3>1. k \in HighRisk
      BY <2>3 DEF BeginDecision, RecordInv, ApprovalInv
    <3>. QED  BY <2>3, <3>1 DEF BeginDecision, ReviewInv
  <2>. QED  BY <1>1, <1>3, <2>1, <2>2, <2>3 DEF ReviewStep, LapseAtDecision, Decide
<1>4. ASSUME NEW x \in Admins, AdminStep(x) PROVE CallInv'
  <2>1. UNCHANGED review /\ ReviewInv'
    BY <1>4 DEF AdminStep, PatchPolicy, SavePolicy, Scan, Purge, ReviewInv
  <2>2. /\ NoAdminCall.todo = {}
        /\ \A k \in Keys : NoAdminCall.read[k].status = "none"
    BY DEF NoAdminCall, NoApproval
  <2>3. ASSUME NEW m \in Modes, PatchPolicy(x, m) PROVE AdminInv'
    <3>1. PICK c : /\ c = [NoAdminCall EXCEPT !.at = "policy", !.mode = m]
                   /\ admin' = [admin EXCEPT ![x] = c]
      BY <2>3 DEF PatchPolicy
    <3>2. c.todo = {} /\ \A k \in Keys : c.read[k].status = "none"
      BY <2>2, <3>1 DEF NoAdminCall
    <3>. QED  BY <3>1, <3>2 DEF AdminInv
  <2>4. ASSUME SavePolicy(x) PROVE AdminInv'
    <3>. DEFINE next == [admin[x] EXCEPT !.at = "scan"]
    <3>1. admin' = [admin EXCEPT ![x] = NoAdminCall] \/ admin' = [admin EXCEPT ![x] = next]
      BY <2>4 DEF SavePolicy
    <3>2. next.todo = admin[x].todo /\ next.read = admin[x].read
      BY DEF AdminCall
    <3>. HIDE DEF next
    <3>. QED  BY <2>2, <3>1, <3>2 DEF AdminInv
  <2>5. ASSUME Scan(x) PROVE AdminInv'
    <3>. DEFINE todo == {k \in Keys : approval[k].preview}
                read == [k \in Keys |-> IF k \in todo THEN approval[k] ELSE NoApproval]
    <3>. DEFINE next == [admin[x] EXCEPT !.at = "purge", !.todo = todo, !.read = read]
    <3>1. admin' = [admin EXCEPT ![x] = NoAdminCall] \/ admin' = [admin EXCEPT ![x] = next]
      BY <2>5 DEF Scan
    <3>2. todo \subseteq HighRisk /\ \A k \in Keys : read[k].status = "approved" => "approved" \in decided[k]
      BY DEF RecordInv, ApprovalInv, NoApproval
    <3>3. next.todo = todo /\ next.read = read
      BY DEF AdminCall
    <3>. HIDE DEF todo, read, next
    <3>. QED  BY <2>2, <3>1, <3>2, <3>3 DEF AdminInv
  <2>6. ASSUME NEW k \in Keys, Purge(x, k) PROVE AdminInv'
    <3>. DEFINE todo == admin[x].todo \ {k}
                read == [admin[x].read EXCEPT ![k] = NoApproval]
                next == [admin[x] EXCEPT !.todo = todo, !.read = read]
    <3>1. admin' = [admin EXCEPT ![x] = NoAdminCall] \/ admin' = [admin EXCEPT ![x] = next]
      BY <2>6 DEF Purge
    <3>2. todo \subseteq HighRisk /\ \A q \in Keys : read[q].status = "approved" => "approved" \in decided[q]
      BY DEF AdminInv, AdminCall, NoApproval
    <3>3. next.todo = todo /\ next.read = read
      BY DEF AdminCall
    <3>. HIDE DEF todo, read, next
    <3>. QED  BY <2>2, <3>1, <3>2, <3>3 DEF AdminInv
  <2>. QED  BY <1>1, <1>4, <2>1, <2>3, <2>4, <2>5, <2>6 DEF AdminStep
<1>. QED  BY <1>2, <1>3, <1>4 DEF Disable, Expire

\* What every step does to the records.
LEMMA StepKeepsRecords ==
  ASSUME AuthorizationInv, Next
  PROVE  /\ RecordInv' /\ Issued \subseteq Issued'
         /\ \A k \in Keys : decided[k] \subseteq decided'[k]
         /\ \A a \in Agents : AgentStep(a) => UNCHANGED decided
<1>. DEFINE Goal == /\ RecordInv' /\ Issued \subseteq Issued'
                    /\ \A k \in Keys : decided[k] \subseteq decided'[k]
<1>0. \A a \in Agents : AgentStep(a) => UNCHANGED decided
  BY DEF AgentStep, Authorize, RequestApproval, UseLease, Create, Lapse, Issue, Consume, LapseLease
<1>1. CASE UNCHANGED <<approval, lease, decided, uses, overwrote>>
  <2>1. Issued' = Issued /\ \A k : LeasesOf(k)' = LeasesOf(k)
    BY <1>1 DEF Issued, LeasesOf
  <2>. QED  BY <1>1, <2>1 DEF AuthorizationInv, RecordInv, LeaseInv, OneLeasePerKey, ApprovalInv,
                                    ExplicitApproval, Agrees
<1>2. CASE Disable
  <2>1. \A l \in Ids : /\ lease'[l].key = lease[l].key
                       /\ lease'[l].status = "none" <=> lease[l].status = "none"
                       /\ lease'[l].status = "active" => lease[l].status = "active"
    BY <1>2, RevokeType DEF Disable, AuthorizationInv, TypeOK
  <2>2. LeaseInv'
    BY <1>2, <2>1 DEF Disable, AuthorizationInv, RecordInv, LeaseInv, Issued
  <2>. QED  BY <1>2, <2>1, <2>2, LeasesEnd DEF Disable, AuthorizationInv
<1>3. ASSUME NEW a \in Agents, Create(a) PROVE Goal
  BY <1>3, CreateKeepsRecords DEF Create, Issued
<1>4. ASSUME NEW a \in Agents, Lapse(a) PROVE Goal
  BY <1>4, ApprovalLapses DEF Lapse, Issued, AuthorizationInv, CallInv, AgentInv, TypeOK, AgentCall
<1>5. ASSUME NEW a \in Agents, Issue(a) PROVE Goal
  BY <1>5, IssueKeepsRecords DEF Issue
<1>6. ASSUME NEW a \in Agents, Consume(a) PROVE Goal
  <2>. PICK l : l = agent[a].lease
    OBVIOUS
  <2>1. l \in Issued
    BY <1>6 DEF Consume, AuthorizationInv, CallInv, AgentInv
  <2>2. CASE lease[l].status # "active"
    BY <1>1, <1>6, <2>2 DEF Consume
  <2>3. CASE lease[l].status = "active"
    <3>1. /\ lease'[l].status = "consumed" /\ lease'[l].key = lease[l].key
          /\ uses[l] = 0 /\ uses'[l] = 1
          /\ \A m \in Ids : m # l => lease'[m] = lease[m] /\ uses'[m] = uses[m]
      BY <1>6, <2>1, <2>3 DEF Consume, AuthorizationInv, TypeOK, RecordInv, LeaseInv, Issued, Lease
    <3>2. LeaseInv'
      BY <2>1, <3>1 DEF AuthorizationInv, RecordInv, LeaseInv, Issued
    <3>. QED  BY <1>6, <2>1, <2>3, <3>1, <3>2, LeasesEnd DEF Consume, AuthorizationInv, Issued
  <2>. QED  BY <2>2, <2>3
<1>7. ASSUME NEW a \in Agents, LapseLease(a) PROVE Goal
  <2>. PICK l : l = agent[a].lease
    OBVIOUS
  <2>1. l \in Issued /\ lease[l].status # "none"
    BY <1>7 DEF LapseLease, AuthorizationInv, CallInv, AgentInv, Issued
  <2>2. /\ lease'[l].status = "expired" /\ lease'[l].key = lease[l].key
        /\ \A m \in Ids : m # l => lease'[m] = lease[m]
    BY <1>7, <2>1 DEF LapseLease, AuthorizationInv, TypeOK, Issued, Lease
  <2>3. LeaseInv'
    BY <1>7, <2>1, <2>2 DEF LapseLease, AuthorizationInv, RecordInv, LeaseInv, Issued
  <2>. QED  BY <1>7, <2>1, <2>2, <2>3, LeasesEnd DEF LapseLease, AuthorizationInv, Issued
<1>8. ASSUME NEW r \in Reviewers, LapseAtDecision(r) PROVE Goal
  BY <1>8, ApprovalLapses
     DEF LapseAtDecision, Issued, AuthorizationInv, CallInv, ReviewInv, TypeOK, ReviewCall
<1>9. ASSUME NEW r \in Reviewers, Decide(r) PROVE Goal
  BY <1>9, DecideKeepsRecords
<1>10. ASSUME NEW x \in Admins, NEW k \in Keys, Purge(x, k) PROVE Goal
  BY <1>10, PurgeKeepsRecords DEF Purge, Issued
<1>11. Goal
  <2>1. ASSUME NEW a \in Agents, AgentStep(a) PROVE Goal
    BY <1>1, <1>3, <1>4, <1>5, <1>6, <1>7, <2>1 DEF AgentStep, Authorize, RequestApproval, UseLease
  <2>2. ASSUME NEW r \in Reviewers, ReviewStep(r) PROVE Goal
    BY <1>1, <1>8, <1>9, <2>2 DEF ReviewStep, BeginDecision
  <2>3. ASSUME NEW x \in Admins, AdminStep(x) PROVE Goal
    BY <1>1, <1>10, <2>3 DEF AdminStep, PatchPolicy, SavePolicy, Scan
  <2>. QED  BY <1>1, <1>2, <2>1, <2>2, <2>3 DEF Next, Expire
<1>. QED  BY <1>0, <1>11

\* The inductive invariant.
THEOREM AuthorizationInvariance == Spec => []AuthorizationInv
<1>1. Init => AuthorizationInv
  <2>. SUFFICES ASSUME Init PROVE AuthorizationInv
    OBVIOUS
  <2>1. TypeOK
    BY IdleTypes DEF Init, TypeOK, Modes
  <2>2. Issued = {} /\ \A k : LeasesOf(k) = {}
    BY DEF Init, Issued, LeasesOf, NoLease
  <2>3. CallInv
    BY DEF Init, CallInv, AgentInv, ReviewInv, AdminInv, NoAgentCall, NoReviewCall, NoAdminCall,
           NoApproval
  <2>4. RecordInv
    BY <2>2 DEF Init, RecordInv, LeaseInv, OneLeasePerKey, ApprovalInv, ExplicitApproval, Agrees,
                NoApproval
  <2>. QED  BY <2>1, <2>3, <2>4 DEF AuthorizationInv
<1>2. AuthorizationInv /\ [Next]_vars => AuthorizationInv'
  <2>. SUFFICES ASSUME AuthorizationInv, [Next]_vars PROVE AuthorizationInv'
    OBVIOUS
  <2>1. CASE Next
    <3>1. TypeOK'
      BY <2>1, AgentTypes, OtherTypes DEF AuthorizationInv
    <3>2. RecordInv'
      BY <2>1, StepKeepsRecords
    <3>3. CallInv'
      BY <2>1, StepKeepsRecords, AgentCalls, OtherCalls DEF Next
    <3>. QED  BY <3>1, <3>2, <3>3 DEF AuthorizationInv
  <2>2. CASE UNCHANGED vars
    BY <2>2 DEF vars, AuthorizationInv, TypeOK, CallInv, AgentInv, ReviewInv, AdminInv, RecordInv,
           LeaseInv, OneLeasePerKey, ApprovalInv, ExplicitApproval, Agrees, Issued, LeasesOf
  <2>. QED  BY <2>1, <2>2
<1>. QED  BY <1>1, <1>2, PTL DEF Spec

\* Every record and every call has its type.
THEOREM AuthorizationTypes == Spec => []TypeOK
BY AuthorizationInvariance, PTL DEF AuthorizationInv

\* An action is leased once, whatever runs concurrently, a purge included.
THEOREM LeasedOnce == Spec => []OneLeasePerKey
<1>1. AuthorizationInv => OneLeasePerKey
  BY DEF AuthorizationInv, RecordInv
<1>. QED  BY <1>1, AuthorizationInvariance, PTL

\* No high-risk action is leased that nobody has approved.
THEOREM ApprovalIsExplicit == Spec => []ExplicitApproval
<1>1. AuthorizationInv => ExplicitApproval
  BY DEF AuthorizationInv, RecordInv
<1>. QED  BY <1>1, AuthorizationInvariance, PTL

\* The issue of a lease and the consumption of its approval are one.
THEOREM ApprovalIsSpent == Spec => []LeaseSpendsApproval
<1>1. AuthorizationInv => LeaseSpendsApproval
  BY DEF AuthorizationInv, RecordInv, Agrees, LeaseSpendsApproval
<1>. QED  BY <1>1, AuthorizationInvariance, PTL

\* Concurrent decisions have one winner.
THEOREM VerdictsAreOne == Spec => []OneVerdict
<1>1. AuthorizationInv => OneVerdict
  BY DEF AuthorizationInv, RecordInv, ApprovalInv, Agrees, OneVerdict
<1>. QED  BY <1>1, AuthorizationInvariance, PTL

\* A revoked approval leaves no active lease, now or later.
THEOREM RevocationsHold == Spec => []RevocationHolds
<1>1. AuthorizationInv => RevocationHolds
  BY DEF AuthorizationInv, RecordInv, ApprovalInv, Agrees, RevocationHolds, RevocationFinal
<1>. QED  BY <1>1, AuthorizationInvariance, PTL

-----------------------------------------------------------------------------
(* A lease keeps what LeaseGrant promises.                                 *)

Grants == [l \in Ids |-> Grant(l)]

UsedOnce == \A l \in Ids : uses[l] \in Nat /\ uses[l] <= 1

\* Of the calls that found a lease usable one consumes it
\* (consume_agent_lease, app/main.py).
THEOREM ConsumedOnce == Spec => []UsedOnce
<1>1. AuthorizationInv => UsedOnce
  BY DEF AuthorizationInv, RecordInv, LeaseInv, TypeOK, UsedOnce
<1>. QED  BY <1>1, AuthorizationInvariance, PTL

\* Leases that end without having been consumed, or after it, end as LeaseGrant lets them.
LEMMA EndingIsVoid ==
  ASSUME UsedOnce, UsedOnce',
         \A l \in Ids : \/ lease'[l].status = lease[l].status
                        \/ /\ lease[l].status # "none"
                           /\ lease'[l].status \in {"revoked", "expired"}
  PROVE  LG!GrantNext \/ Grants' = Grants
<1>. DEFINE S == {l \in Ids : Grants[l] \in {"live", "taken"} /\ Grant(l)' = "void"}
<1>1. \A l \in Ids : Grants[l] = Grant(l) /\ Grants'[l] = Grant(l)'
  BY DEF Grants
<1>2. \A l \in S : Grants[l] \in {"live", "taken"}
  OBVIOUS
<1>3. \A l \in Ids : Grant(l)' = IF l \in S THEN "void" ELSE Grant(l)
  BY <1>1 DEF Grant, UsedOnce
<1>4. Grants' = [l \in Ids |-> IF l \in S THEN "void" ELSE Grants[l]]
  BY <1>1, <1>3 DEF Grants
<1>5. S \in SUBSET Ids
  OBVIOUS
<1>6. LG!Void(S)
  BY <1>2, <1>4 DEF LG!Void, Grants
<1>. QED  BY <1>5, <1>6 DEF LG!GrantNext

\* Every step of the specification is a step of LeaseGrant or none.
LEMMA StepIsGrant ==
  ASSUME AuthorizationInv, UsedOnce, UsedOnce', [Next]_vars
  PROVE  LG!GrantNext \/ Grants' = Grants
<1>1. CASE UNCHANGED lease
  BY <1>1 DEF Grants, Grant, UsedOnce
<1>2. CASE Disable
  BY <1>2, RevokeType, EndingIsVoid DEF Disable, AuthorizationInv, TypeOK
<1>3. ASSUME NEW r \in Reviewers, Decide(r) PROVE LG!GrantNext \/ Grants' = Grants
  BY <1>1, <1>3, RevokeType, EndingIsVoid DEF Decide, AuthorizationInv, TypeOK
<1>4. ASSUME NEW a \in Agents, LapseLease(a) PROVE LG!GrantNext \/ Grants' = Grants
  <2>. PICK l : l = agent[a].lease
    OBVIOUS
  <2>1. l \in Ids /\ lease[l].status # "none"
    BY <1>4 DEF LapseLease, AuthorizationInv, CallInv, AgentInv, Issued
  <2>2. /\ lease'[l].status = "expired"
        /\ \A m \in Ids : m # l => lease'[m] = lease[m]
    BY <1>4, <2>1 DEF LapseLease, AuthorizationInv, TypeOK, Lease
  <2>. QED  BY <2>1, <2>2, EndingIsVoid
<1>5. ASSUME NEW a \in Agents, Consume(a) PROVE LG!GrantNext \/ Grants' = Grants
  <2>. PICK l : l = agent[a].lease
    OBVIOUS
  <2>1. l \in Ids
    BY <1>5 DEF Consume, AuthorizationInv, CallInv, AgentInv, Issued
  <2>2. CASE lease[l].status = "active"
    <3>1. /\ lease'[l].status = "consumed"
          /\ \A m \in Ids : m # l => lease'[m] = lease[m]
      BY <1>5, <2>1, <2>2 DEF Consume, AuthorizationInv, TypeOK, Lease
    <3>2. Grants[l] = "live" /\ Grants' = [Grants EXCEPT ![l] = "taken"]
      BY <2>1, <2>2, <3>1 DEF Grants, Grant, UsedOnce
    <3>. QED  BY <2>1, <3>2 DEF LG!GrantNext, LG!Take, LG!Move, Grants
  <2>. QED  BY <1>1, <1>5, <2>2 DEF Consume
<1>6. ASSUME NEW a \in Agents, Issue(a) PROVE LG!GrantNext \/ Grants' = Grants
  <2>1. CASE MayIssue(agent[a])
    <3>1. PICK l \in Ids \ Issued :
            lease' = [lease EXCEPT ![l] = [status |-> "active", key |-> agent[a].key]]
      BY <1>6, <2>1 DEF Issue
    <3>2. /\ lease[l].status = "none" /\ lease'[l].status = "active"
          /\ \A m \in Ids : m # l => lease'[m] = lease[m]
      BY <3>1 DEF AuthorizationInv, TypeOK, Issued
    <3>3. Grant(l) = "unissued" /\ Grant(l)' = "live" /\ \A m \in Ids : m # l => Grant(m)' = Grant(m)
      <4>1. uses[l] <= 1 /\ uses'[l] <= 1
        BY DEF UsedOnce
      <4>2. UNCHANGED uses
        BY <1>6 DEF Issue
      <4>. QED  BY <3>2, <4>1, <4>2 DEF Grant, UsedOnce
    <3>4. Grants[l] = "unissued" /\ Grants' = [Grants EXCEPT ![l] = "live"]
      BY <3>3 DEF Grants
    <3>. QED  BY <3>4 DEF LG!GrantNext, LG!Issue, LG!Move, Grants
  <2>. QED  BY <1>1, <1>6, <2>1 DEF Issue
<1>. QED  BY <1>1, <1>2, <1>3, <1>4, <1>5, <1>6
          DEF Next, vars, Expire, AgentStep, Authorize, RequestApproval, UseLease, Create, Lapse,
              ReviewStep, BeginDecision, LapseAtDecision,
              AdminStep, PatchPolicy, SavePolicy, Scan, Purge

\* The authorization endpoints implement LeaseGrant: a lease is taken once and
\* never usable again once it has ended, stale saves of expired leases included.
THEOREM AuthorizationImplementsLeaseGrant == Spec => LeaseAsGranted
<1>1. Init => LG!GrantInit
  BY DEF Init, LG!GrantInit, Grant, NoLease
<1>2. AuthorizationInv /\ UsedOnce /\ UsedOnce' /\ [Next]_vars => [LG!GrantNext]_Grants
  BY StepIsGrant
<1>. QED  BY <1>1, <1>2, AuthorizationInvariance, ConsumedOnce, PTL DEF Spec, LeaseAsGranted, LG!GrantSpec, Grants
=============================================================================
