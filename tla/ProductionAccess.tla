-------------------------- MODULE ProductionAccess --------------------------
(***************************************************************************)
(* Production access of one agent identity (app/main.py and               *)
(* app/database.py): requests for it are filed and decided concurrently,   *)
(* decisions are retried under an idempotency key.  What an approval lets  *)
(* the agent do, and what a refusal revokes and cancels, is in JobQueue.   *)
(*                                                                         *)
(* A request's createdAt is read before the transaction that stores it, a  *)
(* decision reads the request before the transaction that decides it.  The *)
(* transactions lock the identity's row, so each is one action.            *)
(*                                                                         *)
(* A definition marked "Faulty variant" belongs to no specification.       *)
(***************************************************************************)
EXTENDS Naturals

CONSTANTS
  Requests,      \* requests in the order of their ids, which break ties in createdAt
  Reviewers,     \* threads that serve decisions
  Keys,          \* values of the Idempotency-Key header
  MaxTime,       \* readings of the clock explored (a bound)
  None

ASSUME ConstantsAssumption ==
  /\ Requests \subseteq Nat
  /\ MaxTime \in Nat
  /\ None \notin Nat /\ None \notin Keys
  /\ None \notin {"approved", "blocked", "revoked"}

VARIABLES
  disabled,      \* identity.status is disabled or revoked
  posture,       \* identity.productionAccessStatus
  now,           \* datetime.now()
  createdAt,     \* per request, None before the handler has started
  status,        \* per request: agent_access_requests status
  history,       \* per request: decisionHistory, the decision stored under a key
  call,          \* per reviewer: the decision being served
  applied,       \* history variable: decisions a transaction has applied, in total
  answered       \* history variable: decisions answered with success

vars == <<disabled, posture, now, createdAt, status, history, call, applied, answered>>

-----------------------------------------------------------------------------
Decisions == {"approved", "blocked", "revoked"}
Postures == Decisions \cup {"not_requested", "pending_review"}
Statuses == Decisions \cup {"none", "pending_review"}
Histories == [Keys -> Decisions \cup {None}]

NoHistory == [k \in Keys |-> None]
NoCall == [at |-> "idle", request |-> None, decision |-> None, key |-> None,
           expected |-> "none", history |-> NoHistory]
Call == [at : {"idle", "decide", "confirm"}, request : Requests \cup {None},
         decision : Decisions \cup {None}, key : Keys \cup {None},
         expected : Statuses, history : Histories]
Answer == [request : Requests, key : Keys, decision : Decisions]

Filed == {r \in Requests : status[r] # "none"}

\* request_order: createdAt, then the id.
Newer(r, q) == createdAt[r] > createdAt[q] \/ (createdAt[r] = createdAt[q] /\ r > q)

\* The newest request generation among the stored ones.
Current(r) == r \in Filed /\ \A q \in Filed : q # r => Newer(r, q)

Actionable(d) == IF d = "revoked" THEN {"pending_review", "approved"} ELSE {"pending_review"}

\* Request r gets status s, every other pending request is superseded.
Supersede(r, s) ==
  status' = [q \in Requests |-> CASE q = r -> s
                                  [] q # r /\ status[q] = "pending_review" -> "revoked"
                                  [] OTHER -> status[q]]

Answers(v) ==
  answered' = answered \cup {[request |-> call[v].request, key |-> call[v].key,
                              decision |-> call[v].decision]}

Init ==
  /\ disabled = FALSE
  /\ posture = "not_requested"
  /\ now = 0
  /\ createdAt = [r \in Requests |-> None]
  /\ status = [r \in Requests |-> "none"]
  /\ history = [r \in Requests |-> NoHistory]
  /\ call = [v \in Reviewers |-> NoCall]
  /\ applied = [r \in Requests |-> [k \in Keys |-> 0]]
  /\ answered = {}

-----------------------------------------------------------------------------
Tick ==
  /\ now < MaxTime
  /\ now' = now + 1
  /\ UNCHANGED <<disabled, posture, createdAt, status, history, call, applied, answered>>

\* The kill switch or revocation; nothing enables the identity again.
Disable ==
  /\ ~disabled
  /\ disabled' = TRUE
  /\ UNCHANGED <<posture, now, createdAt, status, history, call, applied, answered>>

\* The handler takes the time; the transaction comes later.
BeginRequest(r) ==
  /\ createdAt[r] = None
  /\ createdAt' = [createdAt EXCEPT ![r] = now]
  /\ UNCHANGED <<disabled, posture, now, status, history, call, applied, answered>>

\* Faulty variant: pending requests of the identity are left as they are.
CommitRequestAlone(r) ==
  /\ createdAt[r] # None /\ status[r] = "none"
  /\ LET s == IF disabled THEN "blocked" ELSE "pending_review" IN
       /\ status' = [status EXCEPT ![r] = s]
       /\ posture' = s
  /\ UNCHANGED <<disabled, now, createdAt, history, call, applied, answered>>

\* create_agent_production_access_request_atomic.
CommitRequest(r) ==
  /\ createdAt[r] # None /\ status[r] = "none"
  /\ LET s == IF disabled THEN "blocked" ELSE "pending_review" IN
       /\ Supersede(r, s)
       /\ posture' = s
  /\ UNCHANGED <<disabled, now, createdAt, history, call, applied, answered>>

-----------------------------------------------------------------------------
\* The handler reads the request: a replay is answered from its history (and a
\* key bound to another decision refused), else it must be actionable.
BeginDecision(v, r, d, k) ==
  /\ call[v].at = "idle"
  /\ r \in Filed
  /\ \/ /\ history[r][k] = d
        /\ answered' = answered \cup {[request |-> r, key |-> k, decision |-> d]}
        /\ UNCHANGED call
     \/ /\ history[r][k] = None
        /\ status[r] \in Actionable(d)
        /\ call' = [call EXCEPT ![v] = [at |-> "decide", request |-> r, decision |-> d, key |-> k,
                                        expected |-> status[r], history |-> history[r]]]
        /\ UNCHANGED answered
  /\ UNCHANGED <<disabled, posture, now, createdAt, status, history, applied>>

\* Faulty variant: the history is started anew by every decision.
ApplyForgetting(v) ==
  LET c == call[v] IN
  /\ Supersede(c.request, c.decision)
  /\ posture' = c.decision
  /\ history' = [history EXCEPT ![c.request] = [NoHistory EXCEPT ![c.key] = c.decision]]
  /\ applied' = [applied EXCEPT ![c.request][c.key] = @ + 1]
  /\ Answers(v)
  /\ call' = [call EXCEPT ![v] = NoCall]
  /\ UNCHANGED <<disabled, now, createdAt>>

\* The transaction writes the history read earlier, extended by this decision.
Apply(v) ==
  LET c == call[v] IN
  /\ Supersede(c.request, c.decision)
  /\ posture' = c.decision
  /\ history' = [history EXCEPT ![c.request] = [c.history EXCEPT ![c.key] = c.decision]]
  /\ applied' = [applied EXCEPT ![c.request][c.key] = @ + 1]
  /\ Answers(v)
  /\ call' = [call EXCEPT ![v] = NoCall]
  /\ UNCHANGED <<disabled, now, createdAt>>

NotDecided(v) ==
  /\ call' = [call EXCEPT ![v].at = "confirm"]
  /\ UNCHANGED <<disabled, posture, now, createdAt, status, history, applied, answered>>

\* Faulty variant: the request may have been decided since it was read.
DecideUnexpected(v) ==
  /\ call[v].at = "decide"
  /\ IF Current(call[v].request) THEN Apply(v) ELSE NotDecided(v)

\* Faulty variant: any request may be decided, the newest or not.
DecideOlder(v) ==
  /\ call[v].at = "decide"
  /\ IF status[call[v].request] = call[v].expected THEN Apply(v) ELSE NotDecided(v)

\* decide_agent_production_access_atomic.
Decide(v) ==
  /\ call[v].at = "decide"
  /\ IF status[call[v].request] = call[v].expected /\ Current(call[v].request)
       THEN Apply(v)
       ELSE NotDecided(v)

\* The record is read once more: a concurrent call may have used the same key.
Confirm(v) ==
  /\ call[v].at = "confirm"
  /\ IF history[call[v].request][call[v].key] = call[v].decision
       THEN Answers(v)
       ELSE UNCHANGED answered
  /\ call' = [call EXCEPT ![v] = NoCall]
  /\ UNCHANGED <<disabled, posture, now, createdAt, status, history, applied>>

-----------------------------------------------------------------------------
Next ==
  \/ Tick \/ Disable
  \/ \E r \in Requests : BeginRequest(r) \/ CommitRequest(r)
  \/ \E v \in Reviewers : Decide(v) \/ Confirm(v)
  \/ \E v \in Reviewers, r \in Requests, d \in Decisions, k \in Keys : BeginDecision(v, r, d, k)

Spec == Init /\ [][Next]_vars

-----------------------------------------------------------------------------
(* Properties.                                                             *)

TypeOK ==
  /\ disabled \in BOOLEAN
  /\ posture \in Postures
  /\ now \in Nat
  /\ createdAt \in [Requests -> Nat \cup {None}]
  /\ status \in [Requests -> Statuses]
  /\ history \in [Requests -> Histories]
  /\ call \in [Reviewers -> Call]
  /\ applied \in [Requests -> [Keys -> Nat]]
  /\ answered \subseteq Answer

\* An identity never has two requests under review, however many are filed at
\* the same time.
OnePending ==
  \A r, q \in Requests : status[r] = "pending_review" /\ status[q] = "pending_review" => r = q

\* An identity has production access only by the approval of its newest
\* request, and loses it when that approval is withdrawn.
PostureBacked ==
  posture = "approved" => \E r \in Filed : Current(r) /\ status[r] = "approved"

\* A decision answered with success stays recorded under its key: whoever
\* retries it is told the same, whatever was decided since.
DecisionRemembered == \A a \in answered : history[a.request][a.key] = a.decision

\* A decision retried under its key takes effect once.
AppliedOnce == \A r \in Requests, k \in Keys : applied[r][k] <= 1

\* No request of the identity is newer than the one left under review
\* ("concurrent production access requests leave only the newest pending").
NewestPending ==
  \A r, q \in Filed : status[r] = "pending_review" => ~(createdAt[q] > createdAt[r])
=============================================================================
