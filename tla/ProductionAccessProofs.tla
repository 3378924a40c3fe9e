----------------------- MODULE ProductionAccessProofs -----------------------
(* Theorems about ProductionAccess, for every value of its constants.        *)
EXTENDS ProductionAccess, TLAPS

USE ConstantsAssumption

\* The status of a request only moves up.
Rank(s) == CASE s = "none" -> 0 [] s = "pending_review" -> 1 [] s = "approved" -> 2
             [] OTHER -> 3

\* A decision being served names a stored request.  While the request has the
\* status that was read, it has the history that was read.
Serves(c) ==
  /\ c.request \in Requests /\ c.decision \in Decisions /\ c.key \in Keys
  /\ status[c.request] # "none"
  /\ c.at = "decide" =>
       /\ c.expected \in Actionable(c.decision)
       /\ Rank(c.expected) <= Rank(status[c.request])
       /\ status[c.request] = c.expected =>
            c.history = history[c.request] /\ c.history[c.key] = None

CallInv == \A v \in Reviewers : call[v].at # "idle" => Serves(call[v])

TimeInv == \A r \in Requests : status[r] # "none" => createdAt[r] \in Nat

\* The history says which decisions have been applied.
HistoryInv ==
  \A r \in Requests, k \in Keys :
    /\ applied[r][k] = IF history[r][k] = None THEN 0 ELSE 1
    /\ status[r] = "none" => history[r][k] = None

AccessInv ==
  /\ TypeOK /\ CallInv /\ TimeInv /\ HistoryInv
  /\ OnePending /\ PostureBacked /\ DecisionRemembered

-----------------------------------------------------------------------------
LEMMA SupersedeEffect ==
  ASSUME status \in [Requests -> Statuses], NEW r \in Requests, NEW s \in Statuses,
         s # "none", Supersede(r, s)
  PROVE  /\ status' \in [Requests -> Statuses]
         /\ status'[r] = s
         /\ \A q \in Requests : q # r =>
              \/ status[q] = "pending_review" /\ status'[q] = "revoked"
              \/ status[q] # "pending_review" /\ status'[q] = status[q]
         /\ \A q \in Requests : status'[q] = "pending_review" => q = r
         /\ \A q \in Requests : q # r => Rank(status[q]) <= Rank(status'[q])
         /\ \A q \in Requests : q # r /\ status'[q] \in {"pending_review", "approved"} =>
              status'[q] = status[q]
  BY DEF Supersede, Statuses, Decisions, Rank

LEMMA NoCallType == NoCall \in Call /\ NoCall.at = "idle"
  BY DEF NoCall, Call, NoHistory, Histories, Statuses

\* Filing: no decision is in flight for the request, its siblings are superseded.
LEMMA CommitKeepsAccess ==
  ASSUME AccessInv, NEW r \in Requests, CommitRequest(r)
  PROVE  AccessInv'
<1>1. PICK s \in {"blocked", "pending_review"} : Supersede(r, s) /\ posture' = s
  BY DEF CommitRequest
<1>. s \in Statuses /\ s # "none" /\ status \in [Requests -> Statuses]
  BY DEF Statuses, Decisions, AccessInv, TypeOK
<1>2. UNCHANGED <<disabled, now, createdAt, history, call, applied, answered>>
  BY DEF CommitRequest
<1>3. status[r] = "none" /\ createdAt[r] \in Nat
  BY DEF CommitRequest, AccessInv, TypeOK
<1>4. TypeOK'
  BY <1>1, <1>2, SupersedeEffect DEF AccessInv, TypeOK, Postures, Decisions
<1>5. CallInv'
  <2>. SUFFICES ASSUME NEW v \in Reviewers, call[v].at # "idle" PROVE Serves(call[v])'
    BY <1>2 DEF CallInv
  <2>. DEFINE q == call[v].request
  <2>1. Serves(call[v])
    BY DEF CallInv, AccessInv
  <2>2. q \in Requests /\ q # r
    BY <2>1, <1>3 DEF Serves
  <2>3. /\ status'[q] # "none" /\ Rank(status[q]) <= Rank(status'[q])
        /\ status'[q] \in {"pending_review", "approved"} => status'[q] = status[q]
    BY <1>1, <2>1, <2>2, SupersedeEffect DEF Serves
  <2>4. call[v].at = "decide" => call[v].expected \in {"pending_review", "approved"}
    BY <2>1 DEF Serves, Actionable, Decisions
  <2>5. Rank(status[q]) \in Nat /\ Rank(status'[q]) \in Nat /\ Rank(call[v].expected) \in Nat
    BY DEF Rank
  <2>. QED  BY <1>2, <2>1, <2>3, <2>4, <2>5 DEF Serves
<1>6. TimeInv'
  BY <1>1, <1>2, <1>3, SupersedeEffect DEF TimeInv, AccessInv
<1>7. HistoryInv'
  <2>1. \A q \in Requests : status'[q] = "none" => status[q] = "none"
    BY <1>1, SupersedeEffect
  <2>. QED  BY <1>2, <2>1 DEF HistoryInv, AccessInv
<1>8. OnePending'
  BY <1>1, SupersedeEffect DEF OnePending
<1>9. PostureBacked'
  BY <1>1 DEF PostureBacked
<1>10. DecisionRemembered'
  BY <1>2 DEF DecisionRemembered, AccessInv
<1>. QED  BY <1>4, <1>5, <1>6, <1>7, <1>8, <1>9, <1>10 DEF AccessInv

\* Deciding: the history read earlier is the history the request still has.
LEMMA ApplyKeepsAccess ==
  ASSUME AccessInv, NEW v \in Reviewers, call[v].at = "decide", Apply(v),
         status[call[v].request] = call[v].expected, Current(call[v].request)
  PROVE  AccessInv'
<1>. PICK c : c = call[v]
  OBVIOUS
<1>. PICK r : r = c.request
  OBVIOUS
<1>1. /\ r \in Requests /\ c.decision \in Decisions /\ c.key \in Keys
      /\ status[r] = c.expected /\ c.expected \in Actionable(c.decision)
      /\ c.history = history[r] /\ history[r][c.key] = None
  BY DEF AccessInv, CallInv, Serves
<1>2. /\ Supersede(r, c.decision) /\ posture' = c.decision
      /\ history' = [history EXCEPT ![r] = [history[r] EXCEPT ![c.key] = c.decision]]
      /\ applied' = [applied EXCEPT ![r][c.key] = @ + 1]
      /\ answered' = answered \cup {[request |-> r, key |-> c.key, decision |-> c.decision]}
      /\ call' = [call EXCEPT ![v] = NoCall]
      /\ UNCHANGED <<disabled, now, createdAt>>
  BY <1>1 DEF Apply, Answers
<1>3. /\ c.decision \in Statuses /\ c.decision # "none" /\ c.decision # "pending_review"
      /\ c.decision # None /\ status \in [Requests -> Statuses]
  BY <1>1 DEF Decisions, Statuses, AccessInv, TypeOK
<1>4. TypeOK'
  <2>1. status' \in [Requests -> Statuses]
    BY <1>1, <1>2, <1>3, SupersedeEffect
  <2>2. history' \in [Requests -> Histories]
    BY <1>1, <1>2 DEF AccessInv, TypeOK, Histories
  <2>3. call' \in [Reviewers -> Call]
    BY <1>2, NoCallType DEF AccessInv, TypeOK
  <2>4. applied' \in [Requests -> [Keys -> Nat]]
    <3>1. applied \in [Requests -> [Keys -> Nat]]
      BY DEF AccessInv, TypeOK
    <3>2. [applied[r] EXCEPT ![c.key] = @ + 1] \in [Keys -> Nat]
      <4>1. PICK f : f = applied[r]
        OBVIOUS
      <4>2. f \in [Keys -> Nat]
        BY <1>1, <3>1, <4>1
      <4>3. f[c.key] + 1 \in Nat
        BY <1>1, <4>2
      <4>4. [f EXCEPT ![c.key] = f[c.key] + 1] \in [Keys -> Nat]
        BY <4>2, <4>3
      <4>. QED  BY <4>1, <4>4
    <3>3. applied' = [applied EXCEPT ![r] = [applied[r] EXCEPT ![c.key] = @ + 1]]
      BY <1>2
    <3>. QED  BY <1>1, <3>1, <3>2, <3>3
  <2>5. answered' \subseteq Answer
    BY <1>1, <1>2 DEF AccessInv, TypeOK, Answer
  <2>. QED  BY <1>1, <1>2, <2>1, <2>2, <2>3, <2>4, <2>5 DEF AccessInv, TypeOK, Postures
<1>5. CallInv'
  <2>. SUFFICES ASSUME NEW u \in Reviewers, call'[u].at # "idle" PROVE Serves(call[u])'
    BY DEF CallInv
  <2>1. u # v /\ call'[u] = call[u]
    BY <1>2 DEF NoCall, AccessInv, TypeOK
  <2>. PICK d : d = call[u]
    OBVIOUS
  <2>. PICK q : q = d.request
    OBVIOUS
  <2>2. Serves(d)
    BY <2>1 DEF CallInv, AccessInv
  <2>3. q \in Requests /\ status[q] # "none"
    BY <2>2 DEF Serves
  <2>4. d.at = "decide" => d.expected \in {"pending_review", "approved"}
    BY <2>2 DEF Serves, Actionable, Decisions
  <2>5. CASE q = r
    <3>1. status'[q] = c.decision /\ Rank(status[q]) < Rank(status'[q])
      BY <1>1, <1>2, <1>3, <2>5, SupersedeEffect DEF Rank, Actionable, Decisions
    <3>2. d.at = "decide" =>
            Rank(d.expected) < Rank(status'[q]) /\ status'[q] # d.expected
      BY <2>2, <2>4, <3>1 DEF Serves, Rank
    <3>3. d.at = "decide" => Rank(d.expected) <= Rank(status'[q])
      BY <3>2 DEF Rank
    <3>. QED  BY <1>3, <2>1, <2>2, <3>1, <3>2, <3>3 DEF Serves
  <2>6. CASE q # r
    <3>1. /\ status'[q] # "none" /\ Rank(status[q]) <= Rank(status'[q])
          /\ status'[q] \in {"pending_review", "approved"} => status'[q] = status[q]
          /\ history'[q] = history[q]
      <4>1. history'[q] = history[q]
        BY <1>2, <2>3, <2>6 DEF AccessInv, TypeOK
      <4>2. \/ status[q] = "pending_review" /\ status'[q] = "revoked"
            \/ status[q] # "pending_review" /\ status'[q] = status[q]
        BY <1>1, <1>2, <1>3, <2>3, <2>6, SupersedeEffect
      <4>. QED  BY <2>3, <4>1, <4>2 DEF Rank
    <3>2. Rank(status[q]) \in Nat /\ Rank(status'[q]) \in Nat /\ Rank(d.expected) \in Nat
      BY DEF Rank
    <3>. QED  BY <2>1, <2>2, <2>4, <3>1, <3>2 DEF Serves
  <2>. QED  BY <2>5, <2>6
<1>6. TimeInv'
  BY <1>1, <1>2, <1>3, SupersedeEffect DEF TimeInv, AccessInv, Current, Filed
<1>7. HistoryInv'
  <2>. SUFFICES ASSUME NEW q \in Requests, NEW k \in Keys
       PROVE  /\ applied'[q][k] = IF history'[q][k] = None THEN 0 ELSE 1
              /\ status'[q] = "none" => history'[q][k] = None
    BY DEF HistoryInv
  <2>1. /\ applied[q][k] = IF history[q][k] = None THEN 0 ELSE 1
        /\ status[q] = "none" => history[q][k] = None
    BY DEF HistoryInv, AccessInv
  <2>2. status'[q] = "none" => status[q] = "none" /\ q # r
    BY <1>1, <1>2, <1>3, SupersedeEffect
  <2>3. CASE q = r /\ k = c.key
    <3>1. history'[q][k] = c.decision
      BY <1>1, <1>2, <2>3 DEF AccessInv, TypeOK, Histories
    <3>2. applied'[q][k] = applied[q][k] + 1
      BY <1>1, <1>2, <2>3 DEF AccessInv, TypeOK
    <3>. QED  BY <1>1, <1>3, <2>1, <2>2, <2>3, <3>1, <3>2
  <2>4. CASE ~(q = r /\ k = c.key)
    <3>1. history'[q][k] = history[q][k]
      BY <1>1, <1>2, <2>4 DEF AccessInv, TypeOK, Histories
    <3>2. applied'[q][k] = applied[q][k]
      BY <1>1, <1>2, <2>4 DEF AccessInv, TypeOK
    <3>. QED  BY <2>1, <2>2, <3>1, <3>2
  <2>. QED  BY <2>3, <2>4
<1>8. OnePending'
  BY <1>1, <1>2, <1>3, SupersedeEffect DEF OnePending
<1>9. PostureBacked'
  <2>1. \A q \in Requests : status'[q] # "none" <=> status[q] # "none"
    BY <1>1, <1>2, <1>3, SupersedeEffect DEF Current, Filed
  <2>2. Current(r)
    OBVIOUS
  <2>3. r \in Filed' /\ \A q \in Filed' : q # r => Newer(r, q)'
    BY <1>2, <2>1, <2>2 DEF Current, Filed, Newer
  <2>4. status'[r] = c.decision
    BY <1>1, <1>2, <1>3, SupersedeEffect
  <2>. QED  BY <1>2, <2>3, <2>4 DEF PostureBacked, Current
<1>10. DecisionRemembered'
  <2>. SUFFICES ASSUME NEW a \in answered' PROVE history'[a.request][a.key] = a.decision
    BY DEF DecisionRemembered
  <2>1. CASE a \in answered
    <3>1. /\ history[a.request][a.key] = a.decision /\ a.decision # None
          /\ a.request \in Requests /\ a.key \in Keys
      BY <2>1 DEF AccessInv, DecisionRemembered, TypeOK, Answer, Decisions
    <3>. QED  BY <1>1, <1>2, <3>1 DEF AccessInv, TypeOK, Histories
  <2>2. CASE a = [request |-> r, key |-> c.key, decision |-> c.decision]
    BY <1>1, <1>2, <2>2 DEF AccessInv, TypeOK, Histories
  <2>. QED  BY <1>2, <2>1, <2>2
<1>. QED  BY <1>4, <1>5, <1>6, <1>7, <1>8, <1>9, <1>10 DEF AccessInv

LEMMA BeginDecisionKeepsAccess ==
  ASSUME AccessInv, NEW v \in Reviewers, NEW r \in Requests, NEW d \in Decisions, NEW k \in Keys,
         BeginDecision(v, r, d, k)
  PROVE  AccessInv'
<1>1. UNCHANGED <<disabled, posture, now, createdAt, status, history, applied>>
  BY DEF BeginDecision
<1>2. CASE history[r][k] = d
  <2>1. /\ answered' = answered \cup {[request |-> r, key |-> k, decision |-> d]}
        /\ UNCHANGED call
    BY <1>2 DEF BeginDecision, Decisions
  <2>2. TypeOK'
    BY <1>1, <2>1 DEF AccessInv, TypeOK, Answer
  <2>3. DecisionRemembered'
    BY <1>1, <1>2, <2>1 DEF AccessInv, DecisionRemembered
  <2>. QED  BY <1>1, <2>1, <2>2, <2>3 DEF AccessInv, CallInv, Serves, TimeInv, HistoryInv,
              OnePending, PostureBacked, Filed, Current, Newer
<1>3. CASE history[r][k] = None
  <2>. PICK c : c = [at |-> "decide", request |-> r, decision |-> d, key |-> k,
                     expected |-> status[r], history |-> history[r]]
    OBVIOUS
  <2>1. /\ call' = [call EXCEPT ![v] = c] /\ UNCHANGED answered
        /\ r \in Filed /\ status[r] \in Actionable(d)
    BY <1>3 DEF BeginDecision, Decisions
  <2>2. c \in Call
    BY DEF Call, AccessInv, TypeOK
  <2>3. TypeOK'
    BY <1>1, <2>1, <2>2 DEF AccessInv, TypeOK
  <2>4. Serves(c) /\ Serves(c)'
    BY <1>1, <1>3, <2>1 DEF Serves, Filed, Rank
  <2>5. CallInv'
    <3>. SUFFICES ASSUME NEW u \in Reviewers, call'[u].at # "idle" PROVE Serves(call[u])'
      BY DEF CallInv
    <3>1. CASE u = v
      BY <2>1, <2>4, <3>1 DEF AccessInv, TypeOK, Serves
    <3>2. CASE u # v
      BY <1>1, <2>1, <3>2 DEF AccessInv, TypeOK, CallInv, Serves
    <3>. QED  BY <3>1, <3>2
  <2>. QED  BY <1>1, <2>1, <2>3, <2>5 DEF AccessInv, TimeInv, HistoryInv,
              OnePending, PostureBacked, DecisionRemembered, Filed, Current, Newer
<1>. QED  BY <1>2, <1>3 DEF BeginDecision

LEMMA ReviewKeepsAccess ==
  ASSUME AccessInv, NEW v \in Reviewers, (Decide(v) /\ ~Apply(v)) \/ Confirm(v)
  PROVE  AccessInv'
<1>1. /\ UNCHANGED <<disabled, posture, now, createdAt, status, history, applied>>
      /\ \/ call' = [call EXCEPT ![v].at = "confirm"] /\ UNCHANGED answered /\ call[v].at = "decide"
         \/ call' = [call EXCEPT ![v] = NoCall]
  BY DEF Decide, NotDecided, Confirm
<1>2. TypeOK' /\ DecisionRemembered'
  <2>1. call' \in [Reviewers -> Call]
    <3>1. [call[v] EXCEPT !.at = "confirm"] \in Call
      BY DEF AccessInv, TypeOK, Call
    <3>. QED  BY <1>1, <3>1, NoCallType DEF AccessInv, TypeOK
  <2>2. \/ UNCHANGED answered
        \/ /\ call[v].at = "confirm" /\ Answers(v)
           /\ history[call[v].request][call[v].key] = call[v].decision
    BY DEF Decide, NotDecided, Confirm
  <2>3. call[v].at = "confirm" =>
          call[v].request \in Requests /\ call[v].decision \in Decisions /\ call[v].key \in Keys
    BY DEF AccessInv, CallInv, Serves
  <2>. QED  BY <1>1, <2>1, <2>2, <2>3
            DEF AccessInv, TypeOK, DecisionRemembered, Answers, Answer
<1>3. CallInv'
  <2>. SUFFICES ASSUME NEW u \in Reviewers, call'[u].at # "idle" PROVE Serves(call[u])'
    BY DEF CallInv
  <2>1. CASE u = v
    <3>1. call'[u] = [call[v] EXCEPT !.at = "confirm"] /\ call[v].at = "decide"
      BY <1>1, <2>1 DEF AccessInv, TypeOK, NoCall
    <3>. QED  BY <1>1, <2>1, <3>1 DEF AccessInv, TypeOK, Call, CallInv, Serves
  <2>2. CASE u # v
    BY <1>1, <2>2 DEF AccessInv, TypeOK, CallInv, Serves
  <2>. QED  BY <2>1, <2>2
<1>. QED  BY <1>1, <1>2, <1>3 DEF AccessInv, TimeInv, HistoryInv, OnePending, PostureBacked,
            Filed, Current, Newer

LEMMA OtherStepsKeepAccess ==
  ASSUME AccessInv, UNCHANGED vars \/ Tick \/ Disable \/ \E r \in Requests : BeginRequest(r)
  PROVE  AccessInv'
<1>1. /\ UNCHANGED <<posture, status, history, call, applied, answered>>
      /\ \/ UNCHANGED createdAt
         \/ \E r \in Requests : createdAt[r] = None /\ createdAt' = [createdAt EXCEPT ![r] = now]
  BY DEF vars, Tick, Disable, BeginRequest
<1>2. TypeOK'
  <2>1. createdAt' \in [Requests -> Nat \cup {None}]
    BY <1>1 DEF AccessInv, TypeOK
  <2>2. now' \in Nat /\ disabled' \in BOOLEAN
    <3>1. now' = now \/ now' = now + 1
      BY DEF vars, Tick, Disable, BeginRequest
    <3>2. disabled' \in BOOLEAN
      <4>1. CASE disabled' = TRUE
        BY <4>1
      <4>2. CASE disabled' = disabled
        BY <4>2 DEF AccessInv, TypeOK
      <4>. QED  BY <4>1, <4>2 DEF vars, Tick, Disable, BeginRequest
    <3>. QED  BY <3>1, <3>2 DEF AccessInv, TypeOK
  <2>. QED  BY <1>1, <2>1, <2>2 DEF AccessInv, TypeOK
<1>3. \A r \in Filed : createdAt'[r] = createdAt[r]
  BY <1>1 DEF AccessInv, TypeOK, TimeInv, Filed
<1>4. TimeInv'
  BY <1>1, <1>3 DEF AccessInv, TimeInv, Filed
<1>5. PostureBacked'
  <2>1. ASSUME NEW r \in Filed, Current(r) PROVE Current(r)'
    BY <1>1, <1>3, <2>1 DEF Current, Filed, Newer
  <2>2. Filed' = Filed
    BY <1>1 DEF Filed
  <2>. QED  BY <1>1, <2>1, <2>2 DEF AccessInv, PostureBacked
<1>. QED  BY <1>1, <1>2, <1>4, <1>5
          DEF AccessInv, CallInv, Serves, HistoryInv, OnePending, DecisionRemembered

-----------------------------------------------------------------------------
LEMMA AccessInvInit == Init => AccessInv
<1>. SUFFICES ASSUME Init PROVE AccessInv
  OBVIOUS
<1>1. TypeOK
  BY DEF Init, TypeOK, Postures, Statuses, Histories, NoHistory, Call, NoCall
<1>. QED  BY <1>1 DEF Init, AccessInv, CallInv, TimeInv, HistoryInv, OnePending, PostureBacked,
            DecisionRemembered, NoCall, NoHistory

LEMMA AccessInvStep == AccessInv /\ [Next]_vars => AccessInv'
<1>. SUFFICES ASSUME AccessInv, [Next]_vars PROVE AccessInv'
  OBVIOUS
<1>1. ASSUME NEW v \in Reviewers, Decide(v) PROVE AccessInv'
  <2>1. CASE Apply(v)
    <3>1. CASE status[call[v].request] = call[v].expected /\ Current(call[v].request)
      BY <1>1, <2>1, <3>1, ApplyKeepsAccess DEF Decide
    <3>2. CASE ~(status[call[v].request] = call[v].expected /\ Current(call[v].request))
      <4>1. call'[v].at = "confirm" /\ call'[v].at = "idle"
        BY <1>1, <2>1, <3>2 DEF Decide, NotDecided, Apply, NoCall, AccessInv, TypeOK, Call
      <4>. QED  BY <4>1
    <3>. QED  BY <3>1, <3>2
  <2>. QED  BY <1>1, <2>1, ReviewKeepsAccess
<1>2. ASSUME NEW v \in Reviewers, Confirm(v) PROVE AccessInv'
  BY <1>2, ReviewKeepsAccess
<1>3. ASSUME NEW r \in Requests, CommitRequest(r) PROVE AccessInv'
  BY <1>3, CommitKeepsAccess
<1>4. ASSUME NEW v \in Reviewers, NEW r \in Requests, NEW d \in Decisions, NEW k \in Keys,
             BeginDecision(v, r, d, k)
      PROVE  AccessInv'
  BY <1>4, BeginDecisionKeepsAccess
<1>. QED  BY <1>1, <1>2, <1>3, <1>4, OtherStepsKeepAccess DEF Next

\* The inductive invariant holds.
THEOREM AccessInvariance == Spec => []AccessInv
  BY AccessInvInit, AccessInvStep, PTL DEF Spec

\* Every variable keeps its type.
THEOREM AccessTypes == Spec => []TypeOK
<1>1. AccessInv => TypeOK
  BY DEF AccessInv
<1>. QED  BY <1>1, AccessInvariance, PTL

\* An identity never has two requests under review.
THEOREM AtMostOneReview == Spec => []OnePending
<1>1. AccessInv => OnePending
  BY DEF AccessInv
<1>. QED  BY <1>1, AccessInvariance, PTL

\* Production access rests on the approval of the identity's newest request.
THEOREM PostureIsBacked == Spec => []PostureBacked
<1>1. AccessInv => PostureBacked
  BY DEF AccessInv
<1>. QED  BY <1>1, AccessInvariance, PTL

\* A decision answered with success stays recorded under its key.
THEOREM DecisionsAreRemembered == Spec => []DecisionRemembered
<1>1. AccessInv => DecisionRemembered
  BY DEF AccessInv
<1>. QED  BY <1>1, AccessInvariance, PTL

\* No decision is applied twice under one key.
THEOREM DecisionsApplyOnce == Spec => []AppliedOnce
<1>1. AccessInv => AppliedOnce
  BY DEF AccessInv, HistoryInv, AppliedOnce
<1>. QED  BY <1>1, AccessInvariance, PTL
=============================================================================
