---------------------------- MODULE GatewayProofs ----------------------------
(* Theorems about Gateway, for every value of its constants.                *)
EXTENDS Gateway, TLAPS

GateLabels == {"idle", "count", "look", "expire", "hit", "route", "spend", "store", "reply", "patch"}
Codes == {200, 402, 403, 429, 502, 503}
GateCall == [at : GateLabels, budget : Budget \cup {None}, est : Costs \cup {None}, count : Nat, limit : Nat,
             current : BOOLEAN, tries : Nat, cost : Costs \cup {None}, found : SUBSET Findings,
             decision : Decisions, reply : Codes \cup {None}]

GateTypes ==
  /\ budget \in Budget \cup {None} /\ charged \in Nat /\ uncounted \in BOOLEAN
  /\ adjusted \in Nat /\ due \in Nat \cup {None}
  /\ rate \in Nat /\ perMinute \in RateLimits /\ passed \in Nat /\ top \in Nat /\ miscounted \in BOOLEAN
  /\ cache \in (SUBSET Findings) \cup {None} /\ stale \in BOOLEAN
  /\ mode \in [Findings -> Modes] /\ remoded \in BOOLEAN
  /\ gateCall \in [Threads -> GateCall]

\* No request has read a budget that spent more than was written and charged.
SpendInv ==
  /\ due = None => budget = None /\ \A t \in Threads : gateCall[t].budget = None
  /\ budget # None => /\ budget.spent <= adjusted + charged
                      /\ uncounted \/ budget.spent = due
  /\ \A t \in Threads : /\ gateCall[t].budget # None => gateCall[t].budget.spent <= adjusted + charged
                        /\ gateCall[t].at = "patch" => gateCall[t].budget # None

\* Every request that passed is in the count.
RateInv ==
  /\ miscounted \/ (passed <= rate /\ passed <= top)
  /\ rate <= MaxCalls
  /\ \A t \in Threads : gateCall[t].at = "count" /\ gateCall[t].current =>
       gateCall[t].count <= MaxCalls /\ (gateCall[t].count = MaxCalls => rate = MaxCalls)

Harmless(found) == Evaluate(found) # "block"

\* A request in progress was not blocked, and what is or will be in the cache
\* was allowed.
CallAllowed(c) ==
  /\ c.at \in {"count", "look", "expire", "hit", "route"} => c.decision # "block"
  /\ c.at = "hit" => Harmless(c.found)
  /\ c.at \in {"spend", "store"} /\ c.decision = "allow" => Harmless(c.found)
  /\ c.reply = 200 => c.decision # "block"

PolicyInv ==
  remoded \/ ( /\ cache # None => Harmless(cache)
               /\ \A t \in Threads : CallAllowed(gateCall[t]) )

GateInv == GateTypes /\ SpendInv /\ RateInv /\ PolicyInv

USE ServerAssumption, GatewayAssumption

-----------------------------------------------------------------------------
LEMMA EvaluateValues == \A found : Evaluate(found) \in Decisions
  BY DEF Evaluate, Decisions

LEMMA SameModes == mode' = mode => \A found : Harmless(found)' <=> Harmless(found)
  BY DEF Harmless, Evaluate

LEMMA NoGateCallTyped == NoGateCall \in GateCall
  BY DEF NoGateCall, GateCall, GateLabels, Decisions

LEMMA CodeValues ==
  /\ {200, 402, 403, 429, 502, 503} = Codes
  /\ \A code \in {402, 403, 429, 502, 503} : code # 200
  BY DEF Codes

\* What a request has read.
LEMMA CallFields ==
  ASSUME GateInv, NEW t \in Threads
  PROVE  /\ gateCall[t] \in GateCall /\ charged \in Nat /\ adjusted \in Nat
         /\ gateCall[t].budget # None => /\ gateCall[t].budget \in Budget
                                         /\ gateCall[t].budget.spent \in Nat
                                         /\ gateCall[t].budget.spent <= adjusted + charged
         /\ gateCall[t].cost # None => gateCall[t].cost \in Nat
<1>1. gateCall[t] \in GateCall /\ charged \in Nat /\ adjusted \in Nat
  BY DEF GateInv, GateTypes
<1>2. gateCall[t].budget \in Budget \cup {None} /\ gateCall[t].cost \in Costs \cup {None}
  BY <1>1 DEF GateCall
<1>3. ASSUME gateCall[t].budget # None
      PROVE  gateCall[t].budget \in Budget /\ gateCall[t].budget.spent \in Nat
  BY <1>2, <1>3 DEF Budget
<1>4. gateCall[t].budget # None => gateCall[t].budget.spent <= adjusted + charged
  BY DEF GateInv, SpendInv
<1> QED
  BY <1>1, <1>2, <1>3, <1>4

\* A request moves: what a call must satisfy for the invariant to hold.
LEMMA MoveKeeps ==
  ASSUME GateInv, NEW t \in Threads, NEW call \in GateCall, GateMove(t, call)
  PROVE  /\ gateCall' \in [Threads -> GateCall]
         /\ gateCall'[t] = call
         /\ \A u \in Threads : u # t => gateCall'[u] = gateCall[u]
  BY DEF GateInv, GateTypes, GateMove

\* A request keeps its budget or drops it, and the budget stays.
LEMMA SpendKept ==
  ASSUME GateInv, NEW t \in Threads, NEW call \in GateCall, GateMove(t, call), BudgetUnchanged,
         call.budget \in {None, budget, gateCall[t].budget}, call.at = "patch" => call.budget # None
  PROVE  SpendInv'
  BY MoveKeeps DEF GateInv, GateTypes, SpendInv, BudgetUnchanged

LEMMA RateKept ==
  ASSUME GateInv, NEW t \in Threads, NEW call \in GateCall, GateMove(t, call), RateUnchanged,
         call.at # "count" \/ call.count = rate
  PROVE  RateInv'
  BY MoveKeeps DEF GateInv, GateTypes, RateInv, RateUnchanged

LEMMA PolicyKept ==
  ASSUME GateInv, NEW t \in Threads, NEW call \in GateCall, GateMove(t, call), PoliciesUnchanged,
         remoded \/ CallAllowed(call),
         cache' \in {None, cache} \/ remoded \/ Harmless(cache')
  PROVE  PolicyInv'
<1>1. \A found : Harmless(found)' <=> Harmless(found)
  BY SameModes DEF PoliciesUnchanged
<1>2. \A u \in Threads : u # t => gateCall'[u] = gateCall[u]
  BY MoveKeeps
<1>3. gateCall'[t] = call
  BY MoveKeeps
<1>4. remoded' = remoded
  BY DEF PoliciesUnchanged
<1>5. ASSUME ~remoded PROVE \A u \in Threads : CallAllowed(gateCall[u])'
  BY <1>1, <1>2, <1>3, <1>5 DEF GateInv, PolicyInv, CallAllowed
<1>6. ASSUME ~remoded, cache' # None PROVE Harmless(cache)'
  BY <1>1, <1>6 DEF GateInv, PolicyInv, Harmless
<1> QED
  BY <1>4, <1>5, <1>6 DEF PolicyInv

\* A step of a request, from what its call becomes.
LEMMA CallStep ==
  ASSUME GateInv, NEW t \in Threads, NEW call \in GateCall, GateMove(t, call),
         BudgetUnchanged, PoliciesUnchanged, RateUnchanged,
         cache' \in (SUBSET Findings) \cup {None} /\ stale' \in BOOLEAN,
         call.budget \in {None, budget, gateCall[t].budget}, call.at = "patch" => call.budget # None,
         call.at # "count" \/ call.count = rate,
         remoded \/ CallAllowed(call),
         cache' \in {None, cache} \/ remoded \/ Harmless(cache')
  PROVE  GateInv'
<1>1. GateTypes'
  BY MoveKeeps DEF GateInv, GateTypes, BudgetUnchanged, PoliciesUnchanged, RateUnchanged
<1>2. SpendInv' /\ RateInv' /\ PolicyInv'
  BY SpendKept, RateKept, PolicyKept
<1> QED
  BY <1>1, <1>2 DEF GateInv

LEMMA ReplyTyped ==
  \A code \in Codes, decision \in Decisions :
    [NoGateCall EXCEPT !.at = "reply", !.reply = code, !.decision = decision] \in GateCall
  BY DEF NoGateCall, GateCall, GateLabels, Decisions

\* A request is answered.
LEMMA ReplyStep ==
  ASSUME GateInv, NEW t \in Threads, NEW code \in Codes, NEW decision \in Decisions,
         Reply(t, code, decision), code # 200 \/ remoded \/ decision # "block",
         BudgetUnchanged, PoliciesUnchanged, RateUnchanged,
         cache' \in (SUBSET Findings) \cup {None} /\ stale' \in BOOLEAN,
         cache' \in {None, cache} \/ remoded \/ Harmless(cache')
  PROVE  GateInv'
<1> DEFINE call == [NoGateCall EXCEPT !.at = "reply", !.reply = code, !.decision = decision]
<1>1. call \in GateCall
  BY ReplyTyped
<1>2. call.budget = None /\ call.at = "reply" /\ call.reply = code /\ call.decision = decision
  BY DEF NoGateCall
<1>3. remoded \/ CallAllowed(call)
  BY <1>2 DEF CallAllowed
<1>4. GateMove(t, call)
  BY DEF Reply
<1> HIDE DEF call
<1> QED
  BY <1>1, <1>2, <1>3, <1>4, CallStep

LEMMA GateInitHolds == GateInit => GateInv
<1> SUFFICES ASSUME GateInit PROVE GateInv
  OBVIOUS
<1>1. GateTypes
  BY NoGateCallTyped DEF GateInit, GateTypes
<1>2. SpendInv /\ RateInv
  BY DEF GateInit, SpendInv, RateInv, NoGateCall
<1>3. PolicyInv
  BY DEF GateInit, PolicyInv, CallAllowed, NoGateCall
<1> QED
  BY <1>1, <1>2, <1>3 DEF GateInv

-----------------------------------------------------------------------------
(* The steps of a completion.                                               *)

LEMMA AdmitKeeps ==
  ASSUME GateInv, NEW t \in Threads, NEW found \in SUBSET Findings, NEW est \in Costs \cup {None},
         NEW configured \in BOOLEAN, Admit(t, found, est, configured)
  PROVE  GateInv'
<1> DEFINE call == [NoGateCall EXCEPT !.at = "count", !.budget = ActiveBudget, !.est = est, !.count = rate,
                                      !.limit = perMinute, !.decision = Evaluate(found)]
<1>1. /\ BudgetUnchanged /\ PoliciesUnchanged /\ RateUnchanged /\ cache' = cache
      /\ cache' \in (SUBSET Findings) \cup {None} /\ stale' \in BOOLEAN
  BY DEF Admit, CacheUnchanged, GateInv, GateTypes
<1>2. CASE Reply(t, 403, "block") \/ Reply(t, 503, "review") \/ Reply(t, 402, "block")
  BY <1>1, <1>2, ReplyStep, CodeValues DEF Decisions
<1>3. CASE Evaluate(found) # "block" /\ GateMove(t, call)
  <2>1. call \in GateCall
    BY EvaluateValues DEF ActiveBudget, GateInv, GateTypes, NoGateCall, GateCall, GateLabels
  <2>2. /\ call.budget \in {None, budget} /\ call.at = "count" /\ call.count = rate
        /\ call.decision = Evaluate(found)
    BY DEF ActiveBudget, NoGateCall
  <2>3. CallAllowed(call)
    BY <1>3, <2>2 DEF CallAllowed
  <2> HIDE DEF call
  <2> QED
    BY <1>1, <1>3, <2>1, <2>2, <2>3, CallStep
<1> QED
  BY <1>2, <1>3 DEF Admit

LEMMA CountKeeps ==
  ASSUME GateInv, NEW t \in Threads, Count(t)
  PROVE  GateInv'
<1> DEFINE c == gateCall[t]
           call == IF c.count + 1 <= c.limit
                     THEN [c EXCEPT !.at = "look", !.count = 0, !.limit = 0, !.current = TRUE]
                     ELSE [NoGateCall EXCEPT !.at = "reply", !.reply = 429, !.decision = "block"]
<1>1. c \in GateCall /\ c.at = "count"
  BY DEF Count, GateInv, GateTypes
<1>2. call \in GateCall
  <2>1. [c EXCEPT !.at = "look", !.count = 0, !.limit = 0, !.current = TRUE] \in GateCall
    BY <1>1 DEF GateCall, GateLabels
  <2>2. [NoGateCall EXCEPT !.at = "reply", !.reply = 429, !.decision = "block"] \in GateCall
    <3>1. 429 \in Codes /\ "block" \in Decisions
      BY CodeValues DEF Decisions
    <3> QED
      BY <3>1, ReplyTyped
  <2> QED
    BY <2>1, <2>2
<1>3. GateMove(t, call)
  BY DEF Count, Reply
<1>4. /\ call.at \notin {"count", "patch"} /\ call.budget \in {None, c.budget}
      /\ CallAllowed(c) => CallAllowed(call)
  BY <1>1 DEF NoGateCall, GateCall, CallAllowed
<1>5. /\ gateCall' \in [Threads -> GateCall]
      /\ gateCall'[t] = call
      /\ \A u \in Threads : u # t => gateCall'[u] = gateCall[u]
  BY <1>2, <1>3, MoveKeeps
<1>6. SpendInv'
  BY <1>2, <1>3, <1>4, SpendKept DEF Count
<1>7. PolicyInv'
  <2>1. remoded \/ CallAllowed(call)
    BY <1>4 DEF GateInv, PolicyInv
  <2>2. cache' = cache /\ PoliciesUnchanged
    BY DEF Count, CacheUnchanged
  <2> HIDE DEF call
  <2> QED
    BY <1>2, <1>3, <2>1, <2>2, PolicyKept
<1>8. RateInv' /\ rate' \in Nat /\ passed' \in Nat /\ top' \in Nat /\ miscounted' \in BOOLEAN
  <2>1. CASE ~c.current
    <3> HIDE DEF call
    <3>1. RateUnchanged
      BY <2>1 DEF Count
    <3>2. RateInv'
      BY <1>2, <1>3, <1>4, <3>1, RateKept
    <3> QED
      BY <3>1, <3>2 DEF RateUnchanged, GateInv, GateTypes
  <2>2. CASE c.current
    <3> HIDE DEF call
    <3>1. /\ rate < MaxCalls /\ rate' = c.count + 1
          /\ miscounted' = (miscounted \/ rate # c.count)
          /\ passed' = IF c.count + 1 <= c.limit THEN passed + 1 ELSE passed
          /\ top' = IF c.limit > top THEN c.limit ELSE top
      BY <2>2 DEF Count, Stale
    <3>2. c.count \in Nat /\ c.limit \in Nat /\ top \in Nat /\ rate \in Nat /\ passed \in Nat /\ miscounted \in BOOLEAN
      BY <1>1 DEF GateCall, GateInv, GateTypes
    <3>3. c.count < MaxCalls
      BY <1>1, <2>2, <3>1, <3>2 DEF GateInv, RateInv
    <3>4. miscounted' \/ (passed' <= rate' /\ passed' <= top')
      <4>1. CASE miscounted \/ rate # c.count
        BY <3>1, <4>1
      <4>2. CASE ~miscounted /\ rate = c.count
        <5>1. passed <= rate /\ passed <= top
          BY <4>2 DEF GateInv, RateInv
        <5> QED
          BY <3>1, <3>2, <4>2, <5>1
      <4> QED
        BY <4>1, <4>2
    <3>5. \A u \in Threads : gateCall'[u].at = "count" /\ gateCall'[u].current =>
            gateCall'[u].count <= MaxCalls /\ (gateCall'[u].count = MaxCalls => rate' = MaxCalls)
      BY <1>4, <1>5, <3>1, <3>2 DEF GateInv, RateInv
    <3> QED
      BY <3>1, <3>2, <3>3, <3>4, <3>5 DEF RateInv
  <2> QED
    BY <2>1, <2>2
<1>9. GateTypes'
  <2>1. perMinute' = perMinute
    BY DEF Count, RateUnchanged
  <2> QED
    BY <1>5, <1>8, <2>1 DEF Count, GateInv, GateTypes, BudgetUnchanged, PoliciesUnchanged, CacheUnchanged
<1> QED
  BY <1>6, <1>7, <1>8, <1>9 DEF GateInv

LEMMA LookUpKeeps ==
  ASSUME GateInv, NEW t \in Threads, LookUp(t)
  PROVE  GateInv'
<1> DEFINE c == gateCall[t]
<1>1. /\ BudgetUnchanged /\ PoliciesUnchanged /\ RateUnchanged /\ cache' = cache
      /\ cache' \in (SUBSET Findings) \cup {None} /\ stale' \in BOOLEAN
      /\ c \in GateCall /\ c.at = "look" /\ (remoded \/ CallAllowed(c))
  BY DEF LookUp, CacheUnchanged, GateInv, GateTypes, PolicyInv
<1>2. ASSUME NEW call \in GateCall, GateMove(t, call), call.budget = c.budget, call.at \notin {"count", "patch"},
             remoded \/ CallAllowed(call)
      PROVE  GateInv'
  BY <1>1, <1>2, CallStep
<1>3. CASE cache # None /\ GateMove(t, [c EXCEPT !.at = "hit", !.found = cache])
  <2>1. cache \in SUBSET Findings /\ (remoded \/ Harmless(cache))
    BY <1>3 DEF GateInv, GateTypes, PolicyInv
  <2>2. [c EXCEPT !.at = "hit", !.found = cache] \in GateCall
    BY <1>1, <2>1 DEF GateCall, GateLabels
  <2>3. remoded \/ CallAllowed([c EXCEPT !.at = "hit", !.found = cache])
    BY <1>1, <2>1 DEF CallAllowed, GateCall
  <2> QED
    BY <1>1, <1>2, <1>3, <2>2, <2>3 DEF GateCall
<1>4. CASE GateMove(t, [c EXCEPT !.at = "expire"])
  <2>1. [c EXCEPT !.at = "expire"] \in GateCall /\ (remoded \/ CallAllowed([c EXCEPT !.at = "expire"]))
    BY <1>1 DEF GateCall, GateLabels, CallAllowed
  <2> QED
    BY <1>1, <1>2, <1>4, <2>1 DEF GateCall
<1>5. CASE GateMove(t, [c EXCEPT !.at = "route", !.tries = Attempts])
  <2>1. /\ [c EXCEPT !.at = "route", !.tries = Attempts] \in GateCall
        /\ remoded \/ CallAllowed([c EXCEPT !.at = "route", !.tries = Attempts])
    BY <1>1 DEF GateCall, GateLabels, CallAllowed
  <2> QED
    BY <1>1, <1>2, <1>5, <2>1 DEF GateCall
<1> QED
  BY <1>3, <1>4, <1>5 DEF LookUp

LEMMA ExpireKeeps ==
  ASSUME GateInv, NEW t \in Threads, Expire(t)
  PROVE  GateInv'
<1> DEFINE c == gateCall[t]
           call == [c EXCEPT !.at = "route", !.tries = Attempts]
<1>1. c \in GateCall /\ c.at = "expire" /\ (remoded \/ CallAllowed(c))
  BY DEF Expire, GateInv, GateTypes, PolicyInv
<1>2. call \in GateCall /\ call.budget = c.budget /\ call.at \notin {"count", "patch"} /\ (remoded \/ CallAllowed(call))
  BY <1>1 DEF GateCall, GateLabels, CallAllowed
<1>3. GateMove(t, call)
  BY DEF Expire
<1>4. /\ BudgetUnchanged /\ PoliciesUnchanged /\ RateUnchanged
      /\ cache' = None /\ stale' = FALSE
  BY DEF Expire
<1> HIDE DEF call
<1> QED
  BY <1>2, <1>3, <1>4, CallStep

LEMMA HitKeeps ==
  ASSUME GateInv, NEW t \in Threads, Hit(t)
  PROVE  GateInv'
<1> DEFINE c == gateCall[t]
           decision == IF Evaluate(c.found) # "allow" THEN Evaluate(c.found) ELSE c.decision
<1>1. c \in GateCall /\ c.at = "hit" /\ (remoded \/ CallAllowed(c))
  BY DEF Hit, GateInv, GateTypes, PolicyInv
<1>2. decision \in Decisions /\ (remoded \/ decision # "block") /\ (remoded \/ Harmless(c.found))
  <2>1. Evaluate(c.found) \in Decisions /\ c.decision \in Decisions
    BY <1>1, EvaluateValues DEF GateCall
  <2>2. remoded \/ (c.decision # "block" /\ Harmless(c.found))
    BY <1>1 DEF CallAllowed
  <2> QED
    BY <2>1, <2>2 DEF Harmless
<1>3. /\ BudgetUnchanged /\ PoliciesUnchanged /\ RateUnchanged /\ Reply(t, 200, decision)
      /\ cache' = c.found /\ stale' = stale
  BY DEF Hit
<1>4. cache' \in SUBSET Findings /\ stale' \in BOOLEAN
  BY <1>1, <1>3 DEF GateCall, GateInv, GateTypes
<1> HIDE DEF decision
<1> QED
  BY <1>2, <1>3, <1>4, ReplyStep, CodeValues

LEMMA AttemptFailsKeeps ==
  ASSUME GateInv, NEW t \in Threads, AttemptFails(t)
  PROVE  GateInv'
<1> DEFINE c == gateCall[t]
<1>1. /\ BudgetUnchanged /\ PoliciesUnchanged /\ RateUnchanged /\ cache' = cache
      /\ cache' \in (SUBSET Findings) \cup {None} /\ stale' \in BOOLEAN
      /\ c \in GateCall /\ c.at = "route" /\ (remoded \/ CallAllowed(c))
  BY DEF AttemptFails, CacheUnchanged, GateInv, GateTypes, PolicyInv
<1>2. CASE Reply(t, 502, "review")
  BY <1>1, <1>2, ReplyStep, CodeValues DEF Decisions
<1>3. CASE c.tries > 1 /\ GateMove(t, [c EXCEPT !.tries = @ - 1])
  <2> DEFINE call == [c EXCEPT !.tries = @ - 1]
  <2>1. call \in GateCall /\ call.budget = c.budget /\ call.at \notin {"count", "patch"} /\ (remoded \/ CallAllowed(call))
    BY <1>1, <1>3 DEF GateCall, CallAllowed
  <2>2. GateMove(t, call)
    BY <1>3
  <2> HIDE DEF call
  <2> QED
    BY <1>1, <2>1, <2>2, CallStep
<1> QED
  BY <1>2, <1>3 DEF AttemptFails

LEMMA AnswerKeeps ==
  ASSUME GateInv, NEW t \in Threads, NEW found \in SUBSET Findings, NEW actual \in Costs \cup {None},
         Answer(t, found, actual)
  PROVE  GateInv'
<1> DEFINE c == gateCall[t]
           post == Evaluate(found)
           cost == IF actual # None THEN actual ELSE c.est
           decision == IF post # "allow" THEN post ELSE c.decision
           code == IF post = "block" THEN 403 ELSE 200
           call == [NoGateCall EXCEPT !.at = "spend", !.budget = c.budget, !.found = found,
                      !.cost = cost, !.decision = decision, !.reply = code]
<1>1. /\ BudgetUnchanged /\ PoliciesUnchanged /\ RateUnchanged /\ cache' = cache
      /\ cache' \in (SUBSET Findings) \cup {None} /\ stale' \in BOOLEAN
      /\ c \in GateCall /\ c.at = "route" /\ (remoded \/ CallAllowed(c))
  BY DEF Answer, CacheUnchanged, GateInv, GateTypes, PolicyInv
<1>2. post \in Decisions
  BY EvaluateValues
<1>3. /\ call.budget = c.budget /\ call.at = "spend" /\ call.found = found
      /\ call.decision = IF post # "allow" THEN post ELSE c.decision
      /\ call.reply = IF post = "block" THEN 403 ELSE 200
  BY DEF NoGateCall
<1>4. call \in GateCall
  <2>1. cost \in Costs \cup {None} /\ decision \in Decisions /\ c.budget \in Budget \cup {None}
    BY <1>1, <1>2 DEF GateCall
  <2>2. code \in Codes
    BY CodeValues
  <2> HIDE DEF cost, decision, code
  <2> QED
    BY <2>1, <2>2 DEF NoGateCall, GateCall, GateLabels
<1>5. remoded \/ CallAllowed(call)
  BY <1>1, <1>3 DEF CallAllowed, Harmless
<1>6. GateMove(t, call)
  BY DEF Answer
<1> HIDE DEF call
<1> QED
  BY <1>1, <1>3, <1>4, <1>5, <1>6, CallStep

LEMMA AddSpendKeeps ==
  ASSUME GateInv, NEW t \in Threads, AddSpend(t)
  PROVE  GateInv'
<1> DEFINE c == gateCall[t]
           call == [c EXCEPT !.at = "store", !.budget = None, !.cost = None]
<1>1. c \in GateCall /\ c.at = "spend" /\ (remoded \/ CallAllowed(c))
  BY DEF AddSpend, GateInv, GateTypes, PolicyInv
<1>2. call \in GateCall /\ call.budget = None /\ call.at = "store" /\ (remoded \/ CallAllowed(call))
  BY <1>1 DEF GateCall, GateLabels, CallAllowed
<1>3. /\ GateMove(t, call) /\ PoliciesUnchanged /\ RateUnchanged
      /\ cache' = cache /\ cache' \in (SUBSET Findings) \cup {None} /\ stale' \in BOOLEAN
  BY DEF AddSpend, CacheUnchanged, GateInv, GateTypes
<1>4. CASE BudgetUnchanged
  <2> HIDE DEF call
  <2> QED
    BY <1>2, <1>3, <1>4, CallStep
<1>5. CASE /\ c.budget # None /\ c.cost # None
           /\ budget' = [c.budget EXCEPT !.spent = @ + c.cost]
           /\ charged' = charged + c.cost /\ due' = due + c.cost /\ adjusted' = adjusted
           /\ uncounted' = (uncounted \/ budget # c.budget)
  <2>1. /\ gateCall' \in [Threads -> GateCall] /\ gateCall'[t] = call
        /\ \A u \in Threads : u # t => gateCall'[u] = gateCall[u]
    <3> HIDE DEF call
    <3> QED
      BY <1>2, <1>3, MoveKeeps
  <2>2. c.budget \in Budget /\ c.cost \in Nat /\ c.budget.spent <= adjusted + charged
        /\ charged \in Nat /\ adjusted \in Nat /\ due \in Nat
    BY <1>5, CallFields DEF GateInv, GateTypes, SpendInv
  <2>3. budget' \in Budget /\ budget' # None /\ budget'.spent = c.budget.spent + c.cost
    BY <1>5, <2>2 DEF Budget
  <2>4. GateTypes'
    BY <1>3, <1>5, <2>1, <2>2, <2>3 DEF GateInv, GateTypes, PoliciesUnchanged, RateUnchanged
  <2>5. SpendInv'
    <3>1. uncounted' \/ budget'.spent = due'
      BY <1>5, <2>2, <2>3 DEF GateInv, GateTypes, SpendInv
    <3>2. \A u \in Threads : gateCall'[u].at = "patch" => gateCall'[u].budget # None
      BY <1>2, <2>1 DEF GateInv, SpendInv
    <3>3. budget'.spent <= adjusted' + charged'
      BY <1>5, <2>2, <2>3 DEF Budget
    <3>4. \A u \in Threads : gateCall'[u].budget # None => gateCall'[u].budget.spent <= adjusted' + charged'
      <4> SUFFICES ASSUME NEW u \in Threads, gateCall'[u].budget # None
                   PROVE  gateCall'[u].budget.spent <= adjusted' + charged'
        OBVIOUS
      <4>1. u # t /\ gateCall'[u] = gateCall[u]
        BY <1>2, <2>1
      <4>2. gateCall[u].budget \in Budget /\ gateCall[u].budget.spent <= adjusted + charged
        BY <4>1, CallFields
      <4> QED
        BY <1>5, <2>2, <4>1, <4>2 DEF Budget
    <3> QED
      BY <1>5, <2>2, <2>3, <3>1, <3>2, <3>3, <3>4 DEF SpendInv
  <2>6. RateInv' /\ PolicyInv'
    <3> HIDE DEF call
    <3> QED
      BY <1>2, <1>3, RateKept, PolicyKept
  <2> QED
    BY <2>4, <2>5, <2>6 DEF GateInv
<1> QED
  BY <1>4, <1>5 DEF AddSpend, Stale

LEMMA StoreKeeps ==
  ASSUME GateInv, NEW t \in Threads, Store(t)
  PROVE  GateInv'
<1> DEFINE c == gateCall[t]
<1>1. /\ BudgetUnchanged /\ PoliciesUnchanged /\ RateUnchanged
      /\ c \in GateCall /\ c.at = "store" /\ (remoded \/ CallAllowed(c))
      /\ cache \in (SUBSET Findings) \cup {None} /\ stale \in BOOLEAN
  BY DEF Store, GateInv, GateTypes, PolicyInv
<1>2. /\ cache' = cache \/ (c.decision = "allow" /\ cache' = c.found)
      /\ stale' \in {FALSE, stale}
  BY DEF Store, CacheUnchanged
<1>3. cache' \in (SUBSET Findings) \cup {None} /\ stale' \in BOOLEAN
  BY <1>1, <1>2 DEF GateCall
<1>4. cache' = cache \/ remoded \/ Harmless(cache')
  BY <1>1, <1>2 DEF CallAllowed
<1>5. Reply(t, c.reply, c.decision) /\ c.decision \in Decisions
  BY <1>1 DEF Store, GateCall
<1> DEFINE call == [NoGateCall EXCEPT !.at = "reply", !.reply = c.reply, !.decision = c.decision]
<1>6. call \in GateCall /\ call.budget = None /\ call.at = "reply"
      /\ call.reply = c.reply /\ call.decision = c.decision
  BY <1>1 DEF NoGateCall, GateCall, GateLabels, Decisions
<1>7. remoded \/ CallAllowed(call)
  BY <1>1, <1>6 DEF CallAllowed
<1>8. GateMove(t, call)
  BY <1>5 DEF Reply
<1> HIDE DEF call
<1> QED
  BY <1>1, <1>3, <1>4, <1>6, <1>7, <1>8, CallStep

\* A thread that serves nothing.
LEMMA NoCallAllowed == CallAllowed(NoGateCall)
  BY DEF CallAllowed, NoGateCall

LEMMA AnsweredKeeps ==
  ASSUME GateInv, NEW t \in Threads, Answered(t)
  PROVE  GateInv'
<1>1. /\ GateMove(t, NoGateCall) /\ BudgetUnchanged /\ PoliciesUnchanged /\ RateUnchanged
      /\ cache' = cache /\ cache' \in (SUBSET Findings) \cup {None} /\ stale' \in BOOLEAN
  BY DEF Answered, CacheUnchanged, GateInv, GateTypes
<1>2. NoGateCall.budget = None /\ NoGateCall.at = "idle"
  BY DEF NoGateCall
<1> QED
  BY <1>1, <1>2, NoGateCallTyped, NoCallAllowed, CallStep

-----------------------------------------------------------------------------
(* Budgets, the cache and the policies.                                     *)

LEMMA CreateBudgetKeeps ==
  ASSUME GateInv, NEW limit \in Limits, NEW hard \in BOOLEAN, NEW covers \in BOOLEAN,
         CreateBudget(limit, hard, covers)
  PROVE  GateInv'
<1>1. budget' \in Budget /\ budget' # None /\ budget'.spent = 0
  BY DEF CreateBudget, Budget
<1>2. GateTypes'
  BY <1>1 DEF CreateBudget, GateInv, GateTypes, PoliciesUnchanged, RateUnchanged, CacheUnchanged
<1>3. SpendInv'
  BY <1>1 DEF CreateBudget, GateInv, GateTypes, SpendInv
<1>4. RateInv'
  BY DEF CreateBudget, GateInv, RateInv, RateUnchanged
<1>5. PolicyInv'
  BY SameModes DEF CreateBudget, GateInv, PolicyInv, PoliciesUnchanged, CacheUnchanged, CallAllowed
<1> QED
  BY <1>2, <1>3, <1>4, <1>5 DEF GateInv

LEMMA OpenBudgetKeeps ==
  ASSUME GateInv, NEW t \in Threads, OpenBudget(t)
  PROVE  GateInv'
<1> DEFINE call == [NoGateCall EXCEPT !.at = "patch", !.budget = budget]
<1>1. /\ GateMove(t, call) /\ BudgetUnchanged /\ PoliciesUnchanged /\ RateUnchanged
      /\ cache' = cache /\ cache' \in (SUBSET Findings) \cup {None} /\ stale' \in BOOLEAN
  BY DEF OpenBudget, CacheUnchanged, GateInv, GateTypes
<1>2. call \in GateCall
  BY NoGateCallTyped DEF GateInv, GateTypes, NoGateCall, GateCall, GateLabels
<1>3. call.budget = budget /\ budget # None /\ call.at = "patch" /\ CallAllowed(call)
  BY DEF NoGateCall, CallAllowed, OpenBudget
<1> HIDE DEF call
<1> QED
  BY <1>1, <1>2, <1>3, CallStep

LEMMA PatchBudgetKeeps ==
  ASSUME GateInv, NEW t \in Threads, NEW limit \in Limits, NEW spent \in Spends \cup {None},
         NEW hard \in BOOLEAN, NEW covers \in BOOLEAN, PatchBudget(t, limit, spent, hard, covers)
  PROVE  GateInv'
<1> DEFINE c == gateCall[t]
           saved == IF spent = None THEN c.budget.spent ELSE spent
<1>1. /\ GateMove(t, NoGateCall) /\ PoliciesUnchanged /\ RateUnchanged /\ cache' = cache /\ stale' = stale
      /\ budget' = [limit |-> limit, hard |-> hard, covers |-> covers, spent |-> saved]
      /\ charged' = charged /\ due' = (IF spent = None THEN due ELSE spent)
      /\ adjusted' = (IF spent # None /\ spent > adjusted THEN spent ELSE adjusted)
      /\ uncounted' = (uncounted \/ budget # c.budget)
  BY DEF PatchBudget, CacheUnchanged, Stale
<1>2. /\ c.budget \in Budget /\ c.budget.spent \in Nat /\ c.budget.spent <= adjusted + charged
      /\ charged \in Nat /\ adjusted \in Nat /\ due \in Nat /\ uncounted \in BOOLEAN
  <2>1. c.at = "patch"
    BY DEF PatchBudget
  <2>2. c.budget # None
    BY <2>1 DEF GateInv, SpendInv
  <2> QED
    BY <2>2, CallFields DEF GateInv, GateTypes, SpendInv
<1>3. saved \in Nat /\ saved <= adjusted' + charged' /\ adjusted' \in Nat /\ adjusted <= adjusted' /\ due' \in Nat
  BY <1>1, <1>2
<1>4. budget' \in Budget /\ budget' # None /\ budget'.spent = saved
  BY <1>1, <1>3 DEF Budget
<1>5. /\ gateCall' \in [Threads -> GateCall] /\ gateCall'[t] = NoGateCall
      /\ \A u \in Threads : u # t => gateCall'[u] = gateCall[u]
  BY <1>1, NoGateCallTyped, MoveKeeps
<1>6. NoGateCall.budget = None /\ NoGateCall.at = "idle"
  BY DEF NoGateCall
<1>7. GateTypes'
  <2>1. uncounted' \in BOOLEAN
    BY <1>1, <1>2
  <2> QED
    BY <1>1, <1>2, <1>3, <1>4, <1>5, <2>1 DEF GateInv, GateTypes, PoliciesUnchanged, RateUnchanged
<1>8. SpendInv'
  <2>1. uncounted' \/ saved = due'
    <3>1. CASE budget = c.budget
      <4>1. budget # None
        BY <1>2, <3>1 DEF Budget
      <4> QED
        BY <1>1, <3>1, <4>1 DEF GateInv, SpendInv
    <3>2. CASE budget # c.budget
      BY <1>1, <3>2
    <3> QED
      BY <3>1, <3>2
  <2>2. ASSUME NEW u \in Threads, gateCall'[u].budget # None
        PROVE  gateCall'[u].budget.spent <= adjusted' + charged'
    <3>1. u # t /\ gateCall'[u] = gateCall[u]
      BY <1>5, <1>6, <2>2
    <3>2. gateCall[u].budget.spent \in Nat /\ gateCall[u].budget.spent <= adjusted + charged
      BY <2>2, <3>1, CallFields
    <3> HIDE DEF saved
    <3> QED
      BY <1>1, <1>2, <1>3, <3>1, <3>2
  <2>3. \A u \in Threads : gateCall'[u].at = "patch" => gateCall'[u].budget # None
    BY <1>5, <1>6 DEF GateInv, SpendInv
  <2> HIDE DEF saved
  <2> QED
    BY <1>3, <1>4, <2>1, <2>2, <2>3 DEF SpendInv
<1>9. RateInv' /\ PolicyInv'
  BY <1>1, <1>6, NoGateCallTyped, NoCallAllowed, RateKept, PolicyKept
<1> QED
  BY <1>7, <1>8, <1>9 DEF GateInv

LEMMA PurgeBudgetKeeps ==
  ASSUME GateInv, PurgeBudget
  PROVE  GateInv'
<1>1. GateTypes'
  BY DEF PurgeBudget, GateInv, GateTypes, PoliciesUnchanged, RateUnchanged, CacheUnchanged
<1>2. SpendInv' /\ RateInv'
  BY DEF PurgeBudget, GateInv, SpendInv, RateInv, RateUnchanged
<1>3. PolicyInv'
  BY SameModes DEF PurgeBudget, GateInv, PolicyInv, PoliciesUnchanged, CacheUnchanged, CallAllowed
<1> QED
  BY <1>1, <1>2, <1>3 DEF GateInv

LEMMA PutRateLimitKeeps ==
  ASSUME GateInv, NEW limit \in RateLimits, PutRateLimit(limit)
  PROVE  GateInv'
<1>1. GateTypes'
  BY DEF PutRateLimit, GateInv, GateTypes, PoliciesUnchanged, BudgetUnchanged, CacheUnchanged
<1>2. SpendInv' /\ RateInv'
  BY DEF PutRateLimit, GateInv, SpendInv, RateInv, BudgetUnchanged
<1>3. PolicyInv'
  BY SameModes DEF PutRateLimit, GateInv, PolicyInv, PoliciesUnchanged, CacheUnchanged, CallAllowed
<1> QED
  BY <1>1, <1>2, <1>3 DEF GateInv

LEMMA ClearCacheKeeps ==
  ASSUME GateInv, ClearCache
  PROVE  GateInv'
<1>1. GateTypes'
  BY DEF ClearCache, GateInv, GateTypes, PoliciesUnchanged, RateUnchanged, BudgetUnchanged
<1>2. SpendInv' /\ RateInv'
  BY DEF ClearCache, GateInv, SpendInv, RateInv, RateUnchanged, BudgetUnchanged
<1>3. PolicyInv'
  BY SameModes DEF ClearCache, GateInv, PolicyInv, PoliciesUnchanged, CallAllowed
<1> QED
  BY <1>1, <1>2, <1>3 DEF GateInv

LEMMA SetModeKeeps ==
  ASSUME GateInv, NEW f \in Findings, NEW m \in Modes, SetMode(f, m)
  PROVE  GateInv'
<1>1. GateTypes'
  BY DEF SetMode, GateInv, GateTypes, CacheUnchanged, RateUnchanged, BudgetUnchanged
<1>2. SpendInv' /\ RateInv'
  BY DEF SetMode, GateInv, SpendInv, RateInv, RateUnchanged, BudgetUnchanged
<1>3. PolicyInv'
  BY DEF SetMode, PolicyInv
<1> QED
  BY <1>1, <1>2, <1>3 DEF GateInv

LEMMA EntryExpiresKeeps ==
  ASSUME GateInv, EntryExpires
  PROVE  GateInv'
<1>1. GateTypes'
  BY DEF EntryExpires, GateInv, GateTypes, PoliciesUnchanged, RateUnchanged, BudgetUnchanged
<1>2. SpendInv' /\ RateInv'
  BY DEF EntryExpires, GateInv, SpendInv, RateInv, RateUnchanged, BudgetUnchanged
<1>3. PolicyInv'
  BY SameModes DEF EntryExpires, GateInv, PolicyInv, PoliciesUnchanged, CallAllowed
<1> QED
  BY <1>1, <1>2, <1>3 DEF GateInv

LEMMA MinutePassesKeeps ==
  ASSUME GateInv, MinutePasses
  PROVE  GateInv'
<1>1. \A t \in Threads : gateCall'[t] =
        IF gateCall[t].at = "count" THEN [gateCall[t] EXCEPT !.current = FALSE] ELSE gateCall[t]
  BY DEF MinutePasses
<1>2. \A t \in Threads : /\ gateCall'[t] \in GateCall
                         /\ gateCall'[t].at = gateCall[t].at /\ gateCall'[t].budget = gateCall[t].budget
                         /\ gateCall'[t].found = gateCall[t].found /\ gateCall'[t].decision = gateCall[t].decision
                         /\ gateCall'[t].reply = gateCall[t].reply
                         /\ gateCall'[t].at = "count" => ~gateCall'[t].current
  <2> TAKE t \in Threads
  <2>1. gateCall[t] \in GateCall
    BY DEF GateInv, GateTypes
  <2>2. CASE gateCall[t].at = "count"
    <3>1. gateCall'[t] = [gateCall[t] EXCEPT !.current = FALSE]
      BY <1>1, <2>2
    <3> QED
      BY <2>1, <3>1 DEF GateCall
  <2>3. CASE gateCall[t].at # "count"
    BY <1>1, <2>1, <2>3
  <2> QED
    BY <2>2, <2>3
<1>3. GateTypes'
  <2>1. gateCall' \in [Threads -> GateCall]
    BY <1>2 DEF MinutePasses
  <2> QED
    BY <2>1 DEF MinutePasses, GateInv, GateTypes, PoliciesUnchanged, CacheUnchanged, BudgetUnchanged
<1>4. SpendInv'
  BY <1>2 DEF MinutePasses, GateInv, SpendInv, BudgetUnchanged
<1>5. RateInv'
  BY <1>2 DEF MinutePasses, RateInv
<1>6. PolicyInv'
  BY <1>2, SameModes DEF MinutePasses, GateInv, PolicyInv, PoliciesUnchanged, CacheUnchanged, CallAllowed
<1> QED
  BY <1>3, <1>4, <1>5, <1>6 DEF GateInv

-----------------------------------------------------------------------------
LEMMA GateStep == GateInv /\ [GateNext]_gateVars => GateInv'
<1> SUFFICES ASSUME GateInv, [GateNext]_gateVars PROVE GateInv'
  OBVIOUS
<1>1. CASE GateNext
  BY <1>1, AdmitKeeps, CountKeeps, LookUpKeeps, ExpireKeeps, HitKeeps, AttemptFailsKeeps, AnswerKeeps,
     AddSpendKeeps, StoreKeeps, AnsweredKeeps, OpenBudgetKeeps, PatchBudgetKeeps, CreateBudgetKeeps,
     PurgeBudgetKeeps, PutRateLimitKeeps,
     SetModeKeeps, ClearCacheKeeps, EntryExpiresKeeps, MinutePassesKeeps DEF GateNext
<1>2. CASE UNCHANGED gateVars
  <2>1. GateTypes' /\ SpendInv' /\ RateInv'
    BY <1>2 DEF gateVars, GateInv, GateTypes, SpendInv, RateInv
  <2>2. PolicyInv'
    BY <1>2, SameModes DEF gateVars, GateInv, PolicyInv, CallAllowed
  <2> QED
    BY <2>1, <2>2 DEF GateInv
<1> QED
  BY <1>1, <1>2

LEMMA GateInvariant == GateSpec => []GateInv
<1>1. GateInit => GateInv
  BY GateInitHolds
<1>2. GateInv /\ [GateNext]_gateVars => GateInv'
  BY GateStep
<1> QED
  BY <1>1, <1>2, PTL DEF GateSpec

\* Budgets, counts, the cache and the calls keep their types.
THEOREM GatewayTypes == GateSpec => []GateTypeOK
<1>1. GateInv => GateTypeOK
  BY DEF GateInv, GateTypes, RateInv, GateTypeOK, GateCall
<1> QED
  BY <1>1, GateInvariant, PTL

\* The budget spends no more than was written into it and charged, whatever
\* overlaps, and exactly that unless a save went over another.
THEOREM BudgetIsCharged == GateSpec => []SpendIsCharged
<1>1. GateInv => SpendIsCharged
  BY DEF GateInv, SpendInv, SpendIsCharged
<1> QED
  BY <1>1, GateInvariant, PTL

\* The rate limit holds in every minute in which no count went over another.
THEOREM MinuteIsLimited == GateSpec => []RateLimitHolds
<1>1. GateInv => RateLimitHolds
  BY DEF GateInv, RateInv, RateLimitHolds
<1> QED
  BY <1>1, GateInvariant, PTL

\* As long as no mode changes, no blocked answer is returned.
THEOREM BlockedIsWithheld == GateSpec => []BlockedAnswerWithheld
<1>1. GateInv => BlockedAnswerWithheld
  BY DEF GateInv, PolicyInv, CallAllowed, BlockedAnswerWithheld
<1> QED
  BY <1>1, GateInvariant, PTL
=============================================================================
