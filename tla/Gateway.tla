------------------------------- MODULE Gateway -------------------------------
(***************************************************************************)
(* The AI gateway of one workspace and environment (app/main.py):          *)
(* gateway_chat_completions checks the prompt's policies, the budget and   *)
(* the rate limit, looks in the exact-match cache, and otherwise calls     *)
(* providers until one answers; then it checks the answer's policies.      *)
(* Budget, counter and cache entry are read and saved whole, without a     *)
(* lock.  All requests are one prompt under one API key, so they share the *)
(* counter of a minute and the cache entry.  Traces, logs and metrics are  *)
(* written beside each reply and left out; Providers has the connections.  *)
(*                                                                         *)
(* A definition marked "Faulty variant" belongs to no specification.       *)
(***************************************************************************)
EXTENDS Naturals, FiniteSets, Server

CONSTANTS
  Findings,      \* what detect_policy_findings may find in an answer, one policy each
  Critical,      \* the findings of severity Critical
  Limits,        \* limitUsd of a budget, in units of cost
  Costs,         \* what an answer may cost
  Spends,        \* what an operator writes into spentUsd of a budget
  RateLimits,    \* rateLimitPerMinute an operator gives the routing policy
  Attempts,      \* calls of providers before a request fails: providers times retryAttempts
  MaxCharge,     \* charges after which no provider is called (a bound)
  MaxCalls       \* requests checked in one minute (a bound)

ASSUME GatewayAssumption ==
  /\ Critical \subseteq Findings /\ Costs \subseteq Nat /\ Limits \subseteq Nat
  /\ Spends \subseteq Nat /\ RateLimits \subseteq Nat
  /\ Attempts \in Nat /\ MaxCalls \in Nat
  /\ None \notin Nat
  /\ None \notin [limit : Limits, spent : Nat, hard : BOOLEAN, covers : BOOLEAN]

VARIABLES
  budget,        \* gateway_budgets: one record, None when it is not stored
  rate,          \* gateway_rate_limit_events: count of the current minute
  perMinute,     \* gateway_routing_policies "default": rateLimitPerMinute
  cache,         \* gateway_cache_entries: the entry of the prompt
  stale,         \* the entry's expiresAt has passed
  mode,          \* policies: the mode of each finding's policy
  gateCall,      \* per thread: the request it serves
  charged,       \* history variable: cost of all answers charged
  adjusted,      \* history variable: the highest spentUsd an operator wrote
  due,           \* history variable: what was last written into spentUsd (0 at the
                 \* creation, None before) and the costs charged since
  passed,        \* history variable: requests of this minute that passed the rate limit
  top,           \* history variable: the highest limit they were compared with
  miscounted,    \* history variable: a count was saved over another in this minute
  uncounted,     \* history variable: a save of the budget went over another
  remoded        \* history variable: the mode of a policy was changed

gateVars == <<budget, rate, perMinute, cache, stale, mode, gateCall,
              charged, adjusted, due, passed, top, miscounted, uncounted, remoded>>

-----------------------------------------------------------------------------
Modes == {"monitor", "review", "block"}
\* hard: hardLimitEnabled; covers: environment is the gateway's, or "all".
Budget == [limit : Limits, spent : Nat, hard : BOOLEAN, covers : BOOLEAN]
Decisions == {"allow", "review", "block"}
NoGateCall == [at |-> "idle", budget |-> None, est |-> None, count |-> 0, limit |-> 0,
               current |-> TRUE, tries |-> 0, cost |-> None, found |-> {}, decision |-> "allow", reply |-> None]

\* evaluate_gateway_policy: a policy that blocks, or reviews a critical
\* finding, blocks; policies in monitor mode do not count.
Evaluate(found) ==
  IF \E f \in found : mode[f] = "block" \/ (mode[f] = "review" /\ f \in Critical) THEN "block"
  ELSE IF \E f \in found : mode[f] = "review" THEN "review"
  ELSE "allow"

\* active_gateway_budget.
ActiveBudget == IF budget # None /\ budget.covers THEN budget ELSE None

\* gateway_budget_decision: the hard limit; a soft limit, or one that is not
\* enabled, only labels a reply.
OverBudget(b, est) == b # None /\ est # None /\ b.hard /\ b.spent + est > b.limit

GateInit ==
  /\ budget = None
  /\ rate = 0
  /\ perMinute \in RateLimits
  /\ cache = None
  /\ stale = FALSE
  /\ mode \in [Findings -> Modes]
  /\ gateCall = [t \in Threads |-> NoGateCall]
  /\ charged = 0
  /\ adjusted = 0
  /\ due = None
  /\ passed = 0
  /\ top = 0
  /\ miscounted = FALSE
  /\ uncounted = FALSE
  /\ remoded = FALSE

GateMove(t, call) == gateCall' = [gateCall EXCEPT ![t] = call]
Reply(t, code, decision) == GateMove(t, [NoGateCall EXCEPT !.at = "reply", !.reply = code, !.decision = decision])
RateUnchanged == UNCHANGED <<rate, perMinute, passed, top, miscounted>>
CacheUnchanged == UNCHANGED <<cache, stale>>
BudgetUnchanged == UNCHANGED <<budget, charged, adjusted, due, uncounted>>
PoliciesUnchanged == UNCHANGED <<mode, remoded>>

-----------------------------------------------------------------------------
\* The prompt is checked first (403), then the providers (503), then the
\* budget (402); the request keeps the budget and the routing policy it read,
\* and reads the counter.
Admit(t, found, est, configured) ==
  /\ gateCall[t].at = "idle"
  /\ IF Evaluate(found) = "block" THEN Reply(t, 403, "block")
     ELSE IF ~configured THEN Reply(t, 503, "review")
     ELSE IF OverBudget(ActiveBudget, est) THEN Reply(t, 402, "block")
     ELSE GateMove(t, [NoGateCall EXCEPT !.at = "count", !.budget = ActiveBudget, !.est = est, !.count = rate,
                                         !.limit = perMinute, !.decision = Evaluate(found)])
  /\ BudgetUnchanged /\ PoliciesUnchanged /\ RateUnchanged /\ CacheUnchanged

\* Faulty variant: the limit is compared with the count before this request.
CountOneMore(t) ==
  LET c == gateCall[t] IN
  /\ c.at = "count" /\ c.current /\ rate < MaxCalls
  /\ rate' = c.count + 1
  /\ miscounted' = (miscounted \/ Stale(rate, c.count))
  /\ passed' = IF c.count <= c.limit THEN passed + 1 ELSE passed
  /\ top' = IF c.limit > top THEN c.limit ELSE top
  /\ IF c.count <= c.limit THEN GateMove(t, [c EXCEPT !.at = "look", !.count = 0, !.limit = 0])
                           ELSE Reply(t, 429, "block")
  /\ UNCHANGED perMinute /\ BudgetUnchanged /\ PoliciesUnchanged /\ CacheUnchanged

\* check_gateway_rate_limit saves one more than it read, under the minute it
\* read; 429 above the limit of the routing policy the request read.
Count(t) ==
  LET c == gateCall[t]
      allowed == c.count + 1 <= c.limit
  IN
  /\ c.at = "count"
  /\ IF c.current
       THEN /\ rate < MaxCalls
            /\ rate' = c.count + 1
            /\ miscounted' = (miscounted \/ Stale(rate, c.count))
            /\ passed' = IF allowed THEN passed + 1 ELSE passed
            /\ top' = IF c.limit > top THEN c.limit ELSE top
            /\ UNCHANGED perMinute
       ELSE RateUnchanged
  /\ IF allowed THEN GateMove(t, [c EXCEPT !.at = "look", !.count = 0, !.limit = 0, !.current = TRUE])
                ELSE Reply(t, 429, "block")
  /\ BudgetUnchanged /\ PoliciesUnchanged /\ CacheUnchanged

\* gateway_cache_hit reads the entry, unless the routing policy has no cache.
LookUp(t) ==
  LET c == gateCall[t] IN
  /\ c.at = "look"
  /\ \/ cache # None /\ ~stale /\ GateMove(t, [c EXCEPT !.at = "hit", !.found = cache])
     \/ cache # None /\ stale /\ GateMove(t, [c EXCEPT !.at = "expire"])
     \/ GateMove(t, [c EXCEPT !.at = "route", !.tries = Attempts])
  /\ BudgetUnchanged /\ PoliciesUnchanged /\ RateUnchanged /\ CacheUnchanged

\* A hit saves the entry with its new hitCount, also after it was cleared; an
\* expired one is deleted.
Expire(t) ==
  /\ gateCall[t].at = "expire"
  /\ cache' = None /\ stale' = FALSE
  /\ GateMove(t, [gateCall[t] EXCEPT !.at = "route", !.tries = Attempts])
  /\ BudgetUnchanged /\ PoliciesUnchanged /\ RateUnchanged

\* The cached answer is checked again, labelled with the decision, and
\* returned whatever the decision is.
Hit(t) ==
  LET c == gateCall[t]
      post == Evaluate(c.found)
  IN
  /\ c.at = "hit"
  /\ cache' = c.found /\ UNCHANGED stale
  /\ Reply(t, 200, IF post # "allow" THEN post ELSE c.decision)
  /\ BudgetUnchanged /\ PoliciesUnchanged /\ RateUnchanged

\* route_gateway_provider: an attempt fails, and the next provider or attempt
\* follows, 502 after the last ...
AttemptFails(t) ==
  LET c == gateCall[t] IN
  /\ c.at = "route"
  /\ IF c.tries > 1 THEN GateMove(t, [c EXCEPT !.tries = @ - 1]) ELSE Reply(t, 502, "review")
  /\ BudgetUnchanged /\ PoliciesUnchanged /\ RateUnchanged /\ CacheUnchanged

\* ... or it answers: the answer's policies are read, and its cost is known
\* from its usage, or is the estimate.
Answer(t, found, actual) ==
  LET c == gateCall[t]
      post == Evaluate(found)
  IN
  /\ c.at = "route"
  /\ charged < MaxCharge
  /\ GateMove(t, [NoGateCall EXCEPT !.at = "spend", !.budget = c.budget, !.found = found,
                    !.cost = IF actual # None THEN actual ELSE c.est,
                    !.decision = IF post # "allow" THEN post ELSE c.decision,
                    !.reply = IF post = "block" THEN 403 ELSE 200])
  /\ BudgetUnchanged /\ PoliciesUnchanged /\ RateUnchanged /\ CacheUnchanged

\* Faulty variant: the cost is added to the budget and again to what is left.
SpendTwice(t) ==
  LET c == gateCall[t] IN
  /\ c.at = "spend"
  /\ IF c.budget = None \/ c.cost = None
       THEN BudgetUnchanged
       ELSE /\ budget' = [c.budget EXCEPT !.spent = @ + 2 * c.cost]
            /\ charged' = charged + c.cost
            /\ due' = due + c.cost
            /\ uncounted' = (uncounted \/ Stale(budget, c.budget))
            /\ UNCHANGED adjusted
  /\ GateMove(t, [c EXCEPT !.at = "store", !.budget = None, !.cost = None])
  /\ PoliciesUnchanged /\ RateUnchanged /\ CacheUnchanged

\* add_gateway_budget_spend: the budget as it was read before the call, also
\* over a patch or a purge.
AddSpend(t) ==
  LET c == gateCall[t] IN
  /\ c.at = "spend"
  /\ IF c.budget = None \/ c.cost = None
       THEN BudgetUnchanged
       ELSE /\ budget' = [c.budget EXCEPT !.spent = @ + c.cost]
            /\ charged' = charged + c.cost
            /\ due' = due + c.cost
            /\ uncounted' = (uncounted \/ Stale(budget, c.budget))
            /\ UNCHANGED adjusted
  /\ GateMove(t, [c EXCEPT !.at = "store", !.budget = None, !.cost = None])
  /\ PoliciesUnchanged /\ RateUnchanged /\ CacheUnchanged

\* Faulty variant: every answer is cached.
StoreAny(t) ==
  LET c == gateCall[t] IN
  /\ c.at = "store"
  /\ cache' = c.found /\ stale' = FALSE
  /\ Reply(t, c.reply, c.decision)
  /\ BudgetUnchanged /\ PoliciesUnchanged /\ RateUnchanged

\* save_gateway_cache_entry, for an allowed answer when the cache is enabled;
\* then the reply, 403 for an answer that is blocked.
Store(t) ==
  LET c == gateCall[t] IN
  /\ c.at = "store"
  /\ \/ c.decision = "allow" /\ cache' = c.found /\ stale' = FALSE
     \/ CacheUnchanged
  /\ Reply(t, c.reply, c.decision)
  /\ BudgetUnchanged /\ PoliciesUnchanged /\ RateUnchanged

Answered(t) ==
  /\ gateCall[t].at = "reply"
  /\ GateMove(t, NoGateCall)
  /\ BudgetUnchanged /\ PoliciesUnchanged /\ RateUnchanged /\ CacheUnchanged

-----------------------------------------------------------------------------
\* save_gateway_budget: one budget, for each creation has an id of its own.
CreateBudget(limit, hard, covers) ==
  /\ due = None
  /\ budget' = [limit |-> limit, spent |-> 0, hard |-> hard, covers |-> covers]
  /\ due' = 0
  /\ UNCHANGED <<charged, adjusted, uncounted, gateCall>>
  /\ PoliciesUnchanged /\ RateUnchanged /\ CacheUnchanged

\* patch_gateway_budget reads the budget, and saves it whole with whatever fields
\* the request names, spentUsd too (spent is None if it does not name it).  A
\* request that names another id saves a copy and leaves this record alone.
OpenBudget(t) ==
  /\ gateCall[t].at = "idle" /\ budget # None
  /\ GateMove(t, [NoGateCall EXCEPT !.at = "patch", !.budget = budget])
  /\ BudgetUnchanged /\ PoliciesUnchanged /\ RateUnchanged /\ CacheUnchanged

PatchBudget(t, limit, spent, hard, covers) ==
  LET read == gateCall[t].budget IN
  /\ gateCall[t].at = "patch"
  /\ budget' = [limit |-> limit, hard |-> hard, covers |-> covers,
                spent |-> IF spent = None THEN read.spent ELSE spent]
  /\ due' = IF spent = None THEN due ELSE spent
  /\ adjusted' = IF spent # None /\ spent > adjusted THEN spent ELSE adjusted
  /\ uncounted' = (uncounted \/ Stale(budget, read))
  /\ GateMove(t, NoGateCall)
  /\ UNCHANGED charged /\ PoliciesUnchanged /\ RateUnchanged /\ CacheUnchanged

\* A purge of domain gateway_budgets (Governance).
PurgeBudget ==
  /\ budget # None
  /\ budget' = None
  /\ UNCHANGED <<charged, adjusted, due, uncounted, gateCall>>
  /\ PoliciesUnchanged /\ RateUnchanged /\ CacheUnchanged

\* save_gateway_routing_policy, of which only the limit matters here.
PutRateLimit(limit) ==
  /\ perMinute # limit
  /\ perMinute' = limit
  /\ UNCHANGED <<rate, passed, top, miscounted, gateCall>>
  /\ BudgetUnchanged /\ PoliciesUnchanged /\ CacheUnchanged

\* clear_gateway_cache, or a purge of domain gateway_cache_entries.
ClearCache ==
  /\ cache # None
  /\ cache' = None /\ stale' = FALSE
  /\ UNCHANGED gateCall /\ BudgetUnchanged /\ PoliciesUnchanged /\ RateUnchanged

\* patch_policy, or a purge of domain policies: a policy that is disabled or gone
\* monitors.
SetMode(f, m) ==
  /\ mode[f] # m
  /\ mode' = [mode EXCEPT ![f] = m]
  /\ remoded' = TRUE
  /\ UNCHANGED gateCall /\ BudgetUnchanged /\ CacheUnchanged /\ RateUnchanged

EntryExpires ==
  /\ cache # None /\ ~stale
  /\ stale' = TRUE
  /\ UNCHANGED <<gateCall, cache>> /\ BudgetUnchanged /\ PoliciesUnchanged /\ RateUnchanged

MinutePasses ==
  /\ rate > 0
  /\ rate' = 0 /\ passed' = 0 /\ top' = 0 /\ miscounted' = FALSE /\ UNCHANGED perMinute
  /\ gateCall' = [t \in Threads |-> IF gateCall[t].at = "count" THEN [gateCall[t] EXCEPT !.current = FALSE]
                                                               ELSE gateCall[t]]
  /\ BudgetUnchanged /\ PoliciesUnchanged /\ CacheUnchanged

GateNext ==
  \/ \E t \in Threads :
       \/ \E found \in SUBSET Findings, est \in Costs \cup {None}, up \in BOOLEAN : Admit(t, found, est, up)
       \/ \E found \in SUBSET Findings, actual \in Costs \cup {None} : Answer(t, found, actual)
       \/ \E limit \in Limits, spent \in Spends \cup {None}, hard, covers \in BOOLEAN :
            PatchBudget(t, limit, spent, hard, covers)
       \/ Count(t) \/ LookUp(t) \/ Expire(t) \/ Hit(t) \/ AttemptFails(t)
       \/ AddSpend(t) \/ Store(t) \/ Answered(t) \/ OpenBudget(t)
  \/ \E limit \in Limits, hard, covers \in BOOLEAN : CreateBudget(limit, hard, covers)
  \/ \E limit \in RateLimits : PutRateLimit(limit)
  \/ \E f \in Findings, m \in Modes : SetMode(f, m)
  \/ PurgeBudget \/ ClearCache \/ EntryExpires \/ MinutePasses

\* The parts of the runs: requests of one minute under a budget, in whose answers
\* nothing is found; requests that are counted, while the limit changes; and
\* requests without a known cost, with a cache, while policies change.
SpendNext == GateNext /\ UNCHANGED <<cache, mode, perMinute>> /\ rate' >= rate /\ \A t \in Threads : gateCall'[t].found = {}
RateNext == GateNext /\ UNCHANGED <<budget, cache, mode>>
CacheNext == GateNext /\ UNCHANGED <<budget, perMinute>> /\ \A t \in Threads : {gateCall'[t].est, gateCall'[t].cost} = {None}
GateSpec == GateInit /\ [][GateNext]_gateVars

-----------------------------------------------------------------------------
GateTypeOK ==
  /\ budget \in Budget \cup {None}
  /\ due \in Nat \cup {None}
  /\ rate \in 0..MaxCalls
  /\ perMinute \in RateLimits
  /\ cache = None \/ cache \subseteq Findings
  /\ mode \in [Findings -> Modes]
  /\ \A t \in Threads : gateCall[t].decision \in Decisions
  /\ {stale, miscounted, uncounted, remoded} \subseteq BOOLEAN

(* The budget has spent no more than the highest value an operator wrote    *)
(* into it and the answers charged, and exactly what was last written and   *)
(* charged since, unless a save went over another: add_gateway_budget_spend *)
(* and patch_gateway_budget write the budget as they read it.               *)
SpendIsCharged ==
  budget # None => /\ budget.spent <= adjusted + charged
                   /\ uncounted \/ budget.spent = due

(* No more requests of a minute pass than the highest limit they were       *)
(* compared with, unless two of them saved the same count: the routing      *)
(* policy may change within the minute.                                     *)
RateLimitHolds == miscounted \/ passed <= top

(* An answer that the policies block is not returned: a provider's answer   *)
(* never (403), a cached one only if a policy's mode was changed, for only  *)
(* allowed answers are cached.                                              *)
BlockedAnswerWithheld ==
  \A t \in Threads : gateCall[t].reply = 200 /\ gateCall[t].decision = "block" => remoded
=============================================================================
