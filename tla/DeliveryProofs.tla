---------------------------- MODULE DeliveryProofs ----------------------------
(* Theorems about Connectors, TraceIngest and GuardedTool, where a message   *)
(* or a batch may come twice, each under its own specification, for every    *)
(* value of their constants.                                                 *)
EXTENDS GuardedTool, Connectors, TraceIngest, Integers, WellFoundedInduction,
        FiniteSetTheorems, TLAPS

USE ServerAssumption

-----------------------------------------------------------------------------
(* A non-empty set of naturals has a least element, and a bounded one a greatest. *)
LEMMA LeastExists ==
  ASSUME NEW S, S \subseteq Nat, S # {}
  PROVE  \E x \in S : \A y \in S : x <= y
<1>1. PICK x \in S : \A y \in S : <<y, x>> \notin OpToRel(<, Nat)
  BY WFMin, NatLessThanWellFounded, Zenon
<1>2. \A y \in S : ~ (y < x)
  BY <1>1, Zenon DEF OpToRel
<1> QED
  BY <1>2

LEMMA GreatestExists ==
  ASSUME NEW n \in Nat, NEW S, S \subseteq 0..n, S # {}
  PROVE  \E x \in S : \A y \in S : y <= x
<1> DEFINE T == {n - x : x \in S}
<1>1. T \subseteq Nat
  OBVIOUS
<1>2. T # {}
  BY Zenon
<1> HIDE DEF T
<1>3. PICK m \in T : \A y \in T : m <= y
  BY <1>1, <1>2, LeastExists
<1>4. PICK x \in S : m = n - x
  BY DEF T
<1>5. \A y \in S : n - y \in T
  BY DEF T
<1>6. \A y \in S : y <= x
  BY <1>3, <1>4, <1>5
<1> QED
  BY <1>6

-----------------------------------------------------------------------------
(* Connectors.                                                              *)

ConnTypes ==
  /\ deliveries \in Seq(Delivery)
  /\ accepted \in Seq(0..2) /\ Len(accepted) = Len(deliveries)
  /\ rules \in [Rules -> Rule]
  /\ events \in [Rules -> Nat]
  /\ purged \in [Rules -> Nat]
  /\ contended \subseteq Ids
  /\ connCall = [t \in Threads |-> connCall[t]]

\* The events of a rule that were ever saved.
Saved(r) == events[r] + purged[r]

\* A counter in rs, the rules as somebody read them, is not ahead of the events.
Behind(rs) == rs \in [Rules -> Rule] /\ \A r \in Rules : rs[r].runs <= Saved(r)

RunOK(t) ==
  LET c == connCall[t] IN
  /\ c.at \in {"idle", "run", "event", "count", "patch", "send", "comment", "sent"}
  /\ c.at \in {"run", "patch"} => c.todo \subseteq Rules /\ Behind(c.read)
  /\ c.at \in {"event", "count"} => c.todo \subseteq Rules /\ c.read.rule \in Rules /\ Behind(c.read.rules)
  /\ c.at = "count" => c.read.rules[c.read.rule].runs + 1 <= Saved(c.read.rule)

\* A record d was read as: the delivery, whatever its status was.
ReadOf(d, record) ==
  record \in Delivery /\ record.kind = deliveries[d].kind /\ record.dry = deliveries[d].dry

HoldOK(t) ==
  LET c == connCall[t] IN
  /\ Held(t) \subseteq Ids
  /\ c.at \in {"send", "comment"} => c.todo # {} /\ \A d \in c.todo : ReadOf(d, c.read[d])
  /\ c.at = "sent" => /\ c.read.of \in c.todo
                      /\ \A d \in c.todo : ReadOf(d, c.read.page[d])
                      /\ ReadOf(c.read.of, c.read.record)
                      /\ c.read.record.status = "delivered" => accepted[c.read.of] >= 1

\* A delivery a request holds: the receiver has not accepted it, but for one
\* whose outcome is known and not saved yet.
HolderOK(t, d) ==
  LET c == connCall[t] IN
  /\ deliveries[d].status # "delivered"
  /\ IF c.at = "sent" /\ c.read.of = d
       THEN ~deliveries[d].dry /\ accepted[d] = (IF c.read.record.status = "delivered" THEN 1 ELSE 0)
       ELSE accepted[d] = 0 /\ (c.at = "comment" \/ ~deliveries[d].dry)

\* A delivery nobody holds: its status tells.
FreeOK(d) ==
  /\ accepted[d] = (IF deliveries[d].status = "delivered" THEN 1 ELSE 0)
  /\ deliveries[d].dry => deliveries[d].status = "skipped"

SentOnce(d) ==
  /\ \A t, u \in Threads : d \in Held(t) /\ d \in Held(u) => t = u
  /\ \A t \in Threads : d \in Held(t) => HolderOK(t, d)
  /\ (\A t \in Threads : d \notin Held(t)) => FreeOK(d)

ConnInv ==
  /\ ConnTypes
  /\ Behind(rules)
  /\ \A t \in Threads : RunOK(t) /\ HoldOK(t)
  /\ \A d \in Ids : deliveries[d].status = "delivered" => accepted[d] >= 1
  /\ \A d \in Ids \ contended : SentOnce(d)

LEMMA ConnInitHolds == ConnInit => ConnInv
<1> SUFFICES ASSUME ConnInit PROVE ConnInv
  OBVIOUS
<1>1. Ids = {}
  BY DEF ConnInit, Ids
<1>2. ConnTypes /\ Behind(rules)
  BY <1>1 DEF ConnInit, ConnTypes, Behind, Saved, Rule
<1>3. \A t \in Threads : connCall[t] = NoConnCall
  BY DEF ConnInit
<1>4. \A t \in Threads : RunOK(t) /\ HoldOK(t)
  BY <1>3 DEF RunOK, HoldOK, NoConnCall, Held
<1> QED
  BY <1>1, <1>2, <1>4 DEF ConnInv

\* What a step leaves of the deliveries: their kinds, and what was accepted.
Extended ==
  /\ deliveries' \in Seq(Delivery)
  /\ accepted' \in Seq(0..2) /\ Len(accepted') = Len(deliveries')
  /\ Ids \subseteq Ids'
  /\ contended \subseteq contended' /\ contended' \subseteq Ids'
  /\ \A d \in Ids : /\ deliveries'[d].kind = deliveries[d].kind /\ deliveries'[d].dry = deliveries[d].dry
                    /\ accepted'[d] >= accepted[d]
EventsGrow ==
  /\ events' \in [Rules -> Nat] /\ purged' \in [Rules -> Nat]
  /\ \A r \in Rules : Saved(r) <= Saved(r)'

LEMMA SavedIsNat ==
  ASSUME ConnTypes, NEW r \in Rules
  PROVE  Saved(r) \in Nat
  BY DEF ConnTypes, Saved

LEMMA BehindKept ==
  ASSUME ConnTypes, EventsGrow, NEW rs, Behind(rs)
  PROVE  Behind(rs)'
<1>1. rs \in [Rules -> Rule] /\ \A r \in Rules : rs[r].runs \in Nat /\ rs[r].runs <= Saved(r)
  BY DEF Behind, Rule
<1>2. \A r \in Rules : Saved(r) \in Nat /\ Saved(r)' \in Nat /\ Saved(r) <= Saved(r)'
  BY DEF EventsGrow, ConnTypes, Saved
<1>3. \A r \in Rules : rs[r].runs <= Saved(r)'
  BY <1>1, <1>2
<1> QED
  BY <1>1, <1>3 DEF Behind

LEMMA ReadKept ==
  ASSUME Extended, NEW d \in Ids, NEW record, ReadOf(d, record)
  PROVE  ReadOf(d, record)'
  BY DEF Extended, ReadOf

\* A thread that does not move keeps its promises.
LEMMA CallKept ==
  ASSUME ConnInv, Extended, EventsGrow, NEW u \in Threads, connCall'[u] = connCall[u]
  PROVE  RunOK(u)' /\ HoldOK(u)' /\ Held(u)' = Held(u)
<1> PICK c : c = connCall[u]
  OBVIOUS
<1>1. connCall'[u] = c /\ RunOK(u) /\ HoldOK(u) /\ ConnTypes
  BY DEF ConnInv
<1>2. Held(u)' = Held(u)
  BY DEF Held
<1>3. RunOK(u)'
  <2>1. c.at \in {"run", "patch"} => c.todo \subseteq Rules /\ Behind(c.read)'
    BY <1>1, BehindKept DEF RunOK
  <2>2. c.at \in {"event", "count"} => c.todo \subseteq Rules /\ c.read.rule \in Rules /\ Behind(c.read.rules)'
    BY <1>1, BehindKept DEF RunOK
  <2>3. c.at = "count" => c.read.rules[c.read.rule].runs + 1 <= Saved(c.read.rule)'
    <3> SUFFICES ASSUME c.at = "count" PROVE c.read.rules[c.read.rule].runs + 1 <= Saved(c.read.rule)'
      OBVIOUS
    <3> PICK r \in Rules : r = c.read.rule
      BY <1>1 DEF RunOK
    <3>1. c.read.rules[r].runs \in Nat
      BY <1>1 DEF RunOK, Behind, Rule
    <3>2. c.read.rules[r].runs + 1 <= Saved(r)
      BY <1>1 DEF RunOK
    <3>3. Saved(r) \in Nat /\ Saved(r)' \in Nat /\ Saved(r) <= Saved(r)'
      BY <1>1 DEF EventsGrow, ConnTypes, Saved
    <3>4. c.read.rules[r].runs + 1 <= Saved(r)'
      BY <3>1, <3>2, <3>3
    <3> QED
      BY <3>4
  <2> QED
    BY <1>1, <2>1, <2>2, <2>3 DEF RunOK
<1>4. HoldOK(u)'
  <2>1. Held(u)' \subseteq Ids'
    BY <1>1, <1>2 DEF HoldOK, Extended
  <2>2. c.at \in {"send", "comment"} => c.todo # {} /\ \A d \in c.todo : ReadOf(d, c.read[d])'
    BY <1>1, ReadKept DEF HoldOK, Held
  <2>3. c.at = "sent" => /\ c.read.of \in c.todo
                         /\ \A d \in c.todo : ReadOf(d, c.read.page[d])'
                         /\ ReadOf(c.read.of, c.read.record)'
    BY <1>1, ReadKept DEF HoldOK, Held
  <2>4. c.at = "sent" /\ c.read.record.status = "delivered" => accepted'[c.read.of] >= 1
    <3> SUFFICES ASSUME c.at = "sent", c.read.record.status = "delivered" PROVE accepted'[c.read.of] >= 1
      OBVIOUS
    <3> PICK d \in Ids : d = c.read.of
      BY <1>1 DEF HoldOK, Held
    <3>1. accepted[d] >= 1 /\ accepted'[d] >= accepted[d]
      BY <1>1 DEF HoldOK, Extended
    <3>2. accepted[d] \in 0..2 /\ accepted'[d] \in 0..2
      BY <1>1 DEF ConnTypes, Extended, Ids
    <3> QED
      BY <3>1, <3>2
  <2> QED
    BY <1>1, <2>1, <2>2, <2>3, <2>4 DEF HoldOK
<1> QED
  BY <1>2, <1>3, <1>4

\* A delivery that the step of t does not touch.
LEMMA SentOnceKept ==
  ASSUME ConnInv, Extended, EventsGrow, NEW d \in Ids \ contended, NEW t \in Threads,
         \A u \in Threads \ {t} : connCall'[u] = connCall[u],
         deliveries'[d] = deliveries[d], accepted'[d] = accepted[d],
         d \in Held(t)' <=> d \in Held(t),
         d \in Held(t) => HolderOK(t, d)'
  PROVE  SentOnce(d)'
<1>1. SentOnce(d)
  BY DEF ConnInv
<1>2. \A u \in Threads : d \in Held(u)' <=> d \in Held(u)
  BY CallKept
<1>3. \A u \in Threads : d \in Held(u)' => HolderOK(u, d)'
  <2> SUFFICES ASSUME NEW u \in Threads, d \in Held(u)', u # t PROVE HolderOK(u, d)'
    BY <1>2
  <2>1. HolderOK(u, d)
    BY <1>1, <1>2 DEF SentOnce
  <2> QED
    BY <2>1 DEF HolderOK
<1>4. (\A u \in Threads : d \notin Held(u)') => FreeOK(d)'
  BY <1>1, <1>2 DEF SentOnce, FreeOK
<1> QED
  BY <1>1, <1>2, <1>3, <1>4 DEF SentOnce

\* The parts of the invariant, put together after a step of t.
LEMMA StepKeeps ==
  ASSUME ConnInv, Extended, EventsGrow, rules' \in [Rules -> Rule], Behind(rules)',
         NEW t \in Threads, connCall' = [u \in Threads |-> connCall'[u]],
         \A u \in Threads \ {t} : connCall'[u] = connCall[u],
         RunOK(t)', HoldOK(t)',
         \A d \in Ids' : deliveries'[d].status = "delivered" => accepted'[d] >= 1,
         \A d \in Ids' \ contended' : SentOnce(d)'
  PROVE  ConnInv'
<1>1. ConnTypes'
  BY DEF ConnTypes, Extended, EventsGrow
<1>2. \A u \in Threads : RunOK(u)' /\ HoldOK(u)'
  BY CallKept
<1> QED
  BY <1>1, <1>2 DEF ConnInv

LEMMA MoveFacts ==
  ASSUME ConnInv, NEW t \in Threads, NEW at, NEW todo, NEW read, ConnMove(t, at, todo, read)
  PROVE  /\ connCall' = [u \in Threads |-> connCall'[u]]
         /\ connCall'[t] = [at |-> at, todo |-> todo, read |-> read]
         /\ connCall'[t].at = at /\ connCall'[t].todo = todo /\ connCall'[t].read = read
         /\ \A u \in Threads \ {t} : connCall'[u] = connCall[u]
  BY DEF ConnMove, ConnInv, ConnTypes

LEMMA StoredIsTyped ==
  ASSUME ConnInv, NEW d \in Ids
  PROVE  deliveries[d] \in Delivery /\ accepted[d] \in 0..2
<1>1. deliveries \in Seq(Delivery) /\ accepted \in Seq(0..2) /\ d \in 1..Len(deliveries) /\ d \in 1..Len(accepted)
  BY DEF ConnInv, ConnTypes, Ids
<1> QED
  BY <1>1

LEMMA SameDeliveries ==
  ASSUME ConnInv, DeliveriesUnchanged
  PROVE  Extended /\ Ids' = Ids
<1>1. Ids' = Ids
  BY DEF DeliveriesUnchanged, Ids
<1>2. \A d \in Ids : accepted[d] \in 0..2
  BY StoredIsTyped
<1>3. \A d \in Ids : accepted'[d] >= accepted[d]
  BY <1>2 DEF DeliveriesUnchanged
<1>4. /\ deliveries' \in Seq(Delivery)
      /\ accepted' \in Seq(0..2) /\ Len(accepted') = Len(deliveries')
      /\ contended \subseteq contended' /\ contended' \subseteq Ids'
  BY <1>1 DEF DeliveriesUnchanged, ConnInv, ConnTypes
<1> QED
  BY <1>1, <1>3, <1>4 DEF DeliveriesUnchanged, Extended

LEMMA SameEvents ==
  ASSUME ConnInv, UNCHANGED <<events, purged>>
  PROVE  EventsGrow /\ \A r \in Rules : Saved(r)' = Saved(r)
  BY DEF ConnInv, ConnTypes, EventsGrow, Saved

LEMMA NewDeliveryFacts ==
  ASSUME ConnInv, NEW kind \in {"webhook", "github"}, NEW dry \in BOOLEAN, NewDelivery(kind, dry),
         NEW n, n = Len(deliveries) + 1
  PROVE  /\ Extended
         /\ Ids' = Ids \cup {n} /\ n \notin Ids
         /\ deliveries'[n] \in Delivery /\ deliveries'[n].kind = kind
         /\ deliveries'[n].dry = dry /\ deliveries'[n].status = "pending"
         /\ accepted'[n] = 0 /\ UNCHANGED contended
         /\ \A d \in Ids : deliveries'[d] = deliveries[d] /\ accepted'[d] = accepted[d]
<1> PICK r : r = [kind |-> kind, dry |-> dry, status |-> "pending", stored |-> TRUE]
  OBVIOUS
<1>1. r \in Delivery /\ r.kind = kind /\ r.dry = dry /\ r.status = "pending"
  BY DEF Delivery
<1>2. /\ deliveries \in Seq(Delivery) /\ Len(deliveries) \in Nat
      /\ accepted \in Seq(0..2) /\ Len(accepted) = Len(deliveries)
  BY DEF ConnInv, ConnTypes
<1>3. deliveries' = Append(deliveries, r) /\ accepted' = Append(accepted, 0) /\ UNCHANGED contended
  BY DEF NewDelivery
<1>4. /\ deliveries' \in Seq(Delivery) /\ Len(deliveries') = n /\ deliveries'[n] = r
      /\ \A d \in 1..Len(deliveries) : deliveries'[d] = deliveries[d]
  BY <1>1, <1>2, <1>3
<1>5. /\ accepted' \in Seq(0..2) /\ Len(accepted') = n /\ accepted'[n] = 0
      /\ \A d \in 1..Len(deliveries) : accepted'[d] = accepted[d]
  BY <1>2, <1>3
<1>6. Ids' = Ids \cup {n} /\ n \notin Ids
  BY <1>2, <1>4 DEF Ids
<1>7. \A d \in Ids : accepted[d] \in 0..2
  BY StoredIsTyped
<1>8. Extended
  <2>1. \A d \in Ids : accepted'[d] >= accepted[d]
    BY <1>5, <1>7 DEF Ids
  <2>2. contended \subseteq contended' /\ contended' \subseteq Ids'
    BY <1>3, <1>6 DEF ConnInv, ConnTypes
  <2> QED
    BY <1>4, <1>5, <1>6, <2>1, <2>2 DEF Extended, Ids
<1> QED
  BY <1>1, <1>3, <1>4, <1>5, <1>6, <1>8 DEF Ids

\* A new delivery that nobody holds, or no new one, while t holds nothing.
LEMMA HoldingNothingKeeps ==
  ASSUME ConnInv, DeliveriesUnchanged \/ NewDelivery("webhook", FALSE),
         EventsGrow, rules' \in [Rules -> Rule], Behind(rules)',
         NEW t \in Threads, connCall' = [u \in Threads |-> connCall'[u]],
         \A u \in Threads \ {t} : connCall'[u] = connCall[u],
         connCall[t].at \notin {"send", "comment", "sent"}, connCall'[t].at \notin {"send", "comment", "sent"},
         RunOK(t)'
  PROVE  ConnInv'
<1>1. Held(t) = {} /\ Held(t)' = {}
  BY DEF Held
<1>2. HoldOK(t)'
  BY <1>1 DEF HoldOK
<1>3. CASE DeliveriesUnchanged
  <2>1. Extended /\ Ids' = Ids
    BY <1>3, SameDeliveries
  <2>2. \A d \in Ids \ contended : SentOnce(d)'
    BY <1>1, <1>3, <2>1, SentOnceKept DEF DeliveriesUnchanged
  <2> QED
    BY <1>2, <1>3, <2>1, <2>2, StepKeeps DEF DeliveriesUnchanged, ConnInv
<1>4. CASE NewDelivery("webhook", FALSE)
  <2> PICK n : n = Len(deliveries) + 1
    OBVIOUS
  <2>1. /\ Extended /\ Ids' = Ids \cup {n} /\ n \notin Ids /\ UNCHANGED contended
        /\ deliveries'[n].status = "pending" /\ deliveries'[n].dry = FALSE /\ accepted'[n] = 0
        /\ \A d \in Ids : deliveries'[d] = deliveries[d] /\ accepted'[d] = accepted[d]
    BY <1>4, NewDeliveryFacts
  <2>2. \A d \in Ids \ contended : SentOnce(d)'
    BY <1>1, <2>1, SentOnceKept
  <2>3. \A u \in Threads : n \notin Held(u)'
    BY <1>1, <2>1, CallKept DEF ConnInv, HoldOK
  <2>4. SentOnce(n)'
    BY <2>1, <2>3 DEF SentOnce, FreeOK
  <2>5. \A d \in Ids' : deliveries'[d].status = "delivered" => accepted'[d] >= 1
    BY <2>1 DEF ConnInv
  <2> QED
    BY <1>2, <2>1, <2>2, <2>4, <2>5, StepKeeps
<1> QED
  BY <1>3, <1>4

-----------------------------------------------------------------------------
LEMMA RulesKept ==
  ASSUME ConnInv, RulesUnchanged
  PROVE  EventsGrow /\ rules' \in [Rules -> Rule] /\ Behind(rules)'
<1>1. UNCHANGED rules /\ UNCHANGED <<events, purged>>
  BY DEF RulesUnchanged
<1>2. EventsGrow /\ \A r \in Rules : Saved(r)' = Saved(r)
  BY <1>1, SameEvents
<1> QED
  BY <1>1, <1>2 DEF ConnInv, Behind

LEMMA TriggerKeeps ==
  ASSUME ConnInv, NEW t \in Threads, NEW rs \in SUBSET Rules, Trigger(t, rs)
  PROVE  ConnInv'
<1> PICK read : read = rules
  OBVIOUS
<1>1. connCall[t].at = "idle" /\ ConnMove(t, "run", rs, read) /\ DeliveriesUnchanged /\ RulesUnchanged
  BY DEF Trigger
<1>2. connCall'[t].at = "run" /\ connCall'[t].todo = rs /\ connCall'[t].read = read
  BY <1>1 DEF ConnMove, ConnInv, ConnTypes
<1>3. Behind(read) /\ EventsGrow /\ Behind(rules)' /\ rules' \in [Rules -> Rule]
  BY <1>1, RulesKept DEF ConnInv
<1>4. Behind(read)'
  BY <1>3, BehindKept DEF ConnInv
<1>5. RunOK(t)'
  BY <1>2, <1>4 DEF RunOK
<1> QED
  BY <1>1, <1>2, <1>3, <1>5, MoveFacts, HoldingNothingKeeps

LEMMA RunRuleKeeps ==
  ASSUME ConnInv, NEW t \in Threads, NEW r \in Rules, RunRule(t, r)
  PROVE  ConnInv'
<1> PICK c : c = connCall[t]
  OBVIOUS
<1> PICK read : read = [rule |-> r, rules |-> c.read]
  OBVIOUS
<1>1. /\ c.at = "run" /\ ConnMove(t, "event", c.todo, read) /\ RulesUnchanged
      /\ NewDelivery("webhook", FALSE) \/ DeliveriesUnchanged
  BY DEF RunRule
<1>2. connCall'[t].at = "event" /\ connCall'[t].todo = c.todo /\ connCall'[t].read = read
  <2>1. ConnMove(t, "event", c.todo, read)
    BY <1>1
  <2> QED
    BY <2>1 DEF ConnMove, ConnInv, ConnTypes
<1>3. read.rule = r /\ read.rules = c.read
  OBVIOUS
<1>4. c.todo \subseteq Rules /\ Behind(c.read)
  BY <1>1 DEF ConnInv, RunOK
<1>5. Behind(c.read)'
  BY <1>1, <1>4, BehindKept, RulesKept DEF ConnInv
<1>6. RunOK(t)'
  BY <1>2, <1>3, <1>4, <1>5 DEF RunOK
<1> QED
  BY <1>1, <1>2, <1>6, RulesKept, MoveFacts, HoldingNothingKeeps

LEMMA SaveEventKeeps ==
  ASSUME ConnInv, NEW t \in Threads, SaveEvent(t)
  PROVE  ConnInv'
<1> PICK c : c = connCall[t]
  OBVIOUS
<1> PICK r \in Rules : r = c.read.rule
  BY DEF SaveEvent, ConnInv, RunOK
<1>1. /\ c.at = "event" /\ events' = [events EXCEPT ![r] = @ + 1] /\ UNCHANGED <<rules, purged>>
      /\ ConnMove(t, "count", c.todo, c.read) /\ DeliveriesUnchanged
  BY DEF SaveEvent
<1>2. Behind(rules) /\ ConnTypes
  BY DEF ConnInv
<1>3. EventsGrow /\ Saved(r)' = Saved(r) + 1
  <2>1. /\ events \in [Rules -> Nat] /\ purged \in [Rules -> Nat] /\ purged' = purged
        /\ events' = [events EXCEPT ![r] = events[r] + 1]
    BY <1>1, <1>2 DEF ConnTypes
  <2>2. /\ events' \in [Rules -> Nat] /\ purged' \in [Rules -> Nat]
        /\ \A x \in Rules : events[x] + purged[x] <= events'[x] + purged'[x]
    BY <2>1
  <2>3. events'[r] + purged'[r] = events[r] + purged[r] + 1
    BY <2>1
  <2> QED
    BY <2>2, <2>3 DEF EventsGrow, Saved
<1>4. rules' \in [Rules -> Rule] /\ Behind(rules)'
  BY <1>1, <1>2, <1>3, BehindKept DEF ConnTypes, Behind
<1>5. c.todo \subseteq Rules /\ Behind(c.read.rules)
  BY <1>1 DEF ConnInv, RunOK
<1>6. Behind(c.read.rules)'
  BY <1>2, <1>3, <1>5, BehindKept
<1>7. c.read.rules[r].runs + 1 <= Saved(r)'
  BY <1>2, <1>3, <1>5, SavedIsNat DEF Behind, Rule
<1>8. connCall'[t].at = "count" /\ connCall'[t].todo = c.todo /\ connCall'[t].read = c.read
  BY <1>1, MoveFacts
<1>9. RunOK(t)'
  BY <1>5, <1>6, <1>7, <1>8 DEF RunOK
<1> QED
  BY <1>1, <1>3, <1>4, <1>8, <1>9, MoveFacts, HoldingNothingKeeps

\* A rule that is not ahead of its events is saved.
LEMMA RuleSaved ==
  ASSUME ConnInv, NEW r \in Rules, NEW rule \in Rule, rule.runs <= Saved(r),
         rules' = [rules EXCEPT ![r] = rule], UNCHANGED <<events, purged>>
  PROVE  rules' \in [Rules -> Rule] /\ Behind(rules)' /\ EventsGrow
<1>1. EventsGrow /\ \A x \in Rules : Saved(x)' = Saved(x)
  BY SameEvents
<1> QED
  BY <1>1 DEF ConnInv, Behind

LEMMA SaveRuleKeeps ==
  ASSUME ConnInv, NEW t \in Threads, SaveRule(t)
  PROVE  ConnInv'
<1> PICK c : c = connCall[t]
  OBVIOUS
<1> PICK rest : rest = c.todo \ {c.read.rule}
  OBVIOUS
<1>1. c.at = "count" /\ UNCHANGED <<events, purged>> /\ DeliveriesUnchanged
  BY DEF SaveRule
<1> PICK r \in Rules : r = c.read.rule
  BY <1>1 DEF ConnInv, RunOK
<1> PICK rule : rule = [c.read.rules[r] EXCEPT !.runs = @ + 1]
  OBVIOUS
<1>2. /\ rules' = [rules EXCEPT ![r] = rule]
      /\ IF rest = {} THEN ConnMove(t, "idle", {}, None) ELSE ConnMove(t, "run", rest, c.read.rules)
  BY DEF SaveRule
<1>3. c.todo \subseteq Rules /\ Behind(c.read.rules) /\ c.read.rules[r].runs + 1 <= Saved(r)
  BY <1>1 DEF ConnInv, RunOK
<1>4. rule \in Rule /\ rule.runs <= Saved(r)
  BY <1>3 DEF Behind, Rule
<1>5. rules' \in [Rules -> Rule] /\ Behind(rules)' /\ EventsGrow
  BY <1>1, <1>2, <1>4, RuleSaved
<1>6. Behind(c.read.rules)'
  BY <1>3, <1>5, BehindKept DEF ConnInv
<1>7. CASE rest = {}
  <2>1. connCall'[t].at = "idle"
    BY <1>2, <1>7, MoveFacts
  <2>2. RunOK(t)'
    BY <2>1 DEF RunOK
  <2> QED
    BY <1>1, <1>2, <1>5, <1>7, <2>1, <2>2, MoveFacts, HoldingNothingKeeps
<1>8. CASE rest # {}
  <2> PICK read : read = c.read.rules
    OBVIOUS
  <2>0. ConnMove(t, "run", rest, read)
    BY <1>2, <1>8
  <2>1. connCall'[t].at = "run" /\ connCall'[t].todo = rest /\ connCall'[t].read = read
    BY <2>0 DEF ConnMove, ConnInv, ConnTypes
  <2>2. RunOK(t)'
    BY <1>3, <1>6, <2>1 DEF RunOK
  <2> QED
    BY <1>1, <1>5, <2>0, <2>1, <2>2, MoveFacts, HoldingNothingKeeps
<1> QED
  BY <1>7, <1>8

LEMMA OpenRuleKeeps ==
  ASSUME ConnInv, NEW t \in Threads, NEW r \in Rules, OpenRule(t, r)
  PROVE  ConnInv'
<1> PICK read : read = rules
  OBVIOUS
<1>1. connCall[t].at = "idle" /\ ConnMove(t, "patch", {r}, read) /\ DeliveriesUnchanged /\ RulesUnchanged
  BY DEF OpenRule
<1>2. connCall'[t].at = "patch" /\ connCall'[t].todo = {r} /\ connCall'[t].read = read
  BY <1>1 DEF ConnMove, ConnInv, ConnTypes
<1>3. Behind(read) /\ EventsGrow /\ Behind(rules)' /\ rules' \in [Rules -> Rule]
  BY <1>1, RulesKept DEF ConnInv
<1>4. Behind(read)'
  BY <1>3, BehindKept DEF ConnInv
<1>5. RunOK(t)'
  BY <1>2, <1>4 DEF RunOK
<1> QED
  BY <1>1, <1>2, <1>3, <1>5, MoveFacts, HoldingNothingKeeps

LEMMA PatchRuleKeeps ==
  ASSUME ConnInv, NEW t \in Threads, NEW r \in Rules, NEW on \in BOOLEAN, PatchRule(t, r, on)
  PROVE  ConnInv'
<1> PICK c : c = connCall[t]
  OBVIOUS
<1> PICK rule : rule = [c.read[r] EXCEPT !.enabled = on]
  OBVIOUS
<1>1. /\ c.at = "patch" /\ rules' = [rules EXCEPT ![r] = rule] /\ ConnMove(t, "idle", {}, None)
      /\ UNCHANGED <<events, purged>> /\ DeliveriesUnchanged
  BY DEF PatchRule
<1>2. Behind(c.read)
  BY <1>1 DEF ConnInv, RunOK
<1>3. rule \in Rule /\ rule.runs <= Saved(r)
  BY <1>2 DEF Behind, Rule
<1>4. rules' \in [Rules -> Rule] /\ Behind(rules)' /\ EventsGrow
  BY <1>1, <1>3, RuleSaved
<1>5. connCall'[t].at = "idle"
  BY <1>1, MoveFacts
<1>6. RunOK(t)'
  BY <1>5 DEF RunOK
<1> QED
  BY <1>1, <1>4, <1>5, <1>6, MoveFacts, HoldingNothingKeeps

-----------------------------------------------------------------------------
LEMMA OtherRuleRunsKeeps ==
  ASSUME ConnInv, NEW t \in Threads, OtherRuleRuns(t)
  PROVE  ConnInv'
<1>1. connCall[t].at = "idle" /\ connCall' = connCall /\ NewDelivery("webhook", FALSE) /\ RulesUnchanged
  BY DEF OtherRuleRuns
<1>2. RunOK(t)' /\ connCall'[t].at = "idle"
  BY <1>1 DEF RunOK
<1>3. connCall' = [u \in Threads |-> connCall'[u]]
  BY <1>1 DEF ConnInv, ConnTypes
<1> QED
  BY <1>1, <1>2, <1>3, RulesKept, HoldingNothingKeeps

\* A retry does the same, if there is a delivery to retry.
LEMMA RetryDeliveryKeeps ==
  ASSUME ConnInv, NEW t \in Threads, NEW d \in Ids, RetryDelivery(t, d)
  PROVE  ConnInv'
<1>1. OtherRuleRuns(t)
  BY DEF RetryDelivery, OtherRuleRuns
<1> QED
  BY <1>1, OtherRuleRunsKeeps

\* Nobody holds what the queue takes, or it is contended.
LEMMA OpenQueueKeeps ==
  ASSUME ConnInv, NEW t \in Threads, OpenQueue(t)
  PROVE  ConnInv'
<1> PICK page : page = Page
  OBVIOUS
<1> PICK read : read = [d \in page |-> deliveries[d]]
  OBVIOUS
<1>1. /\ connCall[t].at = "idle" /\ page # {} /\ ConnMove(t, "send", page, read)
      /\ contended' = contended \cup {d \in page : \E u \in Threads : d \in Held(u)}
      /\ UNCHANGED <<deliveries, accepted>> /\ RulesUnchanged
  BY DEF OpenQueue
<1>2. page \subseteq Ids /\ \A d \in page : deliveries[d].status \in {"pending", "failed"} /\ read[d] = deliveries[d]
  BY DEF Page
<1>3. /\ connCall' = [u \in Threads |-> connCall'[u]]
      /\ connCall'[t].at = "send" /\ connCall'[t].todo = page /\ connCall'[t].read = read
      /\ \A u \in Threads \ {t} : connCall'[u] = connCall[u]
  <2>1. ConnMove(t, "send", page, read)
    BY <1>1
  <2> QED
    BY <2>1 DEF ConnMove, ConnInv, ConnTypes
<1>4. Ids' = Ids
  BY <1>1 DEF Ids
<1>5. Extended
  <2>1. \A d \in Ids : accepted'[d] >= accepted[d]
    BY <1>1, StoredIsTyped
  <2>2. contended \subseteq contended' /\ contended' \subseteq Ids'
    BY <1>1, <1>2, <1>4 DEF ConnInv, ConnTypes
  <2> QED
    BY <1>1, <1>4, <2>1, <2>2 DEF Extended, ConnInv, ConnTypes
<1>6. EventsGrow /\ Behind(rules)' /\ rules' \in [Rules -> Rule]
  BY <1>1, RulesKept
<1>7. Held(t) = {} /\ Held(t)' = page
  BY <1>1, <1>3 DEF Held
<1>8. RunOK(t)'
  BY <1>3 DEF RunOK
<1>9. HoldOK(t)'
  <2>1. \A d \in page : ReadOf(d, read[d])'
    BY <1>1, <1>2, StoredIsTyped DEF ReadOf
  <2> QED
    BY <1>1, <1>2, <1>3, <1>4, <1>7, <2>1 DEF HoldOK
<1>10. \A d \in Ids' \ contended' : SentOnce(d)'
  <2> SUFFICES ASSUME NEW d \in Ids, d \notin contended' PROVE SentOnce(d)'
    BY <1>4
  <2>1. d \notin contended
    BY <1>1
  <2>2. CASE d \notin page
    BY <1>1, <1>3, <1>5, <1>6, <1>7, <2>1, <2>2, SentOnceKept
  <2>3. CASE d \in page
    <3>1. \A u \in Threads : d \notin Held(u)
      BY <1>1, <2>3
    <3>2. FreeOK(d)
      BY <2>1, <3>1 DEF ConnInv, SentOnce
    <3>3. accepted[d] = 0 /\ ~deliveries[d].dry /\ deliveries[d].status # "delivered"
      BY <1>2, <2>3, <3>2 DEF FreeOK
    <3>4. \A u \in Threads : d \in Held(u)' => u = t
      BY <1>3, <1>5, <1>6, <3>1, CallKept
    <3>5. HolderOK(t, d)'
      BY <1>1, <1>3, <3>3 DEF HolderOK
    <3> QED
      BY <1>7, <2>3, <3>4, <3>5 DEF SentOnce
  <2> QED
    BY <2>2, <2>3
<1>11. \A d \in Ids' : deliveries'[d].status = "delivered" => accepted'[d] >= 1
  BY <1>1, <1>4 DEF ConnInv
<1> QED
  BY <1>3, <1>5, <1>6, <1>8, <1>9, <1>10, <1>11, StepKeeps

LEMMA SendKeeps ==
  ASSUME ConnInv, NEW t \in Threads, NEW ok \in BOOLEAN, NEW lost \in BOOLEAN, Send(t, ok, lost)
  PROVE  ConnInv'
<1> PICK c : c = connCall[t]
  OBVIOUS
<1> PICK n : n = CHOOSE x \in c.todo : \A y \in c.todo : y <= x
  OBVIOUS
<1> PICK record : record = [c.read[n] EXCEPT !.status = IF ok /\ ~lost THEN "delivered" ELSE "failed"]
  OBVIOUS
<1> PICK read : read = [of |-> n, record |-> record, page |-> c.read]
  OBVIOUS
<1>1. /\ c.at = "send" /\ ConnMove(t, "sent", c.todo, read)
      /\ accepted' = [accepted EXCEPT ![n] = IF ok /\ @ < 2 THEN @ + 1 ELSE @]
      /\ contended' = IF ok /\ lost THEN contended \cup {n} ELSE contended
      /\ UNCHANGED deliveries /\ RulesUnchanged
  BY DEF Send
<1>2. HoldOK(t) /\ Held(t) = c.todo /\ c.todo \subseteq Ids /\ c.todo # {}
  BY <1>1 DEF ConnInv, HoldOK, Held
<1>3. n \in c.todo /\ n \in Ids
  <2>1. Len(deliveries) \in Nat /\ c.todo \subseteq 0..Len(deliveries)
    BY <1>2 DEF ConnInv, ConnTypes, Ids
  <2>2. \E x \in c.todo : \A y \in c.todo : y <= x
    BY <1>2, <2>1, GreatestExists
  <2> QED
    BY <1>2, <2>2
<1>4. ReadOf(n, c.read[n])
  BY <1>1, <1>2, <1>3 DEF HoldOK
<1>5. ReadOf(n, record) /\ record.status = IF ok /\ ~lost THEN "delivered" ELSE "failed"
  BY <1>4 DEF ReadOf, Delivery
<1>6. /\ connCall' = [u \in Threads |-> connCall'[u]]
      /\ connCall'[t].at = "sent" /\ connCall'[t].todo = c.todo /\ connCall'[t].read = read
      /\ \A u \in Threads \ {t} : connCall'[u] = connCall[u]
  <2>1. ConnMove(t, "sent", c.todo, read)
    BY <1>1
  <2> QED
    BY <2>1 DEF ConnMove, ConnInv, ConnTypes
<1>7. read.of = n /\ read.record = record /\ read.page = c.read
  OBVIOUS
<1>8. Ids' = Ids
  BY <1>1 DEF Ids
<1>9. /\ accepted' \in Seq(0..2) /\ Len(accepted') = Len(accepted)
      /\ accepted'[n] = IF ok /\ accepted[n] < 2 THEN accepted[n] + 1 ELSE accepted[n]
      /\ \A d \in Ids \ {n} : accepted'[d] = accepted[d]
  <2>1. accepted \in Seq(0..2) /\ n \in 1..Len(accepted) /\ Ids = 1..Len(accepted) /\ accepted[n] \in 0..2
    BY <1>3, StoredIsTyped DEF ConnInv, ConnTypes, Ids
  <2>2. PICK a \in 0..2 : a = IF ok /\ accepted[n] < 2 THEN accepted[n] + 1 ELSE accepted[n]
    BY <2>1
  <2>3. accepted' = [accepted EXCEPT ![n] = a]
    BY <1>1, <2>1, <2>2
  <2> QED
    BY <2>1, <2>2, <2>3
<1>10. Extended
  <2>1. \A d \in Ids : accepted'[d] >= accepted[d]
    <3>1. \A d \in Ids : accepted[d] \in 0..2
      BY StoredIsTyped
    <3>2. accepted'[n] >= accepted[n]
      BY <1>3, <1>9, <3>1
    <3>3. \A d \in Ids \ {n} : accepted'[d] = accepted[d]
      BY <1>9
    <3> SUFFICES ASSUME NEW d \in Ids PROVE accepted'[d] >= accepted[d]
      OBVIOUS
    <3>4. CASE d # n
      <4>1. accepted'[d] = accepted[d] /\ accepted[d] \in 0..2
        BY <3>1, <3>3, <3>4
      <4> QED
        BY <4>1
    <3> QED
      BY <3>2, <3>4
  <2>2. contended \subseteq contended' /\ contended' \subseteq Ids'
    BY <1>1, <1>3, <1>8 DEF ConnInv, ConnTypes
  <2> QED
    BY <1>1, <1>8, <1>9, <2>1, <2>2 DEF Extended, ConnInv, ConnTypes
<1>11. EventsGrow /\ Behind(rules)' /\ rules' \in [Rules -> Rule]
  BY <1>1, RulesKept
<1>12. Held(t)' = Held(t)
  BY <1>2, <1>6 DEF Held
<1>13. RunOK(t)'
  BY <1>6 DEF RunOK
<1>14. HoldOK(t)'
  <2>1. \A d \in c.todo : ReadOf(d, c.read[d])'
    BY <1>1, <1>2 DEF HoldOK, ReadOf
  <2>2. ReadOf(n, record)'
    BY <1>1, <1>5 DEF ReadOf
  <2>3. record.status = "delivered" => accepted'[n] >= 1
    BY <1>3, <1>5, <1>9, StoredIsTyped
  <2> QED
    BY <1>2, <1>3, <1>6, <1>7, <1>8, <1>12, <2>1, <2>2, <2>3 DEF HoldOK
<1>15. \A d \in Ids' \ contended' : SentOnce(d)'
  <2> SUFFICES ASSUME NEW d \in Ids, d \notin contended' PROVE SentOnce(d)'
    BY <1>8
  <2>1. d \notin contended /\ SentOnce(d)
    BY <1>1 DEF ConnInv
  <2>2. d \in Held(t) => accepted[d] = 0 /\ ~deliveries[d].dry /\ deliveries[d].status # "delivered"
    BY <1>1, <2>1 DEF SentOnce, HolderOK
  <2>3. CASE d # n
    <3>1. d \in Held(t) => HolderOK(t, d)'
      BY <1>1, <1>6, <1>7, <1>9, <2>2, <2>3 DEF HolderOK
    <3> QED
      BY <1>1, <1>6, <1>9, <1>10, <1>11, <1>12, <2>1, <2>3, <3>1, SentOnceKept
  <2>4. CASE d = n
    <3>1. \A u \in Threads : n \in Held(u)' => u = t
      BY <1>2, <1>3, <1>6, <1>10, <1>11, <2>1, <2>4, CallKept DEF SentOnce
    <3>6. n \in Held(t) /\ n \notin contended'
      BY <1>2, <1>3, <2>4
    <3>7. ~(ok /\ lost)
      BY <1>1, <3>6
    <3>2. accepted[n] = 0 /\ ~deliveries[n].dry /\ deliveries[n].status # "delivered" /\ ~(ok /\ lost)
      BY <2>2, <2>4, <3>6, <3>7
    <3>3. accepted'[n] = IF record.status = "delivered" THEN 1 ELSE 0
      <4>1. accepted'[n] = IF ok THEN 1 ELSE 0
        BY <1>9, <3>2
      <4>2. record.status = "delivered" <=> ok
        BY <1>5, <3>7
      <4> QED
        BY <4>1, <4>2
    <3>4. HolderOK(t, n)'
      <4>1. connCall'[t].at = "sent" /\ connCall'[t].read.of = n /\ connCall'[t].read.record = record
        BY <1>6, <1>7
      <4>2. deliveries' = deliveries
        BY <1>1
      <4> QED
        BY <3>2, <3>3, <4>1, <4>2, Zenon DEF HolderOK
    <3>5. n \in Held(t)'
      BY <1>2, <1>3, <1>12
    <3> QED
      BY <2>4, <3>1, <3>4, <3>5 DEF SentOnce
  <2> QED
    BY <2>3, <2>4
<1>16. \A d \in Ids' : deliveries'[d].status = "delivered" => accepted'[d] >= 1
  <2> SUFFICES ASSUME NEW d \in Ids, deliveries[d].status = "delivered" PROVE accepted'[d] >= 1
    BY <1>1, <1>8
  <2>1. accepted[d] >= 1 /\ accepted[d] \in 0..2
    BY StoredIsTyped DEF ConnInv
  <2>2. CASE d = n
    BY <1>9, <2>1, <2>2
  <2>3. CASE d # n
    BY <1>9, <2>1, <2>3
  <2> QED
    BY <2>2, <2>3
<1> QED
  BY <1>6, <1>10, <1>11, <1>13, <1>14, <1>15, <1>16, StepKeeps

\* The outcome is saved: nobody holds the delivery any more.
LEMMA MarkKeeps ==
  ASSUME ConnInv, NEW t \in Threads, Mark(t)
  PROVE  ConnInv'
<1> PICK c : c = connCall[t]
  OBVIOUS
<1> PICK n : n = c.read.of
  OBVIOUS
<1> PICK record : record = c.read.record
  OBVIOUS
<1> PICK page : page = c.read.page
  OBVIOUS
<1> PICK rest : rest = c.todo \ {n}
  OBVIOUS
<1>1. /\ c.at = "sent" /\ deliveries' = [deliveries EXCEPT ![n] = record]
      /\ IF rest = {} THEN ConnMove(t, "idle", {}, None) ELSE ConnMove(t, "send", rest, page)
      /\ UNCHANGED <<accepted, contended>> /\ RulesUnchanged
  BY DEF Mark
<1>2. HoldOK(t) /\ Held(t) = c.todo /\ c.todo \subseteq Ids /\ n \in c.todo /\ n \in Ids
  BY <1>1 DEF ConnInv, HoldOK, Held
<1>3. ReadOf(n, record) /\ (record.status = "delivered" => accepted[n] >= 1) /\ \A d \in c.todo : ReadOf(d, page[d])
  BY <1>1, <1>2 DEF HoldOK
<1>4. /\ deliveries' \in Seq(Delivery) /\ Ids' = Ids
      /\ \A d \in Ids : deliveries'[d] = IF d = n THEN record ELSE deliveries[d]
  <2>1. deliveries \in Seq(Delivery) /\ n \in 1..Len(deliveries) /\ record \in Delivery
    BY <1>2, <1>3 DEF ConnInv, ConnTypes, Ids, ReadOf
  <2>2. /\ deliveries' \in Seq(Delivery) /\ Len(deliveries') = Len(deliveries)
        /\ \A d \in 1..Len(deliveries) : deliveries'[d] = IF d = n THEN record ELSE deliveries[d]
    BY <1>1, <2>1
  <2> QED
    BY <2>2 DEF Ids
<1>5. Extended
  <2>1. \A d \in Ids : accepted'[d] >= accepted[d]
    <3>1. \A d \in Ids : accepted[d] \in 0..2
      BY StoredIsTyped
    <3> QED
      BY <1>1, <3>1
  <2>2. \A d \in Ids : deliveries'[d].kind = deliveries[d].kind /\ deliveries'[d].dry = deliveries[d].dry
    BY <1>3, <1>4 DEF ReadOf
  <2>3. /\ accepted' \in Seq(0..2) /\ Len(accepted') = Len(deliveries')
        /\ contended \subseteq contended' /\ contended' \subseteq Ids'
    <3>1. Len(deliveries') = Len(deliveries)
      <4>1. deliveries \in Seq(Delivery) /\ deliveries' \in Seq(Delivery) /\ 1..Len(deliveries') = 1..Len(deliveries)
        BY <1>4 DEF ConnInv, ConnTypes, Ids
      <4> QED
        BY <4>1
    <3> QED
      BY <1>1, <1>4, <3>1 DEF ConnInv, ConnTypes
  <2> QED
    BY <1>4, <2>1, <2>2, <2>3 DEF Extended
<1>6. EventsGrow /\ Behind(rules)' /\ rules' \in [Rules -> Rule]
  BY <1>1, RulesKept
<1>7. /\ connCall' = [u \in Threads |-> connCall'[u]]
      /\ \A u \in Threads \ {t} : connCall'[u] = connCall[u]
      /\ rest = {} => connCall'[t].at = "idle"
      /\ rest # {} => connCall'[t].at = "send" /\ connCall'[t].todo = rest /\ connCall'[t].read = page
  BY <1>1 DEF ConnMove, ConnInv, ConnTypes
<1>8. Held(t)' = rest
  BY <1>7 DEF Held
<1>9. RunOK(t)'
  BY <1>7 DEF RunOK
<1>10. HoldOK(t)'
  <2>1. \A d \in rest : ReadOf(d, page[d])'
    BY <1>2, <1>3, <1>5, ReadKept
  <2>2. rest \subseteq Ids'
    BY <1>2, <1>4
  <2> QED
    BY <1>7, <1>8, <2>1, <2>2 DEF HoldOK
<1>11. \A d \in Ids' \ contended' : SentOnce(d)'
  <2> SUFFICES ASSUME NEW d \in Ids, d \notin contended PROVE SentOnce(d)'
    BY <1>1, <1>4
  <2>1. SentOnce(d)
    BY DEF ConnInv
  <2>2. d \in Held(t) => HolderOK(t, d)
    BY <2>1 DEF SentOnce
  <2>3. CASE d # n
    <3>1. d \in Held(t)' <=> d \in Held(t)
      BY <1>2, <1>8, <2>3
    <3>2. deliveries'[d] = deliveries[d] /\ accepted'[d] = accepted[d]
      BY <1>1, <1>4, <2>3
    <3>3. d \in Held(t) => HolderOK(t, d)'
      <4> SUFFICES ASSUME d \in Held(t) PROVE HolderOK(t, d)'
        OBVIOUS
      <4>1. rest # {} /\ connCall'[t].at = "send"
        BY <1>7, <1>8, <3>1
      <4>2. accepted[d] = 0 /\ ~deliveries[d].dry /\ deliveries[d].status # "delivered"
        BY <1>1, <2>2, <2>3 DEF HolderOK
      <4> QED
        BY <3>2, <4>1, <4>2 DEF HolderOK
    <3> QED
      BY <1>5, <1>6, <1>7, <3>1, <3>2, <3>3, SentOnceKept
  <2>4. CASE d = n
    <3>1. \A u \in Threads : n \notin Held(u)'
      BY <1>2, <1>5, <1>6, <1>7, <1>8, <2>1, <2>4, CallKept DEF SentOnce
    <3>2. ~deliveries[n].dry /\ accepted[n] = IF record.status = "delivered" THEN 1 ELSE 0
      BY <1>1, <1>2, <2>2, <2>4 DEF HolderOK
    <3>3. deliveries'[n] = record /\ accepted'[n] = accepted[n] /\ ~record.dry
      BY <1>1, <1>2, <1>3, <1>4, <3>2 DEF ReadOf
    <3>4. FreeOK(n)'
      BY <3>2, <3>3 DEF FreeOK
    <3> QED
      BY <2>4, <3>1, <3>4 DEF SentOnce
  <2> QED
    BY <2>3, <2>4
<1>12. \A d \in Ids' : deliveries'[d].status = "delivered" => accepted'[d] >= 1
  BY <1>1, <1>3, <1>4 DEF ConnInv
<1> QED
  BY <1>5, <1>6, <1>7, <1>9, <1>10, <1>11, <1>12, StepKeeps

LEMMA OpenCommentKeeps ==
  ASSUME ConnInv, NEW t \in Threads, NEW dry \in BOOLEAN, OpenComment(t, dry)
  PROVE  ConnInv'
<1> PICK n : n = Len(deliveries) + 1
  OBVIOUS
<1> PICK read : read = [d \in {n} |-> deliveries'[d]]
  OBVIOUS
<1>1. connCall[t].at = "idle" /\ NewDelivery("github", dry) /\ ConnMove(t, "comment", {n}, read) /\ RulesUnchanged
  BY DEF OpenComment
<1>2. /\ Extended /\ Ids' = Ids \cup {n} /\ n \notin Ids /\ UNCHANGED contended
      /\ deliveries'[n] \in Delivery /\ deliveries'[n].status = "pending" /\ accepted'[n] = 0
      /\ \A d \in Ids : deliveries'[d] = deliveries[d] /\ accepted'[d] = accepted[d]
  BY <1>1, NewDeliveryFacts
<1>3. EventsGrow /\ Behind(rules)' /\ rules' \in [Rules -> Rule]
  BY <1>1, RulesKept
<1>4. /\ connCall' = [u \in Threads |-> connCall'[u]]
      /\ connCall'[t].at = "comment" /\ connCall'[t].todo = {n} /\ connCall'[t].read = read
      /\ \A u \in Threads \ {t} : connCall'[u] = connCall[u]
  <2>1. ConnMove(t, "comment", {n}, read)
    BY <1>1
  <2> QED
    BY <2>1 DEF ConnMove, ConnInv, ConnTypes
<1>5. Held(t) = {} /\ Held(t)' = {n}
  BY <1>1, <1>4 DEF Held
<1>6. RunOK(t)'
  BY <1>4 DEF RunOK
<1>7. HoldOK(t)'
  <2>1. ReadOf(n, read[n])'
    BY <1>2 DEF ReadOf
  <2> QED
    BY <1>2, <1>4, <1>5, <2>1 DEF HoldOK
<1>8. \A d \in Ids \ contended : SentOnce(d)'
  BY <1>2, <1>3, <1>4, <1>5, SentOnceKept
<1>9. SentOnce(n)'
  <2>1. \A u \in Threads : n \in Held(u)' => u = t
    BY <1>2, <1>3, <1>4, CallKept DEF ConnInv, HoldOK
  <2>2. HolderOK(t, n)'
    BY <1>2, <1>4 DEF HolderOK
  <2> QED
    BY <1>5, <2>1, <2>2 DEF SentOnce
<1>10. \A d \in Ids' : deliveries'[d].status = "delivered" => accepted'[d] >= 1
  BY <1>2 DEF ConnInv
<1> QED
  BY <1>2, <1>3, <1>4, <1>6, <1>7, <1>8, <1>9, <1>10, StepKeeps

LEMMA SkipCommentKeeps ==
  ASSUME ConnInv, NEW t \in Threads, SkipComment(t)
  PROVE  ConnInv'
<1> PICK c : c = connCall[t]
  OBVIOUS
<1>1. /\ c.at = "comment" /\ ConnMove(t, "idle", {}, None)
      /\ deliveries' = [d \in Ids |-> IF d \in c.todo THEN [c.read[d] EXCEPT !.status = "skipped"] ELSE deliveries[d]]
      /\ UNCHANGED <<accepted, contended>> /\ RulesUnchanged
  BY DEF SkipComment
<1>2. HoldOK(t) /\ Held(t) = c.todo /\ c.todo \subseteq Ids /\ \A d \in c.todo : ReadOf(d, c.read[d])
  BY <1>1 DEF ConnInv, HoldOK, Held
<1>3. \A d \in Ids : /\ deliveries'[d] \in Delivery
                     /\ deliveries'[d].kind = deliveries[d].kind /\ deliveries'[d].dry = deliveries[d].dry
                     /\ d \in c.todo => deliveries'[d].status = "skipped"
                     /\ d \notin c.todo => deliveries'[d] = deliveries[d]
  <2> SUFFICES ASSUME NEW d \in Ids
               PROVE  /\ deliveries'[d] \in Delivery
                      /\ deliveries'[d].kind = deliveries[d].kind /\ deliveries'[d].dry = deliveries[d].dry
                      /\ d \in c.todo => deliveries'[d].status = "skipped"
                      /\ d \notin c.todo => deliveries'[d] = deliveries[d]
    OBVIOUS
  <2>1. CASE d \in c.todo
    <3> PICK r \in Delivery : r = c.read[d]
      BY <1>2, <2>1 DEF ReadOf
    <3>1. deliveries'[d] = [r EXCEPT !.status = "skipped"]
      BY <1>1, <2>1
    <3>2. r.kind = deliveries[d].kind /\ r.dry = deliveries[d].dry
      BY <1>2, <2>1 DEF ReadOf
    <3> QED
      BY <2>1, <3>1, <3>2 DEF Delivery
  <2>2. CASE d \notin c.todo
    <3>1. deliveries'[d] = deliveries[d]
      BY <1>1, <2>2
    <3> QED
      BY <2>2, <3>1, StoredIsTyped
  <2> QED
    BY <2>1, <2>2
<1>4. deliveries' \in Seq(Delivery) /\ Len(deliveries') = Len(deliveries) /\ Ids' = Ids
  <2>1. deliveries' \in [1..Len(deliveries) -> Delivery] /\ Len(deliveries) \in Nat
    <3>1. Len(deliveries) \in Nat
      BY DEF ConnInv, ConnTypes
    <3>2. deliveries' = [d \in Ids |-> deliveries'[d]]
      BY <1>1
    <3> QED
      BY <1>3, <3>1, <3>2 DEF Ids
  <2>2. deliveries' \in Seq(Delivery) /\ Len(deliveries') = Len(deliveries)
    BY <2>1
  <2> QED
    BY <2>2 DEF Ids
<1>5. Extended
  <2>1. \A d \in Ids : accepted[d] \in 0..2
    BY StoredIsTyped
  <2>2. \A d \in Ids : accepted'[d] >= accepted[d]
    BY <1>1, <2>1
  <2>3. contended \subseteq contended' /\ contended' \subseteq Ids'
    BY <1>1, <1>4 DEF ConnInv, ConnTypes
  <2> QED
    BY <1>1, <1>3, <1>4, <2>2, <2>3 DEF Extended, ConnInv, ConnTypes
<1>6. EventsGrow /\ Behind(rules)' /\ rules' \in [Rules -> Rule]
  BY <1>1, RulesKept
<1>7. /\ connCall' = [u \in Threads |-> connCall'[u]] /\ connCall'[t].at = "idle"
      /\ \A u \in Threads \ {t} : connCall'[u] = connCall[u]
  BY <1>1, MoveFacts
<1>8. Held(t)' = {} /\ RunOK(t)' /\ HoldOK(t)'
  BY <1>7 DEF Held, RunOK, HoldOK
<1>9. \A d \in Ids' \ contended' : SentOnce(d)'
  <2> SUFFICES ASSUME NEW d \in Ids, d \notin contended PROVE SentOnce(d)'
    BY <1>1, <1>4
  <2>1. CASE d \notin c.todo
    BY <1>1, <1>2, <1>3, <1>5, <1>6, <1>7, <1>8, <2>1, SentOnceKept
  <2>2. CASE d \in c.todo
    <3>1. SentOnce(d)
      BY DEF ConnInv
    <3>2. \A u \in Threads : d \notin Held(u)'
      BY <1>2, <1>5, <1>6, <1>7, <1>8, <2>2, <3>1, CallKept DEF SentOnce
    <3>3. accepted[d] = 0
      BY <1>1, <1>2, <2>2, <3>1 DEF SentOnce, HolderOK
    <3>4. FreeOK(d)'
      BY <1>1, <1>3, <2>2, <3>3 DEF FreeOK
    <3> QED
      BY <3>2, <3>4 DEF SentOnce
  <2> QED
    BY <2>1, <2>2
<1>10. \A d \in Ids' : deliveries'[d].status = "delivered" => accepted'[d] >= 1
  BY <1>1, <1>3, <1>4 DEF ConnInv
<1> QED
  BY <1>5, <1>6, <1>7, <1>8, <1>9, <1>10, StepKeeps

\* A comment that is not dry is sent as the queue sends a delivery.
LEMMA SendCommentKeeps ==
  ASSUME ConnInv, NEW t \in Threads, SendComment(t)
  PROVE  ConnInv'
<1> PICK c : c = connCall[t]
  OBVIOUS
<1>1. /\ c.at = "comment" /\ ConnMove(t, "send", c.todo, c.read)
      /\ \A d \in c.todo : ~deliveries[d].dry
      /\ DeliveriesUnchanged /\ RulesUnchanged
  BY DEF SendComment, DeliveriesUnchanged
<1>2. Extended /\ Ids' = Ids /\ EventsGrow /\ Behind(rules)' /\ rules' \in [Rules -> Rule]
  BY <1>1, SameDeliveries, RulesKept
<1>3. HoldOK(t) /\ Held(t) = c.todo /\ c.todo \subseteq Ids /\ c.todo # {} /\ \A d \in c.todo : ReadOf(d, c.read[d])
  BY <1>1 DEF ConnInv, HoldOK, Held
<1>4. /\ connCall' = [u \in Threads |-> connCall'[u]]
      /\ connCall'[t].at = "send" /\ connCall'[t].todo = c.todo /\ connCall'[t].read = c.read
      /\ \A u \in Threads \ {t} : connCall'[u] = connCall[u]
  <2>1. ConnMove(t, "send", c.todo, c.read)
    BY <1>1
  <2> QED
    BY <2>1 DEF ConnMove, ConnInv, ConnTypes
<1>5. Held(t)' = Held(t) /\ RunOK(t)'
  BY <1>3, <1>4 DEF Held, RunOK
<1>6. HoldOK(t)'
  <2>1. \A d \in c.todo : ReadOf(d, c.read[d])'
    BY <1>2, <1>3, ReadKept
  <2> QED
    BY <1>2, <1>3, <1>4, <1>5, <2>1 DEF HoldOK
<1>7. \A d \in Ids \ contended : SentOnce(d)'
  <2> SUFFICES ASSUME NEW d \in Ids \ contended PROVE SentOnce(d)'
    OBVIOUS
  <2>1. d \in Held(t) => HolderOK(t, d)'
    <3> SUFFICES ASSUME d \in Held(t) PROVE HolderOK(t, d)'
      OBVIOUS
    <3>1. HolderOK(t, d)
      BY DEF ConnInv, SentOnce
    <3>2. accepted[d] = 0 /\ ~deliveries[d].dry /\ deliveries[d].status # "delivered"
      BY <1>1, <1>3, <3>1 DEF HolderOK
    <3> QED
      BY <1>1, <1>4, <3>2 DEF HolderOK, DeliveriesUnchanged
  <2> QED
    BY <1>1, <1>2, <1>4, <1>5, <2>1, SentOnceKept DEF DeliveriesUnchanged
<1> QED
  BY <1>1, <1>2, <1>4, <1>5, <1>6, <1>7, StepKeeps DEF DeliveriesUnchanged, ConnInv

LEMMA DropRequestKeeps ==
  ASSUME ConnInv, NEW t \in Threads, DropRequest(t)
  PROVE  ConnInv'
<1>1. /\ ConnMove(t, "idle", {}, None) /\ contended' = contended \cup Held(t)
      /\ UNCHANGED <<deliveries, accepted>> /\ RulesUnchanged
  BY DEF DropRequest
<1>2. Ids' = Ids /\ Held(t) \subseteq Ids
  BY <1>1 DEF Ids, ConnInv, HoldOK
<1>3. Extended
  <2>1. \A d \in Ids : accepted[d] \in 0..2
    BY StoredIsTyped
  <2>2. \A d \in Ids : accepted'[d] >= accepted[d]
    BY <1>1, <2>1
  <2>3. contended \subseteq contended' /\ contended' \subseteq Ids'
    BY <1>1, <1>2 DEF ConnInv, ConnTypes
  <2> QED
    BY <1>1, <1>2, <2>2, <2>3 DEF Extended, ConnInv, ConnTypes
<1>4. EventsGrow /\ Behind(rules)' /\ rules' \in [Rules -> Rule]
  BY <1>1, RulesKept
<1>5. /\ connCall' = [u \in Threads |-> connCall'[u]] /\ connCall'[t].at = "idle"
      /\ \A u \in Threads \ {t} : connCall'[u] = connCall[u]
  BY <1>1, MoveFacts
<1>6. Held(t)' = {} /\ RunOK(t)' /\ HoldOK(t)'
  BY <1>5 DEF Held, RunOK, HoldOK
<1>7. \A d \in Ids' \ contended' : SentOnce(d)'
  <2> SUFFICES ASSUME NEW d \in Ids, d \notin contended, d \notin Held(t) PROVE SentOnce(d)'
    BY <1>1, <1>2
  <2> QED
    BY <1>1, <1>3, <1>4, <1>5, <1>6, SentOnceKept
<1>8. \A d \in Ids' : deliveries'[d].status = "delivered" => accepted'[d] >= 1
  BY <1>1, <1>2 DEF ConnInv
<1> QED
  BY <1>3, <1>4, <1>5, <1>6, <1>7, <1>8, StepKeeps

\* No request moves, and every delivery keeps its status.
LEMMA PurgeKeeps ==
  ASSUME ConnInv, UNCHANGED <<connCall, accepted, contended>>,
         deliveries' \in Seq(Delivery), Len(deliveries') = Len(deliveries),
         \A d \in Ids : /\ deliveries'[d].kind = deliveries[d].kind /\ deliveries'[d].dry = deliveries[d].dry
                       /\ deliveries'[d].status = deliveries[d].status,
         EventsGrow, rules' \in [Rules -> Rule], Behind(rules)'
  PROVE  ConnInv'
<1>1. Ids' = Ids
  BY DEF Ids
<1>2. \A d \in Ids : accepted'[d] >= accepted[d]
  BY StoredIsTyped
<1>3. Extended
  BY <1>1, <1>2 DEF Extended, ConnInv, ConnTypes
<1>4. \A u \in Threads : RunOK(u)' /\ HoldOK(u)' /\ Held(u)' = Held(u)
  BY <1>3, CallKept
<1>5. ASSUME NEW d \in Ids, d \notin contended PROVE SentOnce(d)'
  <2>1. SentOnce(d)
    BY <1>5 DEF ConnInv
  <2>2. ASSUME NEW u \in Threads, d \in Held(u)' PROVE HolderOK(u, d)'
    <3>1. HolderOK(u, d)
      BY <1>4, <2>1, <2>2 DEF SentOnce
    <3> QED
      BY <3>1 DEF HolderOK
  <2>3. FreeOK(d) => FreeOK(d)'
    BY DEF FreeOK
  <2> QED
    BY <1>4, <2>1, <2>2, <2>3 DEF SentOnce
<1>6. ConnTypes'
  BY <1>1 DEF ConnInv, ConnTypes, EventsGrow
<1>7. \A d \in Ids' : deliveries'[d].status = "delivered" => accepted'[d] >= 1
  BY <1>1 DEF ConnInv
<1> QED
  BY <1>1, <1>4, <1>5, <1>6, <1>7 DEF ConnInv

LEMMA PurgeRuleKeeps ==
  ASSUME ConnInv, NEW r \in Rules, PurgeRule(r)
  PROVE  ConnInv'
<1> PICK rule : rule = [rules[r] EXCEPT !.stored = FALSE]
  OBVIOUS
<1>1. rules' = [rules EXCEPT ![r] = rule] /\ UNCHANGED <<events, purged, connCall>> /\ DeliveriesUnchanged
  BY DEF PurgeRule, ConnInv, ConnTypes
<1>2. rule \in Rule /\ rule.runs <= Saved(r)
  BY DEF ConnInv, Behind, Rule
<1>3. rules' \in [Rules -> Rule] /\ Behind(rules)' /\ EventsGrow
  BY <1>1, <1>2, RuleSaved
<1> QED
  BY <1>1, <1>3, PurgeKeeps DEF DeliveriesUnchanged, ConnInv, ConnTypes

\* What the purge deletes was saved once.
LEMMA PurgeEventKeeps ==
  ASSUME ConnInv, NEW r \in Rules, PurgeEvent(r)
  PROVE  ConnInv'
<1>1. /\ events' = [events EXCEPT ![r] = @ - 1] /\ purged' = [purged EXCEPT ![r] = @ + 1] /\ events[r] > 0
      /\ UNCHANGED <<rules, connCall>> /\ DeliveriesUnchanged
  BY DEF PurgeEvent
<1>2. ConnTypes /\ Behind(rules)
  BY DEF ConnInv
<1>3. EventsGrow
  BY <1>1, <1>2 DEF ConnTypes, EventsGrow, Saved
<1>4. rules' \in [Rules -> Rule] /\ Behind(rules)'
  BY <1>1, <1>2, <1>3, BehindKept DEF ConnTypes, Behind
<1> QED
  BY <1>1, <1>2, <1>3, <1>4, PurgeKeeps DEF DeliveriesUnchanged, ConnTypes

LEMMA PurgeDeliveryKeeps ==
  ASSUME ConnInv, NEW n \in Ids, PurgeDelivery(n)
  PROVE  ConnInv'
<1> PICK record : record = [deliveries[n] EXCEPT !.stored = FALSE]
  OBVIOUS
<1>1. deliveries' = [deliveries EXCEPT ![n] = record] /\ UNCHANGED <<connCall, accepted, contended>> /\ RulesUnchanged
  BY DEF PurgeDelivery
<1>2. deliveries \in Seq(Delivery) /\ n \in 1..Len(deliveries) /\ deliveries[n] \in Delivery
  BY StoredIsTyped DEF ConnInv, ConnTypes, Ids
<1>3. /\ record \in Delivery /\ record.kind = deliveries[n].kind /\ record.dry = deliveries[n].dry
      /\ record.status = deliveries[n].status
  BY <1>2 DEF Delivery
<1>4. /\ deliveries' \in Seq(Delivery) /\ Len(deliveries') = Len(deliveries)
      /\ \A d \in Ids : deliveries'[d] = IF d = n THEN record ELSE deliveries[d]
  BY <1>1, <1>2, <1>3 DEF Ids
<1>5. EventsGrow /\ Behind(rules)' /\ rules' \in [Rules -> Rule]
  BY <1>1, RulesKept
<1> QED
  BY <1>1, <1>3, <1>4, <1>5, PurgeKeeps

LEMMA ConnStepKeeps ==
  ASSUME ConnInv, [ConnNext]_connVars
  PROVE  ConnInv'
<1>1. CASE UNCHANGED connVars
  <2>1. UNCHANGED <<deliveries, rules, events, purged, connCall, accepted, contended>>
    BY <1>1 DEF connVars
  <2>2. DeliveriesUnchanged /\ RulesUnchanged
    BY <2>1 DEF DeliveriesUnchanged, RulesUnchanged
  <2>3. Extended /\ Ids' = Ids /\ EventsGrow /\ Behind(rules)' /\ rules' \in [Rules -> Rule]
    BY <2>2, SameDeliveries, RulesKept
  <2>4. \A u \in Threads : RunOK(u)' /\ HoldOK(u)' /\ Held(u)' = Held(u)
    BY <2>1, <2>3, CallKept
  <2>5. \A d \in Ids \ contended : SentOnce(d)'
    BY <2>1, <2>4 DEF ConnInv, SentOnce, HolderOK, FreeOK
  <2>6. ConnTypes'
    BY <2>1, <2>3 DEF ConnInv, ConnTypes
  <2> QED
    BY <2>1, <2>3, <2>4, <2>5, <2>6 DEF ConnInv
<1>2. ASSUME AutomationNext PROVE ConnInv'
  <2>1. ASSUME NEW t \in Threads,
               \/ \E rs \in SUBSET Rules : Trigger(t, rs)
               \/ \E r \in Rules : RunRule(t, r) \/ OpenRule(t, r) \/ PatchRule(t, r, TRUE) \/ PatchRule(t, r, FALSE)
               \/ SaveEvent(t) \/ SaveRule(t)
        PROVE  ConnInv'
    BY <2>1, TriggerKeeps, RunRuleKeeps, OpenRuleKeeps, PatchRuleKeeps, SaveEventKeeps, SaveRuleKeeps
  <2>2. ASSUME NEW r \in Rules, PurgeRule(r) \/ PurgeEvent(r) PROVE ConnInv'
    BY <2>2, PurgeRuleKeeps, PurgeEventKeeps
  <2> QED
    BY <1>2, <2>1, <2>2 DEF AutomationNext
<1>3. ASSUME DeliveryNext PROVE ConnInv'
  <2>1. ASSUME NEW t \in Threads,
               \/ \E d \in Ids : RetryDelivery(t, d)
               \/ \E ok, lost \in BOOLEAN : Send(t, ok, lost)
               \/ OtherRuleRuns(t)
               \/ OpenQueue(t) \/ Mark(t) \/ SkipComment(t) \/ SendComment(t) \/ DropRequest(t)
               \/ OpenComment(t, TRUE) \/ OpenComment(t, FALSE)
        PROVE  ConnInv'
    BY <2>1, RetryDeliveryKeeps, OtherRuleRunsKeeps, SendKeeps, OpenQueueKeeps, MarkKeeps, SkipCommentKeeps, SendCommentKeeps,
       DropRequestKeeps, OpenCommentKeeps
  <2>2. ASSUME NEW d \in Ids, PurgeDelivery(d) PROVE ConnInv'
    BY <2>2, PurgeDeliveryKeeps
  <2> QED
    BY <1>3, <2>1, <2>2 DEF DeliveryNext
<1> QED
  BY <1>1, <1>2, <1>3 DEF ConnNext

\* Triggers, patches, retries and queue pages keep the invariant: no copy of a rule
\* is ahead of its events, and what a receiver accepted is told by the status of
\* the delivery or by the one request that holds it.
THEOREM ConnInvariant == ConnSpec => []ConnInv
  BY ConnInitHolds, ConnStepKeeps, PTL DEF ConnSpec

\* Rules, deliveries and every call on them keep their types.
THEOREM ConnTypesHold == ConnSpec => []ConnTypeOK
<1>1. ConnInv => ConnTypeOK
  <2> SUFFICES ASSUME ConnInv PROVE ConnTypeOK
    OBVIOUS
  <2>1. accepted \in [Ids -> 0..2]
    BY DEF ConnInv, ConnTypes, Ids
  <2> QED
    BY <2>1 DEF ConnInv, ConnTypes, ConnTypeOK
<1> QED
  BY <1>1, ConnInvariant, PTL

(* A run that a rule's counter claims has left its event, which a purge may *)
(* have deleted since, although triggers and patches save the whole rule    *)
(* over each other (run_automation_rule, record_automation_event,           *)
(* app/main.py).                                                            *)
THEOREM CountedRuns == ConnSpec => []CountedRunsHaveEvents
<1>1. ConnInv => CountedRunsHaveEvents
  BY DEF ConnInv, Behind, Saved, CountedRunsHaveEvents
<1> QED
  BY <1>1, ConnInvariant, PTL

LEMMA OnceFollows == ConnInv => DeliveredOnce
<1> SUFFICES ASSUME ConnInv, NEW d \in Ids
             PROVE  /\ deliveries[d].status = "delivered" => accepted[d] >= 1
                    /\ accepted[d] <= (IF deliveries[d].dry THEN 0 ELSE 1) \/ d \in contended
  BY DEF DeliveredOnce
<1>1. deliveries[d].status = "delivered" => accepted[d] >= 1
  BY DEF ConnInv
<1>2. ASSUME d \notin contended PROVE accepted[d] <= (IF deliveries[d].dry THEN 0 ELSE 1)
  <2>1. SentOnce(d)
    BY <1>2 DEF ConnInv
  <2>2. CASE \E t \in Threads : d \in Held(t)
    <3>1. PICK t \in Threads : HolderOK(t, d)
      BY <2>1, <2>2 DEF SentOnce
    <3> QED
      BY <3>1 DEF HolderOK
  <2>3. CASE \A t \in Threads : d \notin Held(t)
    BY <2>1, <2>3 DEF SentOnce, FreeOK
  <2> QED
    BY <2>2, <2>3
<1> QED
  BY <1>1, <1>2

(* A delivery is marked delivered only after its receiver accepted it, and  *)
(* the receiver gets it once, a dry run never, unless two requests held it  *)
(* at once or one stopped, or lost the answer, before it saved the outcome  *)
(* (process_connector_delivery_queue, mark_connector_delivery).             *)
THEOREM DeliveredOnceHolds == ConnSpec => []DeliveredOnce
  BY OnceFollows, ConnInvariant, PTL

-----------------------------------------------------------------------------
(* TraceIngest.                                                             *)

USE IngestAssumption

Trace == [key : TraceKeys, stored : BOOLEAN]
IngestPhases == {"idle", "check", "save", "trigger", "record"}
Ingest == [at : IngestPhases, todo : Seq(TraceKeys), done : SUBSET Nat]

IngestTypes ==
  /\ traces \in Seq(Trace)
  /\ idempotency \in [TraceKeys -> TraceIds \cup {None}]
  /\ triggered \subseteq TraceIds
  /\ ingest \in [Threads -> Ingest]
  /\ repeated \subseteq TraceKeys

\* The traces a request has accepted: all but the newest have triggered their
\* automations, no two have one key, and none has the key that is saved next.
Accepting(t) ==
  LET c == ingest[t] IN
  /\ c.done \subseteq TraceIds
  /\ c.at = "idle" => c.done = {}
  /\ c.at \in {"check", "save", "trigger"} => c.todo # <<>>
  /\ c.at # "trigger" => c.done \subseteq triggered
  /\ c.at = "trigger" => \E m \in c.done : c.done \ {m} \subseteq triggered /\ \A j \in c.done : j <= m
  /\ \A i, j \in c.done : traces[i].key = traces[j].key => i = j
  /\ c.at = "save" => \A i \in c.done : traces[i].key # Head(c.todo)

\* A record names a trace of its key.
RecordStands(k) ==
  idempotency[k] # None => traces[idempotency[k]].key = k /\ idempotency[k] \in triggered

\* One request at most has the key open, and then the traces stored under the
\* key are its own; a stored trace has the record or a request that will save it.
OneHolder(k) ==
  /\ \A t, u \in Threads : k \in Pending(t) /\ k \in Pending(u) => t = u
  /\ \A t \in Threads, i \in TraceIds :
       k \in Pending(t) /\ traces[i].key = k /\ traces[i].stored => i \in ingest[t].done
  /\ \A i \in TraceIds :
       traces[i].key = k /\ traces[i].stored => idempotency[k] = i \/ \E t \in Threads : i \in ingest[t].done

IngestInv ==
  /\ IngestTypes
  /\ \A t \in Threads : Accepting(t)
  /\ \A k \in TraceKeys : RecordStands(k)
  /\ \A k \in TraceKeys \ repeated : OneHolder(k)

LEMMA NoIngestIsTyped == NoIngest \in Ingest /\ NoIngest.at = "idle" /\ NoIngest.done = {}
  BY DEF NoIngest, Ingest, IngestPhases

LEMMA IngestInitHolds == IngestInit => IngestInv
<1> SUFFICES ASSUME IngestInit PROVE IngestInv
  OBVIOUS
<1>1. IngestTypes /\ TraceIds = {}
  BY NoIngestIsTyped DEF IngestInit, IngestTypes, TraceIds
<1>2. \A t \in Threads : ingest[t] = NoIngest /\ Accepting(t)
  BY NoIngestIsTyped DEF IngestInit, Accepting
<1>3. \A t \in Threads : Pending(t) = {}
  BY <1>2, NoIngestIsTyped DEF Pending
<1> QED
  BY <1>1, <1>2, <1>3 DEF IngestInit, IngestInv, RecordStands, OneHolder

\* The key of a trace stays, and a purged trace does not come back.
KeysKept ==
  /\ TraceIds \subseteq TraceIds'
  /\ \A i \in TraceIds : traces'[i].key = traces[i].key /\ (traces'[i].stored => traces[i].stored)

LEMMA OthersKept ==
  ASSUME IngestInv, KeysKept, triggered \subseteq triggered', NEW u \in Threads, ingest'[u] = ingest[u]
  PROVE  Accepting(u)' /\ Pending(u)' = Pending(u)
<1> PICK c \in Ingest : c = ingest[u]
  BY DEF IngestInv, IngestTypes
<1>1. Accepting(u) /\ ingest'[u] = c
  BY DEF IngestInv
<1>2. c.done \subseteq TraceIds /\ \A i \in c.done : traces'[i].key = traces[i].key
  BY <1>1 DEF Accepting, KeysKept
<1>3. Pending(u)' = Pending(u)
  <2>1. {traces'[i].key : i \in c.done} = {traces[i].key : i \in c.done}
    BY <1>2
  <2> QED
    BY <1>1, <2>1 DEF Pending
<1>4. Accepting(u)'
  BY <1>1, <1>2 DEF Accepting, KeysKept
<1> QED
  BY <1>3, <1>4

\* A record that stays stands.
LEMMA RecordsKept ==
  ASSUME IngestInv, KeysKept, triggered \subseteq triggered', NEW k \in TraceKeys, idempotency'[k] = idempotency[k]
  PROVE  RecordStands(k)'
<1>1. RecordStands(k) /\ idempotency[k] \in TraceIds \cup {None}
  BY DEF IngestInv, IngestTypes
<1> QED
  BY <1>1 DEF RecordStands, KeysKept

\* A key that one thread's step does not touch keeps its one holder.
LEMMA HolderKept ==
  ASSUME IngestInv, KeysKept, triggered \subseteq triggered', NEW k \in TraceKeys \ repeated,
         NEW t \in Threads, \A u \in Threads \ {t} : ingest'[u] = ingest[u],
         k \in Pending(t)' => k \in Pending(t),
         idempotency'[k] = idempotency[k],
         \A i \in TraceIds' \ TraceIds : traces'[i].key # k,
         \A i \in TraceIds : traces[i].key = k => (i \in ingest'[t].done <=> i \in ingest[t].done)
  PROVE  OneHolder(k)'
<1>1. OneHolder(k)
  BY DEF IngestInv
<1>2. \A u \in Threads : k \in Pending(u)' => k \in Pending(u)
  BY OthersKept
<1>3. \A i \in TraceIds, u \in Threads : traces[i].key = k => (i \in ingest'[u].done <=> i \in ingest[u].done)
  OBVIOUS
<1>4. \A i \in TraceIds' : traces'[i].key = k /\ traces'[i].stored => i \in TraceIds /\ traces[i].key = k /\ traces[i].stored
  BY DEF KeysKept
<1> QED
  BY <1>1, <1>2, <1>3, <1>4 DEF OneHolder

LEMMA UnchangedKeys ==
  ASSUME UNCHANGED traces
  PROVE  KeysKept /\ TraceIds' = TraceIds
  BY DEF KeysKept, TraceIds

-----------------------------------------------------------------------------
LEMMA StartIngestKeeps ==
  ASSUME IngestInv, NEW t \in Threads, NEW batch \in Batches, StartIngest(t, batch)
  PROVE  IngestInv'
<1> PICK c : c = [NoIngest EXCEPT !.at = "check", !.todo = batch]
  OBVIOUS
<1>1. batch \in Seq(TraceKeys) /\ batch # <<>>
  <2>1. PICK n \in 1..MaxBatch : batch \in [1..n -> TraceKeys]
    BY DEF Batches
  <2>2. n \in Nat /\ batch \in Seq(TraceKeys) /\ Len(batch) = n /\ n > 0
    BY <2>1
  <2> QED
    BY <2>2
<1>2. c \in Ingest /\ c.at = "check" /\ c.todo = batch /\ c.done = {}
  BY <1>1 DEF NoIngest, Ingest, IngestPhases
<1>3. /\ ingest' = [ingest EXCEPT ![t] = c] /\ ingest'[t] = c
      /\ UNCHANGED <<traces, idempotency, triggered, repeated>>
      /\ \A u \in Threads \ {t} : ingest'[u] = ingest[u]
  BY DEF StartIngest, IngestInv, IngestTypes
<1>4. IngestTypes'
  BY <1>2, <1>3 DEF IngestInv, IngestTypes, TraceIds
<1>5. KeysKept /\ TraceIds' = TraceIds
  BY <1>3, UnchangedKeys
<1>6. ingest[t].done = {}
  BY DEF StartIngest, IngestInv, Accepting
<1>7. Accepting(t)' /\ Pending(t)' = {}
  BY <1>1, <1>2, <1>3 DEF Accepting, Pending
<1>8. \A u \in Threads : Accepting(u)'
  BY <1>3, <1>5, <1>7, OthersKept
<1>9. \A k \in TraceKeys : RecordStands(k)'
  BY <1>3, <1>5, RecordsKept
<1>10. \A k \in TraceKeys \ repeated : OneHolder(k)'
  BY <1>2, <1>3, <1>5, <1>6, <1>7, HolderKept
<1> QED
  BY <1>3, <1>4, <1>8, <1>9, <1>10 DEF IngestInv

\* What a thread has to do comes from the requests.
LEMMA HeadIsKey ==
  ASSUME IngestInv, NEW t \in Threads, ingest[t].at \in {"check", "save", "trigger"}
  PROVE  Head(ingest[t].todo) \in TraceKeys /\ Tail(ingest[t].todo) \in Seq(TraceKeys)
<1>1. ingest[t].todo \in Seq(TraceKeys) /\ ingest[t].todo # <<>>
  BY DEF IngestInv, IngestTypes, Ingest, Accepting
<1> QED
  BY <1>1

\* A trace that is skipped, or done with its automations: on to the next.
LEMMA NextTraceKeeps ==
  ASSUME IngestInv, NEW t \in Threads, ingest[t].at \in {"check", "trigger"},
         UNCHANGED <<traces, idempotency, repeated>>,
         triggered \subseteq triggered', triggered' \subseteq TraceIds, ingest[t].done \subseteq triggered',
         ingest' = [ingest EXCEPT ![t].todo = Tail(ingest[t].todo),
                                  ![t].at = IF Tail(ingest[t].todo) = <<>> THEN "record" ELSE "check"]
  PROVE  IngestInv'
<1> PICK c \in Ingest : c = ingest[t]
  BY DEF IngestInv, IngestTypes
<1> PICK rest : rest = Tail(c.todo)
  OBVIOUS
<1> PICK d : d = [c EXCEPT !.todo = rest, !.at = IF rest = <<>> THEN "record" ELSE "check"]
  OBVIOUS
<1>1. rest \in Seq(TraceKeys)
  BY HeadIsKey
<1>2. d \in Ingest /\ d.done = c.done /\ d.todo = rest /\ d.at \in {"record", "check"} /\ (d.at = "check" => rest # <<>>)
  BY <1>1 DEF Ingest, IngestPhases
<1>3. /\ ingest' = [ingest EXCEPT ![t] = d] /\ ingest'[t] = d
      /\ \A u \in Threads \ {t} : ingest'[u] = ingest[u]
  BY DEF IngestInv, IngestTypes
<1>5. KeysKept /\ TraceIds' = TraceIds
  BY UnchangedKeys
<1>4. IngestTypes'
  <2>1. ingest' \in [Threads -> Ingest]
    BY <1>2, <1>3 DEF IngestInv, IngestTypes
  <2>2. idempotency' \in [TraceKeys -> TraceIds' \cup {None}] /\ triggered' \subseteq TraceIds'
    BY <1>5 DEF IngestInv, IngestTypes
  <2> QED
    BY <2>1, <2>2 DEF IngestInv, IngestTypes
<1>6. Accepting(t)
  BY DEF IngestInv
<1>7. Accepting(t)'
  BY <1>2, <1>3, <1>5, <1>6 DEF Accepting
<1>8. Pending(t)' = Pending(t)
  <2>1. Pending(t) = {traces[i].key : i \in c.done}
    BY DEF Pending
  <2>2. Pending(t)' = {traces[i].key : i \in d.done}
    <3>1. traces' = traces /\ ingest'[t].at # "save" /\ ingest'[t].done = d.done
      BY <1>2, <1>3
    <3> QED
      BY <3>1 DEF Pending
  <2> QED
    BY <1>2, <2>1, <2>2
<1>9. \A u \in Threads : Accepting(u)'
  BY <1>3, <1>5, <1>7, OthersKept
<1>10. \A k \in TraceKeys : RecordStands(k)'
  BY <1>5, RecordsKept
<1>11. \A k \in TraceKeys \ repeated : OneHolder(k)'
  <2>1. \A i \in TraceIds : i \in ingest'[t].done <=> i \in ingest[t].done
    BY <1>2, <1>3
  <2> QED
    BY <1>3, <1>5, <1>8, <2>1, HolderKept
<1> QED
  BY <1>4, <1>9, <1>10, <1>11 DEF IngestInv

\* A new key: nothing is stored under it, unless another request has it open.
LEMMA NewKeyKeeps ==
  ASSUME IngestInv, NEW t \in Threads, CheckTrace(t), ~Duplicate(t, Head(ingest[t].todo))
  PROVE  IngestInv'
<1> PICK c \in Ingest : c = ingest[t]
  BY DEF IngestInv, IngestTypes
<1> PICK d : d = [c EXCEPT !.at = "save"]
  OBVIOUS
<1> PICK h \in TraceKeys : h = Head(c.todo)
  BY HeadIsKey DEF CheckTrace
<1>1. c.at = "check" /\ ~Known(h) /\ \A i \in c.done : traces[i].key # h
  BY DEF CheckTrace, Duplicate, SeenHere
<1>2. d \in Ingest /\ d.done = c.done /\ d.todo = c.todo /\ d.at = "save"
  BY DEF Ingest, IngestPhases
<1>3. /\ ingest' = [ingest EXCEPT ![t] = d] /\ ingest'[t] = d
      /\ \A u \in Threads \ {t} : ingest'[u] = ingest[u]
      /\ UNCHANGED <<traces, idempotency, triggered>>
      /\ repeated' = IF \E u \in Threads \ {t} : h \in Pending(u) THEN repeated \cup {h} ELSE repeated
  BY DEF CheckTrace, IngestInv, IngestTypes
<1>4. IngestTypes'
  BY <1>2, <1>3 DEF IngestInv, IngestTypes, TraceIds
<1>5. KeysKept /\ TraceIds' = TraceIds
  BY <1>3, UnchangedKeys
<1>6. Accepting(t)
  BY DEF IngestInv
<1>7. Accepting(t)'
  BY <1>1, <1>2, <1>3, <1>5, <1>6 DEF Accepting
<1>8. Pending(t)' = Pending(t) \cup {h}
  <2>1. Pending(t) = {traces[i].key : i \in c.done}
    BY <1>1 DEF Pending
  <2>2. Pending(t)' = {traces[i].key : i \in d.done} \cup {Head(d.todo)}
    BY <1>2, <1>3 DEF Pending
  <2> QED
    BY <1>2, <2>1, <2>2
<1>9. \A u \in Threads : Accepting(u)'
  BY <1>3, <1>5, <1>7, OthersKept
<1>10. \A k \in TraceKeys : RecordStands(k)'
  BY <1>3, <1>5, RecordsKept
<1>11. \A k \in TraceKeys \ repeated' : OneHolder(k)'
  <2> SUFFICES ASSUME NEW k \in TraceKeys \ repeated' PROVE OneHolder(k)'
    OBVIOUS
  <2>1. k \notin repeated
    BY <1>3
  <2>2. CASE k # h
    BY <1>2, <1>3, <1>5, <1>8, <2>1, <2>2, HolderKept
  <2>3. CASE k = h
    <3>1. \A u \in Threads \ {t} : h \notin Pending(u)
      BY <1>3, <2>3
    <3>2. \A u \in Threads \ {t} : h \notin Pending(u)'
      BY <1>3, <1>5, <3>1, OthersKept
    <3>3. OneHolder(h)
      BY <2>1, <2>3 DEF IngestInv
    <3>4. \A i \in TraceIds, u \in Threads : traces[i].key = h => i \notin ingest[u].done
      BY <1>1, <3>1 DEF Pending
    <3>5. \A i \in TraceIds : ~(traces[i].key = h /\ traces[i].stored)
      <4> SUFFICES ASSUME NEW i \in TraceIds, traces[i].key = h, traces[i].stored PROVE FALSE
        OBVIOUS
      <4>1. idempotency[h] = i
        BY <3>3, <3>4 DEF OneHolder
      <4>2. i # None
        BY DEF TraceIds
      <4> QED
        BY <1>1, <4>1, <4>2 DEF Known
    <3>6. \A i \in TraceIds' : ~(traces'[i].key = h /\ traces'[i].stored)
      BY <1>3, <1>5, <3>5
    <3> QED
      BY <2>3, <3>2, <3>6 DEF OneHolder
  <2> QED
    BY <2>2, <2>3
<1> QED
  BY <1>4, <1>9, <1>10, <1>11 DEF IngestInv

LEMMA CheckTraceKeeps ==
  ASSUME IngestInv, NEW t \in Threads, CheckTrace(t)
  PROVE  IngestInv'
<1>1. CASE Duplicate(t, Head(ingest[t].todo))
  <2>1. ingest[t].done \subseteq triggered /\ triggered \subseteq TraceIds
    BY DEF CheckTrace, IngestInv, Accepting, IngestTypes
  <2> QED
    BY <1>1, <2>1, NextTraceKeeps DEF CheckTrace
<1>2. CASE ~Duplicate(t, Head(ingest[t].todo))
  BY <1>2, NewKeyKeeps
<1> QED
  BY <1>1, <1>2

LEMMA TriggerTraceKeeps ==
  ASSUME IngestInv, NEW t \in Threads, TriggerTrace(t)
  PROVE  IngestInv'
<1> PICK saved : saved = CHOOSE i \in ingest[t].done : \A j \in ingest[t].done : j <= i
  OBVIOUS
<1>1. /\ ingest[t].at = "trigger" /\ triggered' = triggered \cup {saved}
      /\ ingest' = [ingest EXCEPT ![t].todo = Tail(ingest[t].todo),
                                  ![t].at = IF Tail(ingest[t].todo) = <<>> THEN "record" ELSE "check"]
      /\ UNCHANGED <<traces, idempotency, repeated>>
  BY DEF TriggerTrace
<1>2. Accepting(t)
  BY DEF IngestInv
<1>3. PICK m \in ingest[t].done : ingest[t].done \ {m} \subseteq triggered /\ \A j \in ingest[t].done : j <= m
  BY <1>1, <1>2 DEF Accepting
<1>4. saved \in ingest[t].done /\ \A j \in ingest[t].done : j <= saved
  BY <1>3
<1>5. saved = m
  <2>1. ingest[t].done \subseteq Nat
    BY DEF IngestInv, IngestTypes, Ingest
  <2> QED
    BY <1>3, <1>4, <2>1
<1>6. ingest[t].done \subseteq TraceIds /\ triggered \subseteq TraceIds
  BY <1>2 DEF Accepting, IngestInv, IngestTypes
<1> QED
  BY <1>1, <1>3, <1>4, <1>5, <1>6, NextTraceKeeps

LEMMA SaveTraceKeeps ==
  ASSUME IngestInv, NEW t \in Threads, SaveTrace(t)
  PROVE  IngestInv'
<1> PICK c \in Ingest : c = ingest[t]
  BY DEF IngestInv, IngestTypes
<1> PICK h \in TraceKeys : h = Head(c.todo)
  BY HeadIsKey DEF SaveTrace
<1> PICK n \in Nat : n = Len(traces) + 1
  BY DEF IngestInv, IngestTypes
<1> PICK d : d = [c EXCEPT !.at = "trigger", !.done = c.done \cup {n}]
  OBVIOUS
<1>1. Accepting(t) /\ c.at = "save" /\ h \in Pending(t)
  BY DEF SaveTrace, IngestInv, Pending
<1>2. /\ d \in Ingest /\ d.done = c.done \cup {n} /\ d.todo = c.todo /\ d.at = "trigger"
  BY DEF Ingest, IngestPhases
<1>3. /\ ingest' = [ingest EXCEPT ![t] = d] /\ ingest'[t] = d
      /\ \A u \in Threads \ {t} : ingest'[u] = ingest[u]
      /\ UNCHANGED <<idempotency, triggered, repeated>>
  BY DEF SaveTrace, IngestInv, IngestTypes
<1>4. /\ TraceIds' = TraceIds \cup {n} /\ n \notin TraceIds
      /\ traces' \in Seq(Trace)
      /\ \A i \in TraceIds : traces'[i] = traces[i]
      /\ traces'[n].key = h
      /\ \A i \in TraceIds : i <= n
  <2> PICK r : r = [key |-> h, stored |-> TRUE]
    OBVIOUS
  <2>1. r \in Trace /\ r.key = h /\ traces \in Seq(Trace) /\ traces' = Append(traces, r)
    BY DEF SaveTrace, Trace, IngestInv, IngestTypes
  <2>2. Len(traces') = n /\ traces' \in Seq(Trace) /\ traces'[n] = r
        /\ \A i \in 1..Len(traces) : traces'[i] = traces[i]
    BY <2>1
  <2>3. Len(traces) \in Nat
    BY <2>1
  <2> QED
    BY <2>1, <2>2, <2>3 DEF TraceIds
<1>5. KeysKept
  BY <1>4 DEF KeysKept
<1>6. IngestTypes'
  BY <1>2, <1>3, <1>4 DEF IngestInv, IngestTypes
<1>7. Accepting(t)'
  <2>1. c.done \subseteq TraceIds /\ c.done \subseteq triggered
    BY <1>1 DEF Accepting
  <2>2. \A i \in c.done : traces'[i].key = traces[i].key /\ traces[i].key # h /\ i <= n /\ i # n
    BY <1>1, <1>4, <2>1 DEF Accepting
  <2>3. \A i, j \in d.done : traces'[i].key = traces'[j].key => i = j
    BY <1>1, <1>2, <1>4, <2>2 DEF Accepting
  <2>4. d.done \ {n} \subseteq triggered /\ \A j \in d.done : j <= n
    BY <1>2, <2>1, <2>2
  <2>5. d.todo # <<>> /\ d.done \subseteq TraceIds'
    BY <1>1, <1>2, <1>4, <2>1 DEF Accepting
  <2> QED
    BY <1>2, <1>3, <2>3, <2>4, <2>5 DEF Accepting
<1>8. Pending(t)' = Pending(t)
  <2>1. \A i \in c.done : traces'[i].key = traces[i].key
    BY <1>1, <1>4 DEF Accepting
  <2>2. {traces'[i].key : i \in d.done} = {traces[i].key : i \in c.done} \cup {h}
    BY <1>2, <1>4, <2>1
  <2> QED
    BY <1>1, <1>2, <1>3, <2>2 DEF Pending
<1>9. \A u \in Threads : Accepting(u)'
  BY <1>3, <1>5, <1>7, OthersKept
<1>10. \A k \in TraceKeys : RecordStands(k)'
  BY <1>3, <1>5, RecordsKept
<1>11. \A k \in TraceKeys \ repeated : OneHolder(k)'
  <2> SUFFICES ASSUME NEW k \in TraceKeys \ repeated PROVE OneHolder(k)'
    OBVIOUS
  <2>1. CASE k # h
    BY <1>2, <1>3, <1>4, <1>5, <1>8, <2>1, HolderKept
  <2>2. CASE k = h
    <3>1. OneHolder(h)
      BY <2>2 DEF IngestInv
    <3>2. \A u \in Threads : h \in Pending(u)' => u = t
      BY <1>1, <1>3, <1>5, <3>1, OthersKept DEF OneHolder
    <3>3. \A i \in TraceIds : traces'[i].key = h /\ traces'[i].stored => i \in c.done
      BY <1>1, <1>5, <3>1 DEF OneHolder, KeysKept
    <3>4. \A i \in TraceIds' : traces'[i].key = h /\ traces'[i].stored => i \in ingest'[t].done
      BY <1>2, <1>3, <1>4, <3>3
    <3> QED
      BY <2>2, <3>2, <3>4 DEF OneHolder
  <2> QED
    BY <2>1, <2>2
<1> QED
  BY <1>3, <1>6, <1>9, <1>10, <1>11 DEF IngestInv

LEMMA TraceIsTyped ==
  ASSUME IngestInv, NEW i \in TraceIds
  PROVE  traces[i] \in Trace /\ traces[i].key \in TraceKeys
<1>1. traces \in Seq(Trace) /\ i \in 1..Len(traces)
  BY DEF IngestInv, IngestTypes, TraceIds
<1>2. traces[i] \in Trace
  BY <1>1
<1> QED
  BY <1>2 DEF Trace

\* The record of the oldest accepted trace: its key is not open any more.
LEMMA RecordKeyKeeps ==
  ASSUME IngestInv, NEW t \in Threads, RecordTrace(t), ingest[t].done # {}
  PROVE  IngestInv'
<1> PICK c \in Ingest : c = ingest[t]
  BY DEF IngestInv, IngestTypes
<1> PICK n : n = CHOOSE x \in c.done : \A y \in c.done : x <= y
  OBVIOUS
<1>1. n \in c.done
  <2>1. c.done \subseteq Nat
    BY DEF Ingest
  <2> QED
    BY <2>1, LeastExists
<1>2. Accepting(t) /\ c.at = "record" /\ n \in TraceIds /\ n \in triggered
  BY <1>1 DEF RecordTrace, IngestInv, Accepting
<1> PICK k \in TraceKeys : k = traces[n].key
  BY <1>2, TraceIsTyped
<1> PICK d : d = [c EXCEPT !.done = c.done \ {n}]
  OBVIOUS
<1>3. d \in Ingest /\ d.done = c.done \ {n} /\ d.todo = c.todo /\ d.at = "record"
  BY <1>2 DEF Ingest, IngestPhases
<1>4. /\ ingest' = [ingest EXCEPT ![t] = d] /\ ingest'[t] = d
      /\ \A u \in Threads \ {t} : ingest'[u] = ingest[u]
      /\ idempotency' = [idempotency EXCEPT ![k] = n]
      /\ UNCHANGED <<traces, triggered, repeated>>
  <2>1. /\ idempotency' = [idempotency EXCEPT ![k] = n]
        /\ ingest' = [ingest EXCEPT ![t].done = @ \ {n}]
        /\ UNCHANGED <<traces, triggered, repeated>>
    BY DEF RecordTrace
  <2>2. ingest \in [Threads -> Ingest]
    BY DEF IngestInv, IngestTypes
  <2> QED
    BY <2>1, <2>2
<1>5. KeysKept /\ TraceIds' = TraceIds
  BY <1>4, UnchangedKeys
<1>6. IngestTypes'
  BY <1>2, <1>3, <1>4, <1>5 DEF IngestInv, IngestTypes
<1>7. Accepting(t)'
  BY <1>2, <1>3, <1>4, <1>5 DEF Accepting
<1>8. Pending(t) = {traces[i].key : i \in c.done} /\ Pending(t)' = {traces[i].key : i \in d.done}
  <2>1. Pending(t) = {traces[i].key : i \in c.done}
    BY <1>2 DEF Pending
  <2>2. traces' = traces /\ ingest'[t].at # "save" /\ ingest'[t].done = d.done
    BY <1>3, <1>4
  <2>3. Pending(t)' = {traces[i].key : i \in d.done}
    BY <2>2 DEF Pending
  <2> QED
    BY <2>1, <2>3
<1>9. k \in Pending(t) /\ k \notin Pending(t)' /\ Pending(t)' \subseteq Pending(t)
  BY <1>1, <1>2, <1>3, <1>8 DEF Accepting
<1>10. \A u \in Threads : Accepting(u)'
  BY <1>4, <1>5, <1>7, OthersKept
<1>11. \A l \in TraceKeys : RecordStands(l)'
  <2>1. RecordStands(k)'
    BY <1>2, <1>4 DEF RecordStands, IngestInv, IngestTypes
  <2>2. \A l \in TraceKeys \ {k} : idempotency'[l] = idempotency[l]
    BY <1>4 DEF IngestInv, IngestTypes
  <2> QED
    BY <1>4, <1>5, <2>1, <2>2, RecordsKept
<1>12. \A l \in TraceKeys \ repeated : OneHolder(l)'
  <2> SUFFICES ASSUME NEW l \in TraceKeys \ repeated PROVE OneHolder(l)'
    OBVIOUS
  <2>1. CASE l # k
    <3>1. idempotency'[l] = idempotency[l]
      BY <1>4, <2>1 DEF IngestInv, IngestTypes
    <3>2. \A i \in TraceIds : traces[i].key = l => (i \in ingest'[t].done <=> i \in ingest[t].done)
      BY <1>3, <1>4, <2>1
    <3> QED
      BY <1>4, <1>5, <1>9, <3>1, <3>2, HolderKept
  <2>2. CASE l = k
    <3>1. OneHolder(k)
      BY <2>2 DEF IngestInv
    <3>2. \A u \in Threads : k \notin Pending(u)'
      BY <1>4, <1>5, <1>9, <3>1, OthersKept DEF OneHolder
    <3>3. \A i \in TraceIds : traces[i].key = k /\ traces[i].stored => i = n
      BY <1>1, <1>2, <1>9, <3>1 DEF OneHolder, Accepting
    <3>4. idempotency'[k] = n
      BY <1>4 DEF IngestInv, IngestTypes
    <3> QED
      BY <1>4, <1>5, <2>2, <3>2, <3>3, <3>4 DEF OneHolder
  <2> QED
    BY <2>1, <2>2
<1> QED
  BY <1>4, <1>6, <1>10, <1>11, <1>12 DEF IngestInv

\* A request that ends, or stops: what it left without a record is not counted on.
LEMMA EndIngestKeeps ==
  ASSUME IngestInv, NEW t \in Threads, ingest' = [ingest EXCEPT ![t] = NoIngest],
         repeated' = repeated \cup Pending(t), Pending(t) \subseteq TraceKeys,
         UNCHANGED <<traces, idempotency, triggered>>
  PROVE  IngestInv'
<1> PICK d : d = NoIngest
  OBVIOUS
<1>1. d \in Ingest /\ d.done = {} /\ d.at = "idle"
  BY NoIngestIsTyped
<1>2. ingest'[t] = d /\ \A u \in Threads \ {t} : ingest'[u] = ingest[u]
  BY DEF IngestInv, IngestTypes
<1>3. KeysKept /\ TraceIds' = TraceIds
  BY UnchangedKeys
<1>4. IngestTypes'
  BY <1>1, <1>3 DEF IngestInv, IngestTypes
<1>5. Accepting(t)' /\ Pending(t)' = {}
  BY <1>1, <1>2 DEF Accepting, Pending
<1>6. \A u \in Threads : Accepting(u)'
  BY <1>2, <1>3, <1>5, OthersKept
<1>7. \A k \in TraceKeys : RecordStands(k)'
  BY <1>3, RecordsKept
<1>8. \A k \in TraceKeys \ repeated' : OneHolder(k)'
  <2> SUFFICES ASSUME NEW k \in TraceKeys \ repeated' PROVE OneHolder(k)'
    OBVIOUS
  <2>1. k \notin repeated /\ k \notin Pending(t)
    OBVIOUS
  <2>2. \A i \in TraceIds : traces[i].key = k => i \notin ingest[t].done
    BY <2>1 DEF Pending
  <2>3. \A i \in TraceIds : traces[i].key = k => (i \in ingest'[t].done <=> i \in ingest[t].done)
    BY <1>1, <1>2, <2>2
  <2> QED
    BY <1>2, <1>3, <1>5, <2>1, <2>3, HolderKept
<1> QED
  BY <1>4, <1>6, <1>7, <1>8 DEF IngestInv

LEMMA PendingAreKeys ==
  ASSUME IngestInv, NEW t \in Threads
  PROVE  Pending(t) \subseteq TraceKeys
<1>1. \A i \in ingest[t].done : traces[i].key \in TraceKeys
  BY TraceIsTyped DEF IngestInv, Accepting
<1>2. ingest[t].at = "save" => Head(ingest[t].todo) \in TraceKeys
  BY HeadIsKey
<1> QED
  BY <1>1, <1>2 DEF Pending

LEMMA RecordTraceKeeps ==
  ASSUME IngestInv, NEW t \in Threads, RecordTrace(t)
  PROVE  IngestInv'
<1>1. CASE ingest[t].done = {}
  <2>1. Pending(t) = {}
    BY <1>1 DEF RecordTrace, Pending
  <2>2. ingest' = [ingest EXCEPT ![t] = NoIngest] /\ UNCHANGED <<traces, idempotency, triggered>> /\ repeated' = repeated
    BY <1>1 DEF RecordTrace
  <2> QED
    BY <2>1, <2>2, EndIngestKeeps
<1> QED
  BY <1>1, RecordKeyKeeps

LEMMA DropIngestKeeps ==
  ASSUME IngestInv, NEW t \in Threads, DropIngest(t)
  PROVE  IngestInv'
  BY PendingAreKeys, EndIngestKeeps DEF DropIngest

LEMMA PurgeTraceKeeps ==
  ASSUME IngestInv, NEW n \in TraceIds, PurgeTrace(n)
  PROVE  IngestInv'
<1> PICK r : r = [traces[n] EXCEPT !.stored = FALSE]
  OBVIOUS
<1>1. /\ traces' = [traces EXCEPT ![n] = r]
      /\ UNCHANGED <<idempotency, triggered, ingest, repeated>>
  BY DEF PurgeTrace
<1>2. traces \in Seq(Trace) /\ n \in 1..Len(traces) /\ traces[n] \in Trace
  BY DEF IngestInv, IngestTypes, TraceIds
<1>3. r \in Trace /\ r.key = traces[n].key /\ ~r.stored
  BY <1>2 DEF Trace
<1>4. traces' \in Seq(Trace) /\ Len(traces') = Len(traces)
  BY <1>1, <1>2, <1>3
<1>5. \A i \in TraceIds : traces'[i] = IF i = n THEN r ELSE traces[i]
  BY <1>1, <1>2 DEF TraceIds
<1>6. KeysKept /\ TraceIds' = TraceIds
  BY <1>3, <1>4, <1>5 DEF KeysKept, TraceIds
<1>7. IngestTypes'
  BY <1>1, <1>4, <1>6 DEF IngestInv, IngestTypes
<1>8. \A u \in Threads : Accepting(u)' /\ Pending(u)' = Pending(u)
  BY <1>1, <1>6, OthersKept
<1>9. \A k \in TraceKeys : RecordStands(k)'
  BY <1>1, <1>6, RecordsKept
<1>10. \A k \in TraceKeys \ repeated : OneHolder(k)'
  BY <1>1, <1>6, <1>8 DEF IngestInv, OneHolder, KeysKept
<1> QED
  BY <1>1, <1>7, <1>8, <1>9, <1>10 DEF IngestInv

LEMMA IngestStepKeeps ==
  ASSUME IngestInv, [IngestNext]_ingestVars
  PROVE  IngestInv'
<1>1. CASE UNCHANGED ingestVars
  <2>1. UNCHANGED <<traces, idempotency, triggered, ingest, repeated>>
    BY <1>1 DEF ingestVars
  <2>2. KeysKept /\ TraceIds' = TraceIds
    BY <2>1, UnchangedKeys
  <2>3. IngestTypes'
    BY <2>1, <2>2 DEF IngestInv, IngestTypes
  <2>4. \A u \in Threads : Accepting(u)' /\ Pending(u)' = Pending(u)
    BY <2>1, <2>2, OthersKept
  <2>5. \A k \in TraceKeys : RecordStands(k)'
    BY <2>1, <2>2, RecordsKept
  <2>6. \A k \in TraceKeys \ repeated : OneHolder(k)'
    BY <2>1, <2>2, <2>4 DEF IngestInv, OneHolder
  <2> QED
    BY <2>1, <2>3, <2>4, <2>5, <2>6 DEF IngestInv
<1>2. ASSUME NEW t \in Threads, NEW batch \in Batches, StartIngest(t, batch) PROVE IngestInv'
  BY <1>2, StartIngestKeeps
<1>3. ASSUME NEW t \in Threads, CheckTrace(t) \/ SaveTrace(t) \/ TriggerTrace(t) PROVE IngestInv'
  BY <1>3, CheckTraceKeeps, SaveTraceKeeps, TriggerTraceKeeps
<1>4. ASSUME NEW t \in Threads, RecordTrace(t) \/ DropIngest(t) PROVE IngestInv'
  BY <1>4, RecordTraceKeeps, DropIngestKeeps
<1>5. ASSUME NEW i \in TraceIds, PurgeTrace(i) PROVE IngestInv'
  BY <1>5, PurgeTraceKeeps
<1> QED
  BY <1>1, <1>2, <1>3, <1>4, <1>5 DEF IngestNext

\* A key's traces are known to its record or to the one request that accepted them,
\* whatever ingest_trace_payload is interrupted by.
THEOREM IngestInvariant == IngestSpec => []IngestInv
  BY IngestInitHolds, IngestStepKeeps, PTL DEF IngestSpec

\* Traces, idempotency records and every ingest keep their types.
THEOREM IngestTypesHold == IngestSpec => []IngestTypeOK
<1>1. IngestInv => IngestTypeOK
  BY DEF IngestInv, IngestTypes, Accepting, IngestTypeOK, Trace
<1> QED
  BY <1>1, IngestInvariant, PTL

LEMMA OneStored ==
  ASSUME IngestInv, NEW k \in TraceKeys \ repeated
  PROVE  Cardinality({i \in TraceIds : traces[i].key = k /\ traces[i].stored}) <= 1
<1> DEFINE S == {i \in TraceIds : traces[i].key = k /\ traces[i].stored}
<1>1. OneHolder(k)
  BY DEF IngestInv
<1>2. \A i, j \in S : i = j
  <2> SUFFICES ASSUME NEW i \in S, NEW j \in S PROVE i = j
    OBVIOUS
  <2>1. CASE \E t \in Threads : i \in ingest[t].done \/ j \in ingest[t].done
    <3>1. PICK t \in Threads : i \in ingest[t].done \/ j \in ingest[t].done
      BY <2>1
    <3>2. k \in Pending(t)
      BY <3>1 DEF Pending
    <3>3. i \in ingest[t].done /\ j \in ingest[t].done
      BY <1>1, <3>2 DEF OneHolder
    <3> QED
      BY <3>3 DEF IngestInv, Accepting
  <2>2. CASE \A t \in Threads : i \notin ingest[t].done /\ j \notin ingest[t].done
    BY <1>1, <2>2 DEF OneHolder
  <2> QED
    BY <2>1, <2>2
<1> HIDE DEF S
<1>3. CASE S = {}
  <2>1. Cardinality(S) = 0
    BY <1>3, FS_EmptySet
  <2> QED
    BY <2>1 DEF S
<1>4. CASE S # {}
  <2>1. PICK i : S = {i}
    BY <1>2, <1>4
  <2>2. Cardinality(S) = 1
    BY <2>1, FS_Singleton
  <2> QED
    BY <2>2 DEF S
<1> QED
  BY <1>3, <1>4

(* A trace sent again under its key is stored once, in one batch or in      *)
(* several requests, unless two requests overlapped on the key or one       *)
(* stopped before its record; and a record names a trace whose automations  *)
(* have run (ingest_trace_payload, seen_by_key, app/main.py).               *)
THEOREM TracesStoredOnce == IngestSpec => []TraceStoredOnce
<1>1. IngestInv => TraceStoredOnce
  BY OneStored DEF IngestInv, RecordStands, TraceStoredOnce
<1> QED
  BY <1>1, IngestInvariant, PTL

-----------------------------------------------------------------------------
(* GuardedTool.                                                             *)

USE GuardAssumption

Approvals == {None, "pending", "approved", "blocked"}
Tool == [at : {"idle", "wait", "run"}, call : Calls \cup {None}, key : ToolKeys \cup {None},
         guard : BOOLEAN, n : 0..MaxPosts, reply : Replies \cup {None}]

ToolTypes ==
  /\ granted \in [ToolKeys -> LeaseStatus \cup {None}] /\ approved \in [ToolKeys -> Approvals]
  /\ tool \in [Threads -> Tool] /\ posts \in 0..MaxPosts /\ wire \subseteq Message
  /\ taken \in [ToolKeys -> Nat] /\ ran \in [ToolKeys -> Nat]

\* A request numbers no later one, and a thread that waits for it made it.
WireInv ==
  /\ \A m \in wire : m.n <= posts
  /\ \A t \in Threads : tool[t].n <= posts
  /\ \A t \in Threads : tool[t].at # "idle" => tool[t].call \in Calls /\ tool[t].key \in ToolKeys
  /\ \A m \in wire : tool[m.from].at = "wait" /\ tool[m.from].n = m.n =>
       tool[m.from].call = m.call /\ tool[m.from].key = m.key

\* What the server knows of a key.
LeaseInv ==
  \A k \in ToolKeys :
    /\ taken[k] <= 1
    /\ granted[k] \in {None, "active"} => taken[k] = 0
    /\ k \in Reviewed /\ granted[k] # None => approved[k] = "approved"

\* There is one ticket for a consumption, and it is spent by the run.
TicketInv ==
  /\ \A k \in ToolKeys : ran[k] <= taken[k]
  /\ \A k \in ToolKeys, t \in Threads : Ticket(t, k) => taken[k] = 1 /\ ran[k] = 0
  /\ \A k \in ToolKeys, t, u \in Threads : Ticket(t, k) /\ Ticket(u, k) => t = u

GuardInv == ToolTypes /\ WireInv /\ LeaseInv /\ TicketInv

-----------------------------------------------------------------------------
LEMMA NoToolTyped == NoTool \in Tool /\ NoTool.at = "idle" /\ NoTool.n = 0
  BY DEF NoTool, Tool

LEMMA NewCallTyped ==
  \A x \in Calls, k \in ToolKeys :
    [NoTool EXCEPT !.call = x, !.key = k, !.guard = TRUE] \in Tool /\ [NoTool EXCEPT !.call = x, !.key = k] \in Tool
  BY NoToolTyped DEF Tool

LEMMA SentCallTyped ==
  \A c \in Tool, n \in 0..MaxPosts : [c EXCEPT !.at = "wait", !.n = n, !.reply = None] \in Tool
  BY DEF Tool

LEMMA GuardInitHolds == GuardInit => GuardInv
<1> SUFFICES ASSUME GuardInit PROVE GuardInv
  OBVIOUS
<1>1. ToolTypes
  BY NoToolTyped DEF GuardInit, ToolTypes, Approvals
<1>2. WireInv
  BY NoToolTyped DEF GuardInit, WireInv
<1>3. LeaseInv
  BY DEF GuardInit, LeaseInv
<1>4. TicketInv
  BY NoToolTyped DEF GuardInit, TicketInv, Ticket
<1> QED
  BY <1>1, <1>2, <1>3, <1>4 DEF GuardInv

\* The thread becomes idle.
LEMMA DenyKeeps ==
  ASSUME GuardInv, NEW t \in Threads, Deny(t), ServerUnchanged, ran' = ran
  PROVE  GuardInv'
<1>1. /\ tool' \in [Threads -> Tool] /\ tool'[t] = NoTool
      /\ \A u \in Threads : u # t => tool'[u] = tool[u]
  BY NoToolTyped DEF Deny, GuardInv, ToolTypes
<1>2. /\ posts' = posts /\ wire' = wire /\ ran' = ran
      /\ granted' = granted /\ approved' = approved /\ taken' = taken
  BY DEF Deny, ServerUnchanged
<1>3. ToolTypes'
  BY <1>1, <1>2 DEF GuardInv, ToolTypes
<1>4. WireInv'
  <2>1. \A m \in wire : m.from \in Threads
    BY DEF GuardInv, ToolTypes, Message
  <2>2. posts \in Nat
    BY DEF GuardInv, ToolTypes
  <2> QED
    BY <1>1, <1>2, <2>1, <2>2, NoToolTyped DEF GuardInv, WireInv
<1>5. LeaseInv'
  BY <1>2 DEF GuardInv, LeaseInv
<1>6. TicketInv'
  BY <1>1, <1>2, NoToolTyped DEF GuardInv, TicketInv, Ticket
<1> QED
  BY <1>3, <1>4, <1>5, <1>6 DEF GuardInv

\* A request is sent for a call of a known key.
LEMMA PostKeeps ==
  ASSUME GuardInv, NEW t \in Threads, NEW c \in Tool, c.call \in Calls, c.key \in ToolKeys,
         Post(t, c), ServerUnchanged, ran' = ran
  PROVE  GuardInv'
<1> DEFINE call == [c EXCEPT !.at = "wait", !.n = posts + 1, !.reply = None]
           sent == [from |-> t, n |-> posts + 1, call |-> c.call, key |-> c.key]
<1>1. /\ posts < MaxPosts /\ posts' = posts + 1 /\ wire' = wire \cup {sent}
      /\ tool' = [tool EXCEPT ![t] = call]
      /\ granted' = granted /\ approved' = approved /\ taken' = taken /\ ran' = ran
  BY DEF Post, ServerUnchanged
<1>2. posts \in 0..MaxPosts /\ posts + 1 \in 1..MaxPosts
  BY <1>1 DEF GuardInv, ToolTypes
<1>3. /\ call \in Tool /\ call.at = "wait" /\ call.n = posts + 1 /\ call.reply = None
      /\ call.call = c.call /\ call.key = c.key
  <2>1. posts + 1 \in 0..MaxPosts
    BY <1>2
  <2>2. c = [at |-> c.at, call |-> c.call, key |-> c.key, guard |-> c.guard, n |-> c.n, reply |-> c.reply]
    BY DEF Tool
  <2> QED
    BY <2>1, <2>2, SentCallTyped
<1>4. /\ sent \in Message /\ sent.from = t /\ sent.n = posts + 1 /\ sent.call = c.call /\ sent.key = c.key
  BY <1>2 DEF Message
<1> HIDE DEF call, sent
<1>5. /\ tool' \in [Threads -> Tool] /\ tool'[t] = call
      /\ \A u \in Threads : u # t => tool'[u] = tool[u]
  BY <1>1, <1>3 DEF GuardInv, ToolTypes
<1>6. ToolTypes'
  BY <1>1, <1>2, <1>4, <1>5 DEF GuardInv, ToolTypes
<1>7. WireInv'
  <2>1. \A m \in wire : m.from \in Threads /\ m.n \in Nat /\ m.n <= posts
    BY DEF GuardInv, ToolTypes, Message, WireInv
  <2>2. \A u \in Threads : tool[u].n \in Nat /\ tool[u].n <= posts
    BY DEF GuardInv, ToolTypes, Tool, WireInv
  <2>3. \A m \in wire' : m.n <= posts'
    BY <1>1, <1>2, <1>4, <2>1
  <2>4. \A u \in Threads : tool'[u].n <= posts'
    BY <1>1, <1>2, <1>3, <1>5, <2>2
  <2>5. \A u \in Threads : tool'[u].at # "idle" => tool'[u].call \in Calls /\ tool'[u].key \in ToolKeys
    BY <1>3, <1>5 DEF GuardInv, WireInv
  <2>6. ASSUME NEW m \in wire', tool'[m.from].at = "wait", tool'[m.from].n = m.n
        PROVE  tool'[m.from].call = m.call /\ tool'[m.from].key = m.key
    <3>1. CASE m = sent
      BY <1>3, <1>4, <1>5, <3>1
    <3>2. CASE m \in wire /\ m.from = t
      BY <1>2, <1>3, <1>5, <2>1, <2>6, <3>2
    <3>3. CASE m \in wire /\ m.from # t
      BY <1>5, <2>1, <2>6, <3>3 DEF GuardInv, WireInv
    <3> QED
      BY <1>1, <3>1, <3>2, <3>3
  <2> QED
    BY <2>3, <2>4, <2>5, <2>6 DEF WireInv
<1>8. LeaseInv'
  BY <1>1 DEF GuardInv, LeaseInv
<1>9. TicketInv'
  <2>1. None # "ok"
    BY DEF Replies
  <2>2. \A u \in Threads, k \in ToolKeys : Ticket(u, k)' => Ticket(u, k)
    BY <1>3, <1>5, <2>1 DEF Ticket
  <2> QED
    BY <1>1, <2>2 DEF GuardInv, TicketInv
<1> QED
  BY <1>6, <1>7, <1>8, <1>9 DEF GuardInv

-----------------------------------------------------------------------------
LEMMA InvokeKeeps ==
  ASSUME GuardInv, NEW t \in Threads, NEW k \in ToolKeys,
         Invoke(t, k) \/ \E call \in Calls : CallClient(t, k, call)
  PROVE  GuardInv'
<1>1. CASE Invoke(t, k)
  <2> DEFINE c == [NoTool EXCEPT !.call = "authorize", !.key = k, !.guard = TRUE]
  <2>1. c \in Tool /\ c.call \in Calls /\ c.key \in ToolKeys
    <3>1. "authorize" \in Calls
      BY DEF Calls
    <3>2. c.call = "authorize" /\ c.key = k
      BY DEF NoTool
    <3> QED
      BY <3>1, <3>2, NewCallTyped
  <2>2. Post(t, c) /\ ServerUnchanged /\ ran' = ran
    BY <1>1 DEF Invoke
  <2> HIDE DEF c
  <2> QED
    BY <2>1, <2>2, PostKeeps
<1>2. ASSUME NEW call \in Calls, CallClient(t, k, call) PROVE GuardInv'
  <2> DEFINE c == [NoTool EXCEPT !.call = call, !.key = k]
  <2>1. c \in Tool /\ c.call \in Calls /\ c.key \in ToolKeys
    <3>1. c.call = call /\ c.key = k
      BY DEF NoTool
    <3> QED
      BY <3>1, NewCallTyped
  <2>2. Post(t, c) /\ ServerUnchanged /\ ran' = ran
    BY <1>2 DEF CallClient
  <2> HIDE DEF c
  <2> QED
    BY <2>1, <2>2, PostKeeps
<1> QED
  BY <1>1, <1>2

LEMMA RetryKeeps ==
  ASSUME GuardInv, NEW t \in Threads, tool[t].at # "idle", Retry(t), ServerUnchanged, ran' = ran
  PROVE  GuardInv'
<1>1. tool[t] \in Tool /\ tool[t].call \in Calls /\ tool[t].key \in ToolKeys
  BY DEF GuardInv, ToolTypes, WireInv
<1> QED
  BY <1>1, PostKeeps, DenyKeeps DEF Retry

LEMMA TimeOutKeeps ==
  ASSUME GuardInv, NEW t \in Threads, TimeOut(t)
  PROVE  GuardInv'
  BY RetryKeeps DEF TimeOut

LEMMA TakeReplyKeeps ==
  ASSUME GuardInv, NEW t \in Threads, TakeReply(t)
  PROVE  GuardInv'
<1> DEFINE c == tool[t]
<1>1. /\ c \in Tool /\ c.call \in Calls /\ c.key \in ToolKeys /\ c.at = "wait"
      /\ ServerUnchanged /\ ran' = ran
  BY DEF TakeReply, GuardInv, ToolTypes, WireInv
<1>2. CASE Post(t, [c EXCEPT !.call = "consume"])
  <2> DEFINE next == [c EXCEPT !.call = "consume"]
  <2>1. next \in Tool /\ next.call \in Calls /\ next.key \in ToolKeys
    BY <1>1 DEF Tool, Calls
  <2>2. Post(t, next)
    BY <1>2
  <2> HIDE DEF next
  <2> QED
    BY <1>1, <2>1, <2>2, PostKeeps
<1>3. CASE c.reply = "ok" /\ c.call = "consume" /\ tool' = [tool EXCEPT ![t].at = "run"] /\ posts' = posts /\ wire' = wire
  <2> DEFINE next == [c EXCEPT !.at = "run"]
  <2>1. /\ next \in Tool /\ next.at = "run" /\ next.key = c.key /\ next.n = c.n /\ next.call = c.call
    BY <1>1 DEF Tool
  <2>2. tool' = [tool EXCEPT ![t] = next]
    BY <1>1, <1>3 DEF GuardInv, ToolTypes
  <2> HIDE DEF next
  <2>3. /\ tool' \in [Threads -> Tool] /\ tool'[t] = next
        /\ \A u \in Threads : u # t => tool'[u] = tool[u]
    BY <2>1, <2>2 DEF GuardInv, ToolTypes
  <2>4. granted' = granted /\ approved' = approved /\ taken' = taken
    BY <1>1 DEF ServerUnchanged
  <2>5. ToolTypes'
    BY <1>1, <1>3, <2>3, <2>4 DEF GuardInv, ToolTypes
  <2>6. WireInv'
    <3>1. \A m \in wire : m.from \in Threads
      BY DEF GuardInv, ToolTypes, Message
    <3> QED
      BY <1>1, <1>3, <2>1, <2>3, <3>1 DEF GuardInv, WireInv
  <2>7. LeaseInv'
    BY <2>4 DEF GuardInv, LeaseInv
  <2>8. \A u \in Threads, k \in ToolKeys : Ticket(u, k)' => Ticket(u, k)
    BY <1>1, <1>3, <2>1, <2>3 DEF Ticket
  <2>9. TicketInv'
    BY <1>1, <2>4, <2>8 DEF GuardInv, TicketInv
  <2> QED
    BY <2>5, <2>6, <2>7, <2>9 DEF GuardInv
<1>4. CASE Retry(t)
  BY <1>1, <1>4, RetryKeeps
<1>5. CASE Deny(t)
  BY <1>1, <1>5, DenyKeeps
<1> QED
  BY <1>2, <1>3, <1>4, <1>5 DEF TakeReply

LEMMA RunToolKeeps ==
  ASSUME GuardInv, NEW t \in Threads, RunTool(t)
  PROVE  GuardInv'
<1> DEFINE k == tool[t].key
<1>1. /\ k \in ToolKeys /\ Ticket(t, k) /\ taken[k] = 1 /\ ran[k] = 0
  BY DEF RunTool, GuardInv, WireInv, TicketInv, Ticket
<1>2. /\ tool' \in [Threads -> Tool] /\ tool'[t] = NoTool
      /\ \A u \in Threads : u # t => tool'[u] = tool[u]
  BY NoToolTyped DEF RunTool, Deny, GuardInv, ToolTypes
<1>3. /\ posts' = posts /\ wire' = wire
      /\ granted' = granted /\ approved' = approved /\ taken' = taken
  BY DEF RunTool, Deny, ServerUnchanged
<1>4. /\ ran' \in [ToolKeys -> Nat] /\ ran'[k] = 1
      /\ \A j \in ToolKeys : j # k => ran'[j] = ran[j]
  BY <1>1 DEF RunTool, GuardInv, ToolTypes
<1>5. ToolTypes'
  BY <1>2, <1>3, <1>4 DEF GuardInv, ToolTypes
<1>6. WireInv'
  <2>1. \A m \in wire : m.from \in Threads
    BY DEF GuardInv, ToolTypes, Message
  <2>2. posts \in Nat
    BY DEF GuardInv, ToolTypes
  <2> QED
    BY <1>2, <1>3, <2>1, <2>2, NoToolTyped DEF GuardInv, WireInv
<1>7. LeaseInv'
  BY <1>3 DEF GuardInv, LeaseInv
<1>8. TicketInv'
  <2>1. \A u \in Threads, j \in ToolKeys : Ticket(u, j)' => u # t /\ Ticket(u, j)
    BY <1>2, NoToolTyped DEF Ticket
  <2>2. \A u \in Threads, j \in ToolKeys : Ticket(u, j)' => j # k
    BY <1>1, <2>1 DEF GuardInv, TicketInv
  <2> QED
    BY <1>1, <1>3, <1>4, <2>1, <2>2 DEF GuardInv, TicketInv
<1> QED
  BY <1>5, <1>6, <1>7, <1>8 DEF GuardInv

LEMMA StopAgentKeeps ==
  ASSUME GuardInv, NEW t \in Threads, StopAgent(t)
  PROVE  GuardInv'
  BY DenyKeeps DEF StopAgent

-----------------------------------------------------------------------------
(* The server.                                                              *)

\* What the answers of the server mean for the threads, whatever it did.
LEMMA RespondKeeps ==
  ASSUME GuardInv, NEW m \in wire, NEW heard \in Replies, Respond(m, heard),
         granted' \in [ToolKeys -> LeaseStatus \cup {None}], approved' \in [ToolKeys -> Approvals],
         taken' \in [ToolKeys -> Nat], LeaseInv',
         \A k \in ToolKeys : taken[k] <= taken'[k],
         m.call = "consume" /\ heard = "ok" => taken[m.key] = 0 /\ taken'[m.key] = 1
  PROVE  GuardInv'
<1> DEFINE f == m.from
           hears == tool[f].at = "wait" /\ tool[f].reply = None /\ tool[f].n = m.n
           next == [tool[f] EXCEPT !.reply = heard]
<1>1. m \in Message /\ f \in Threads /\ m.key \in ToolKeys /\ tool[f] \in Tool
  BY DEF GuardInv, ToolTypes, Message
<1>2. posts' = posts /\ ran' = ran /\ wire' = wire \ {m}
  BY DEF Respond
<1>3. /\ next \in Tool /\ next.at = tool[f].at /\ next.call = tool[f].call /\ next.key = tool[f].key
      /\ next.n = tool[f].n /\ next.reply = heard
  BY <1>1 DEF Tool
<1>4. tool' = IF hears THEN [tool EXCEPT ![f] = next] ELSE tool
  BY <1>1 DEF Respond, GuardInv, ToolTypes
<1> HIDE DEF next, hears
<1>5. /\ tool' \in [Threads -> Tool]
      /\ tool'[f] = IF hears THEN next ELSE tool[f]
      /\ \A u \in Threads : u # f => tool'[u] = tool[u]
  BY <1>1, <1>3, <1>4 DEF GuardInv, ToolTypes
<1>6. \A u \in Threads : /\ tool'[u].at = tool[u].at /\ tool'[u].call = tool[u].call
                         /\ tool'[u].key = tool[u].key /\ tool'[u].n = tool[u].n
  BY <1>3, <1>5
<1>7. ToolTypes'
  BY <1>2, <1>5 DEF GuardInv, ToolTypes
<1>8. WireInv'
  <2>1. \A w \in wire : w.from \in Threads
    BY DEF GuardInv, ToolTypes, Message
  <2> QED
    BY <1>2, <1>6, <2>1 DEF GuardInv, WireInv
<1>9. TicketInv'
  <2>1. ASSUME NEW u \in Threads, NEW k \in ToolKeys, Ticket(u, k)', ~Ticket(u, k)
        PROVE  u = f /\ k = m.key /\ taken[k] = 0 /\ taken'[k] = 1
    <3>1. u = f /\ hears /\ tool[f].call = "consume" /\ heard = "ok" /\ k = tool[f].key /\ tool[f].at = "wait"
      BY <1>3, <1>5, <1>6, <2>1 DEF Ticket
    <3>2. tool[f].call = m.call /\ tool[f].key = m.key
      BY <1>1, <3>1 DEF GuardInv, WireInv, hears
    <3> QED
      BY <3>1, <3>2
  <2>2. \A k \in ToolKeys : /\ ran[k] \in Nat /\ taken[k] \in Nat /\ taken'[k] \in Nat
                            /\ taken[k] <= taken'[k] /\ taken'[k] <= 1 /\ ran[k] <= taken[k]
    BY DEF GuardInv, ToolTypes, TicketInv, LeaseInv
  <2>3. \A k \in ToolKeys, u \in Threads : Ticket(u, k)' => taken'[k] = 1 /\ ran[k] = 0
    <3> SUFFICES ASSUME NEW k \in ToolKeys, NEW u \in Threads, Ticket(u, k)'
                 PROVE  taken'[k] = 1 /\ ran[k] = 0
      OBVIOUS
    <3>1. CASE Ticket(u, k)
      BY <2>2, <3>1 DEF GuardInv, TicketInv
    <3>2. CASE ~Ticket(u, k)
      BY <2>1, <2>2, <3>2
    <3> QED
      BY <3>1, <3>2
  <2>4. ASSUME NEW k \in ToolKeys, NEW u \in Threads, NEW v \in Threads, Ticket(u, k)', Ticket(v, k)'
        PROVE  u = v
    <3>1. CASE Ticket(u, k) /\ Ticket(v, k)
      BY <3>1 DEF GuardInv, TicketInv
    <3>2. CASE ~Ticket(u, k) /\ ~Ticket(v, k)
      BY <2>1, <2>4, <3>2
    <3>3. CASE Ticket(u, k) /\ ~Ticket(v, k)
      BY <2>1, <2>4, <3>3 DEF GuardInv, TicketInv
    <3>4. CASE ~Ticket(u, k) /\ Ticket(v, k)
      BY <2>1, <2>4, <3>4 DEF GuardInv, TicketInv
    <3> QED
      BY <3>1, <3>2, <3>3, <3>4
  <2>5. \A k \in ToolKeys : ran'[k] <= taken'[k]
    BY <1>2, <2>2
  <2> QED
    BY <1>2, <2>3, <2>4, <2>5 DEF TicketInv
<1> QED
  BY <1>7, <1>8, <1>9 DEF GuardInv

\* What the server does with a request keeps its own records in order.
LEMMA ProcessKeeps ==
  ASSUME GuardInv, NEW m \in Message, Process(m)
  PROVE  /\ granted' \in [ToolKeys -> LeaseStatus \cup {None}] /\ approved' \in [ToolKeys -> Approvals]
         /\ taken' \in [ToolKeys -> Nat] /\ LeaseInv'
         /\ \A k \in ToolKeys : taken[k] <= taken'[k]
         /\ m.call = "consume" /\ ServerReply(m) = "ok" => taken[m.key] = 0 /\ taken'[m.key] = 1
<1> DEFINE k == m.key
           consumes == m.call = "consume" /\ granted[k] = "active"
           issues == m.call = "authorize" /\ granted[k] = None /\ Approved(k)
<1>1. /\ k \in ToolKeys /\ m.call \in Calls
      /\ granted \in [ToolKeys -> LeaseStatus \cup {None}] /\ approved \in [ToolKeys -> Approvals]
      /\ taken \in [ToolKeys -> Nat] /\ LeaseInv
  BY DEF Message, GuardInv, ToolTypes
<1>2. None \notin {"active", "consumed", "void", "pending", "approved", "blocked"}
  BY DEF LeaseStatus
<1>3. \A j \in ToolKeys : j # k => granted'[j] = granted[j] /\ taken'[j] = taken[j] /\ approved'[j] = approved[j]
  BY <1>1 DEF Process
<1>4. granted'[k] = IF consumes THEN "consumed" ELSE IF issues THEN "active" ELSE granted[k]
  BY <1>1, <1>2 DEF Process
<1>5. granted' \in [ToolKeys -> LeaseStatus \cup {None}]
  BY <1>1 DEF Process, LeaseStatus
<1>6. /\ approved' \in [ToolKeys -> Approvals]
      /\ approved'[k] = approved[k] \/ (approved[k] = None /\ k \in Reviewed)
  BY <1>1 DEF Process, Approvals
<1>7. taken'[k] = IF consumes THEN taken[k] + 1 ELSE taken[k]
  <2>1. granted'[k] = "consumed" /\ granted[k] # "consumed" <=> consumes
    BY <1>1, <1>2, <1>4
  <2> QED
    BY <1>1, <2>1 DEF Process
<1>8. taken' \in [ToolKeys -> Nat]
  BY <1>1 DEF Process
<1>9. consumes => taken[k] = 0
  BY <1>1 DEF LeaseInv
<1>10. taken[k] <= 1 /\ taken'[k] <= 1 /\ (consumes => taken'[k] = 1)
  BY <1>1, <1>7, <1>9 DEF LeaseInv
<1>11. granted'[k] \in {None, "active"} => taken'[k] = 0
  BY <1>1, <1>2, <1>4, <1>7 DEF LeaseInv
<1>12. k \in Reviewed /\ granted'[k] # None => approved'[k] = "approved"
  <2> SUFFICES ASSUME k \in Reviewed, granted'[k] # None PROVE approved[k] = "approved"
    BY <1>2, <1>6
  <2>1. CASE granted[k] # None
    BY <1>1, <2>1 DEF LeaseInv
  <2>2. CASE granted[k] = None
    BY <1>2, <1>4, <2>2 DEF Approved
  <2> QED
    BY <2>1, <2>2
<1>13. LeaseInv'
  <2> SUFFICES ASSUME NEW j \in ToolKeys
               PROVE  /\ taken'[j] <= 1
                      /\ granted'[j] \in {None, "active"} => taken'[j] = 0
                      /\ j \in Reviewed /\ granted'[j] # None => approved'[j] = "approved"
    BY DEF LeaseInv
  <2>1. CASE j = k
    BY <1>10, <1>11, <1>12, <2>1
  <2>2. CASE j # k
    BY <1>1, <1>3, <2>2 DEF LeaseInv
  <2> QED
    BY <2>1, <2>2
<1>14. \A j \in ToolKeys : taken[j] <= taken'[j]
  <2> SUFFICES ASSUME NEW j \in ToolKeys PROVE taken[j] <= taken'[j]
    OBVIOUS
  <2>1. taken[j] \in Nat
    BY <1>1
  <2> QED
    BY <1>3, <1>7, <2>1
<1>15. m.call = "consume" /\ ServerReply(m) = "ok" => consumes
  BY DEF ServerReply
<1> QED
  BY <1>5, <1>6, <1>8, <1>9, <1>10, <1>13, <1>14, <1>15

LEMMA ServeKeeps ==
  ASSUME GuardInv, NEW m \in wire, NEW heard \in Replies, Serve(m, heard)
  PROVE  GuardInv'
<1>1. m \in Message /\ Process(m) /\ Respond(m, heard)
  BY DEF Serve, GuardInv, ToolTypes
<1>2. heard = "ok" => ServerReply(m) = "ok"
  BY DEF Serve
<1> QED
  BY <1>1, <1>2, ProcessKeeps, RespondKeeps

LEMMA BounceKeeps ==
  ASSUME GuardInv, NEW m \in wire, Bounce(m)
  PROVE  GuardInv'
<1>1. Respond(m, "unusable") /\ "unusable" \in Replies /\ "unusable" # "ok"
  BY DEF Bounce, Replies
<1>2. granted' = granted /\ approved' = approved /\ taken' = taken
  BY DEF Bounce, ServerUnchanged
<1>3. /\ granted' \in [ToolKeys -> LeaseStatus \cup {None}] /\ approved' \in [ToolKeys -> Approvals]
      /\ taken' \in [ToolKeys -> Nat]
  BY <1>2 DEF GuardInv, ToolTypes
<1>4. LeaseInv' /\ \A k \in ToolKeys : taken[k] <= taken'[k]
  BY <1>2, <1>3 DEF GuardInv, LeaseInv
<1> QED
  BY <1>1, <1>3, <1>4, RespondKeeps

\* The server's records change, and no thread learns of it.
LEMMA RecordsKeep ==
  ASSUME GuardInv, UNCHANGED <<tool, posts, wire, taken, ran>>, LeaseInv',
         granted' \in [ToolKeys -> LeaseStatus \cup {None}], approved' \in [ToolKeys -> Approvals]
  PROVE  GuardInv'
<1>1. ToolTypes'
  BY DEF GuardInv, ToolTypes
<1>2. WireInv' /\ TicketInv'
  BY DEF GuardInv, WireInv, TicketInv, Ticket
<1> QED
  BY <1>1, <1>2 DEF GuardInv

LEMMA ReviewKeeps ==
  ASSUME GuardInv, NEW k \in ToolKeys, NEW decision \in {"approved", "blocked"}, Review(k, decision)
  PROVE  GuardInv'
<1>1. /\ granted' = granted /\ approved' = [approved EXCEPT ![k] = decision]
      /\ UNCHANGED <<tool, posts, wire, taken, ran>>
  BY DEF Review
<1>2. granted' \in [ToolKeys -> LeaseStatus \cup {None}] /\ approved' \in [ToolKeys -> Approvals]
  BY <1>1 DEF GuardInv, ToolTypes, Approvals
<1>3. LeaseInv'
  <2>1. k \in Reviewed => granted[k] = None
    BY DEF Review, GuardInv, LeaseInv
  <2>2. \A j \in ToolKeys : j # k => approved'[j] = approved[j]
    BY <1>1 DEF GuardInv, ToolTypes
  <2> QED
    BY <1>1, <2>1, <2>2 DEF GuardInv, LeaseInv
<1> QED
  BY <1>1, <1>2, <1>3, RecordsKeep

LEMMA VoidLeaseKeeps ==
  ASSUME GuardInv, NEW k \in ToolKeys, VoidLease(k)
  PROVE  GuardInv'
<1>1. /\ approved' = approved /\ granted' = [granted EXCEPT ![k] = "void"]
      /\ UNCHANGED <<tool, posts, wire, taken, ran>>
  BY DEF VoidLease
<1>2. granted' \in [ToolKeys -> LeaseStatus \cup {None}] /\ approved' \in [ToolKeys -> Approvals]
  BY <1>1 DEF GuardInv, ToolTypes, LeaseStatus
<1>3. LeaseInv'
  <2>1. granted[k] # None /\ None # "void"
    BY DEF VoidLease, LeaseStatus
  <2>2. granted'[k] = "void" /\ \A j \in ToolKeys : j # k => granted'[j] = granted[j]
    BY <1>1 DEF GuardInv, ToolTypes
  <2> QED
    BY <1>1, <2>1, <2>2 DEF GuardInv, LeaseInv
<1> QED
  BY <1>1, <1>2, <1>3, RecordsKeep

-----------------------------------------------------------------------------
LEMMA GuardStep == GuardInv /\ [GuardNext]_guardVars => GuardInv'
<1> SUFFICES ASSUME GuardInv, [GuardNext]_guardVars PROVE GuardInv'
  OBVIOUS
<1>1. CASE GuardNext
  BY <1>1, InvokeKeeps, TimeOutKeeps, TakeReplyKeeps, RunToolKeeps, StopAgentKeeps, ServeKeeps, BounceKeeps,
     ReviewKeeps, VoidLeaseKeeps DEF GuardNext
<1>2. CASE UNCHANGED guardVars
  BY <1>2 DEF guardVars, GuardInv, ToolTypes, WireInv, LeaseInv, TicketInv, Ticket
<1> QED
  BY <1>1, <1>2

LEMMA GuardInvariant == GuardSpec => []GuardInv
<1>1. GuardInit => GuardInv
  BY GuardInitHolds
<1> QED
  BY <1>1, GuardStep, PTL DEF GuardSpec

\* Leases, approvals, requests and runs keep their types.
THEOREM ToolTypesHold == GuardSpec => []GuardTypeOK
<1>1. GuardInv => GuardTypeOK
  BY DEF GuardInv, ToolTypes, GuardTypeOK, Tool, Approvals
<1> QED
  BY <1>1, GuardInvariant, PTL

\* However requests are lost, delayed, repeated or answered by others, the
\* function runs at most once for a consumption, and only if approved.
THEOREM GuardedToolRunsOnce == GuardSpec => []ToolRunsOnce
<1>1. ASSUME GuardInv PROVE ToolRunsOnce
  <2> SUFFICES ASSUME NEW k \in ToolKeys
               PROVE  /\ ran[k] <= taken[k] /\ taken[k] <= 1
                      /\ ran[k] > 0 /\ k \in Reviewed => approved[k] = "approved"
    BY DEF ToolRunsOnce
  <2>1. ran[k] \in Nat /\ taken[k] \in Nat /\ ran[k] <= taken[k] /\ taken[k] <= 1
    BY <1>1 DEF GuardInv, ToolTypes, TicketInv, LeaseInv
  <2>2. ran[k] > 0 => granted[k] # None
    BY <1>1, <2>1 DEF GuardInv, LeaseInv
  <2> QED
    BY <1>1, <2>1, <2>2 DEF GuardInv, LeaseInv
<1> QED
  BY <1>1, GuardInvariant, PTL

-----------------------------------------------------------------------------
(* The lease of a tool keeps what LeaseGrant promises.                      *)

ToolGrants == [k \in ToolKeys |-> ToolGrant(k)]

\* A key without a lease and without a run is unissued.
LEMMA UnusedIsUnissued ==
  ASSUME NEW k \in ToolKeys, ran[k] = 0, granted[k] = None
  PROVE  ToolGrant(k) = "unissued"
<1>1. ~(ran[k] > 1) /\ ran[k] # 1
  OBVIOUS
<1>2. granted[k] # "active" /\ granted[k] \in {None, "active"}
  BY GuardAssumption DEF LeaseStatus
<1> QED
  BY <1>1, <1>2, Zenon DEF ToolGrant

\* No thread has learned of a consumption, so that no run is licensed anew.
NoTicketGained == \A u \in Threads, k \in ToolKeys : Ticket(u, k)' => Ticket(u, k)

LEMMA PostGainsNone ==
  ASSUME GuardInv, NEW t \in Threads, NEW c \in Tool, Post(t, c)
  PROVE  NoTicketGained
<1> PICK call : call = [c EXCEPT !.at = "wait", !.n = posts', !.reply = None]
  OBVIOUS
<1>1. tool' = [tool EXCEPT ![t] = call]
  BY DEF Post
<1>2. call.at = "wait" /\ call.reply = None /\ None # "ok"
  BY DEF Tool, Replies
<1>3. tool'[t] = call /\ \A u \in Threads : u # t => tool'[u] = tool[u]
  BY <1>1 DEF GuardInv, ToolTypes
<1> QED
  BY <1>2, <1>3 DEF NoTicketGained, Ticket

LEMMA DenyGainsNone ==
  ASSUME GuardInv, NEW t \in Threads, Deny(t)
  PROVE  NoTicketGained
<1>1. tool'[t] = NoTool /\ \A u \in Threads : u # t => tool'[u] = tool[u]
  BY DEF Deny, GuardInv, ToolTypes
<1> QED
  BY <1>1, NoToolTyped DEF NoTicketGained, Ticket

\* What the client does on its own licenses no run, but may give up one.
LEMMA ClientGainsNone ==
  ASSUME GuardInv, NEW t \in Threads,
         \/ \E k \in ToolKeys : Invoke(t, k) \/ \E call \in Calls : CallClient(t, k, call)
         \/ TimeOut(t) \/ TakeReply(t) \/ StopAgent(t)
  PROVE  NoTicketGained /\ granted' = granted /\ ran' = ran
<1> PICK c \in Tool : c = tool[t]
  BY DEF GuardInv, ToolTypes
<1>1. granted' = granted /\ ran' = ran
  BY DEF Invoke, CallClient, TimeOut, TakeReply, StopAgent, ServerUnchanged
<1>2. Retry(t) => NoTicketGained
  BY PostGainsNone, DenyGainsNone DEF Retry
<1>3. ASSUME NEW k \in ToolKeys, Invoke(t, k) PROVE NoTicketGained
  <2> PICK d : d = [NoTool EXCEPT !.call = "authorize", !.key = k, !.guard = TRUE]
    OBVIOUS
  <2>1. "authorize" \in Calls
    BY DEF Calls
  <2>2. d \in Tool /\ Post(t, d)
    BY <1>3, <2>1, NewCallTyped DEF Invoke
  <2> QED
    BY <2>2, PostGainsNone
<1>4. ASSUME NEW k \in ToolKeys, NEW call \in Calls, CallClient(t, k, call) PROVE NoTicketGained
  <2> PICK d : d = [NoTool EXCEPT !.call = call, !.key = k]
    OBVIOUS
  <2>1. d \in Tool /\ Post(t, d)
    BY <1>4, NewCallTyped DEF CallClient
  <2> QED
    BY <2>1, PostGainsNone
<1>5. ASSUME TakeReply(t) PROVE NoTicketGained
  <2>1. CASE Post(t, [c EXCEPT !.call = "consume"])
    <3> PICK d : d = [c EXCEPT !.call = "consume"]
      OBVIOUS
    <3>1. d \in Tool
      BY DEF Tool, Calls
    <3>2. Post(t, d)
      BY <2>1
    <3> QED
      BY <3>1, <3>2, PostGainsNone
  <2>2. CASE c.at = "wait" /\ c.reply = "ok" /\ c.call = "consume" /\ tool' = [tool EXCEPT ![t].at = "run"]
    <3> PICK d : d = [c EXCEPT !.at = "run"]
      OBVIOUS
    <3>1. d.key = c.key
      BY DEF Tool
    <3>2. tool'[t] = d /\ \A u \in Threads : u # t => tool'[u] = tool[u]
      BY <2>2 DEF GuardInv, ToolTypes
    <3>3. \A k \in ToolKeys : Ticket(t, k)' => Ticket(t, k)
      BY <2>2, <3>1, <3>2 DEF Ticket
    <3>4. \A u \in Threads, k \in ToolKeys : u # t => (Ticket(u, k)' => Ticket(u, k))
      BY <3>2 DEF Ticket
    <3> QED
      BY <3>3, <3>4 DEF NoTicketGained
  <2>3. \/ Post(t, [tool[t] EXCEPT !.call = "consume"])
        \/ /\ tool[t].at = "wait" /\ tool[t].reply = "ok" /\ tool[t].call = "consume"
           /\ tool' = [tool EXCEPT ![t].at = "run"]
        \/ Retry(t)
        \/ Deny(t)
    BY <1>5, Zenon DEF TakeReply
  <2> QED
    BY <1>2, <2>1, <2>2, <2>3, DenyGainsNone
<1> QED
  BY <1>1, <1>2, <1>3, <1>4, <1>5, DenyGainsNone DEF TimeOut, StopAgent

\* An answer licenses a run only if it tells of a consumption, and takes none away.
LEMMA AnswerTickets ==
  ASSUME GuardInv, NEW m \in wire, NEW heard \in Replies, Respond(m, heard)
  PROVE  /\ \A u \in Threads, k \in ToolKeys : Ticket(u, k) => Ticket(u, k)'
         /\ \A u \in Threads, k \in ToolKeys :
              Ticket(u, k)' /\ ~Ticket(u, k) => k = m.key /\ m.call = "consume" /\ heard = "ok"
<1> PICK f \in Threads : f = m.from
  BY DEF GuardInv, ToolTypes, Message
<1> PICK c \in Tool : c = tool[f]
  BY DEF GuardInv, ToolTypes
<1> PICK d : d = [c EXCEPT !.reply = heard]
  OBVIOUS
<1>1. d.at = c.at /\ d.call = c.call /\ d.key = c.key /\ d.reply = heard
  BY DEF Tool
<1>2. None # "ok"
  BY DEF Replies
<1>3. CASE c.at = "wait" /\ c.reply = None /\ c.n = m.n
  <2>1. tool'[f] = d /\ \A u \in Threads : u # f => tool'[u] = tool[u]
    BY <1>3 DEF Respond, GuardInv, ToolTypes
  <2>2. c.call = m.call /\ c.key = m.key
    BY <1>3 DEF GuardInv, WireInv
  <2>3. \A u \in Threads, k \in ToolKeys : u # f => (Ticket(u, k)' <=> Ticket(u, k))
    BY <2>1 DEF Ticket
  <2>4. \A k \in ToolKeys : ~Ticket(f, k)
    BY <1>2, <1>3 DEF Ticket
  <2>5. \A k \in ToolKeys : Ticket(f, k)' => k = m.key /\ m.call = "consume" /\ heard = "ok"
    BY <1>1, <1>3, <2>1, <2>2 DEF Ticket
  <2> QED
    BY <2>3, <2>4, <2>5
<1>4. CASE ~(c.at = "wait" /\ c.reply = None /\ c.n = m.n)
  <2>1. tool' = tool
    BY <1>4 DEF Respond
  <2> QED
    BY <2>1 DEF Ticket
<1> QED
  BY <1>3, <1>4

-----------------------------------------------------------------------------
LEMMA RunsAtMostOnce == GuardInv => \A k \in ToolKeys : ran[k] \in {0, 1} /\ (granted[k] \in {None, "active"} => ran[k] = 0)
<1> SUFFICES ASSUME GuardInv, NEW k \in ToolKeys
             PROVE  ran[k] \in {0, 1} /\ (granted[k] \in {None, "active"} => ran[k] = 0)
  OBVIOUS
<1>1. ran[k] \in Nat /\ taken[k] \in Nat /\ ran[k] <= taken[k] /\ taken[k] <= 1
  BY DEF GuardInv, ToolTypes, TicketInv, LeaseInv
<1>2. granted[k] \in {None, "active"} => taken[k] = 0
  BY DEF GuardInv, LeaseInv
<1> QED
  BY <1>1, <1>2

\* Leases that end, and tickets that are given up, are voided together.
LEMMA EndedIsVoid ==
  ASSUME GuardInv, ran' = ran, NoTicketGained,
         \A k \in ToolKeys : \/ granted'[k] = granted[k]
                             \/ granted[k] \in {"active", "consumed"} /\ granted'[k] \in {"consumed", "void"}
  PROVE  LG!GrantNext \/ ToolGrants' = ToolGrants
<1> DEFINE S == {k \in ToolKeys : ToolGrant(k) \in {"live", "taken"} /\ ToolGrant(k)' = "void"}
<1>1. ASSUME NEW k \in ToolKeys PROVE ToolGrant(k)' = IF k \in S THEN "void" ELSE ToolGrant(k)
  <2>1. ran[k] \in {0, 1} /\ ran'[k] = ran[k]
    BY RunsAtMostOnce
  <2>2. None \notin {"active", "consumed", "void"}
    BY DEF LeaseStatus
  <2>3. granted[k] \in LeaseStatus \cup {None}
    BY DEF GuardInv, ToolTypes
  <2>4. \A t \in Threads : Ticket(t, k) => granted[k] \notin {None, "active"}
    BY DEF GuardInv, LeaseInv, TicketInv
  <2>5. \A t \in Threads : Ticket(t, k)' => Ticket(t, k)
    BY DEF NoTicketGained
  <2>6. CASE ran[k] = 1
    BY <2>1, <2>6 DEF ToolGrant
  <2>7. CASE ran[k] = 0 /\ granted[k] = None
    <3>1. granted'[k] = None
      BY <2>2, <2>7
    <3> QED
      BY <2>1, <2>7, <3>1 DEF ToolGrant
  <2>8. CASE ran[k] = 0 /\ granted[k] = "active"
    <3>1. ToolGrant(k) = "live"
      BY <2>2, <2>8 DEF ToolGrant
    <3>2. CASE granted'[k] = "active"
      BY <2>1, <2>2, <2>8, <3>1, <3>2 DEF ToolGrant
    <3>3. CASE granted'[k] # "active"
      <4>1. granted'[k] \notin {None, "active"} /\ ~ \E t \in Threads : Ticket(t, k)'
        BY <2>2, <2>4, <2>5, <2>8, <3>3
      <4>2. ToolGrant(k)' = "void"
        BY <2>1, <2>8, <4>1 DEF ToolGrant
      <4> QED
        BY <3>1, <4>2
    <3> QED
      BY <3>2, <3>3
  <2>9. CASE ran[k] = 0 /\ granted[k] \notin {None, "active"}
    <3>1. granted'[k] \notin {None, "active"}
      BY <2>2, <2>9
    <3>2. ToolGrant(k) = IF \E t \in Threads : Ticket(t, k) THEN "taken" ELSE "void"
      BY <2>9 DEF ToolGrant
    <3>3. ToolGrant(k)' = IF \E t \in Threads : Ticket(t, k)' THEN "taken" ELSE "void"
      BY <2>1, <2>9, <3>1 DEF ToolGrant
    <3> QED
      BY <2>5, <3>2, <3>3
  <2> QED
    BY <2>1, <2>6, <2>7, <2>8, <2>9
<1>2. \A k \in ToolKeys : ToolGrants[k] = ToolGrant(k)
  BY DEF ToolGrants
<1>3. ToolGrants' = [k \in ToolKeys |-> ToolGrant(k)']
  BY DEF ToolGrants
<1>4. ToolGrants' = [k \in ToolKeys |-> IF k \in S THEN "void" ELSE ToolGrants[k]]
  BY <1>1, <1>2, <1>3
<1>5. \A k \in S : ToolGrants[k] \in {"live", "taken"}
  BY <1>2
<1>6. LG!Void(S)
  BY <1>4, <1>5 DEF LG!Void, ToolGrants
<1>7. S \in SUBSET ToolKeys
  OBVIOUS
<1> QED
  BY <1>6, <1>7 DEF LG!GrantNext

\* The grant of one key moves as LeaseGrant lets it.
LEMMA OneGrantMoves ==
  ASSUME NEW k \in ToolKeys, \A j \in ToolKeys : j # k => ToolGrant(j)' = ToolGrant(j),
         \/ ToolGrant(k) = "unissued" /\ ToolGrant(k)' = "live"
         \/ ToolGrant(k) = "live" /\ ToolGrant(k)' = "taken"
         \/ ToolGrant(k) = "taken" /\ ToolGrant(k)' = "used"
  PROVE  LG!GrantNext
<1> PICK to : to = ToolGrant(k)'
  OBVIOUS
<1>1. ToolGrants' = [j \in ToolKeys |-> ToolGrant(j)']
  BY DEF ToolGrants
<1>2. ToolGrants' = [ToolGrants EXCEPT ![k] = to] /\ ToolGrants[k] = ToolGrant(k)
  BY <1>1 DEF ToolGrants
<1>3. LG!Move(k, ToolGrant(k), to)
  BY <1>2 DEF LG!Move, ToolGrants
<1>4. LG!Issue(k) \/ LG!Take(k) \/ LG!Use(k)
  BY <1>3 DEF LG!Issue, LG!Take, LG!Use
<1> QED
  BY <1>4 DEF LG!GrantNext

\* A run uses the lease that its ticket has taken.
LEMMA RunIsGrant ==
  ASSUME GuardInv, NEW t \in Threads, RunTool(t)
  PROVE  LG!GrantNext
<1> PICK k : k = tool[t].key
  OBVIOUS
<1>1. k \in ToolKeys /\ Ticket(t, k) /\ taken[k] = 1 /\ ran[k] = 0 /\ granted' = granted
  BY DEF RunTool, ServerUnchanged, GuardInv, WireInv, TicketInv, Ticket
<1>2. ran'[k] = 1 /\ \A j \in ToolKeys : j # k => ran'[j] = ran[j]
  BY <1>1 DEF RunTool, GuardInv, ToolTypes
<1>3. granted[k] \notin {None, "active"}
  BY <1>1 DEF GuardInv, LeaseInv
<1>4. ToolGrant(k) = "taken"
  BY <1>1, <1>3 DEF ToolGrant
<1>5. ToolGrant(k)' = "used"
  BY <1>2 DEF ToolGrant
<1>6. ASSUME NEW j \in ToolKeys, j # k PROVE ToolGrant(j)' = ToolGrant(j)
  <2>1. tool'[t] = NoTool /\ \A u \in Threads : u # t => tool'[u] = tool[u]
    BY DEF RunTool, Deny, GuardInv, ToolTypes
  <2>2. \A u \in Threads : Ticket(u, j)' <=> Ticket(u, j)
    BY <1>1, <1>6, <2>1, NoToolTyped DEF Ticket
  <2>3. ran'[j] = ran[j] /\ granted'[j] = granted[j]
    BY <1>1, <1>2, <1>6
  <2> QED
    BY <2>2, <2>3 DEF ToolGrant
<1> QED
  BY <1>1, <1>4, <1>5, <1>6, OneGrantMoves

\* The server issues a lease, or takes it for the consumption it answers, or
\* consumes it without the client learning of it.
LEMMA ServeIsGrant ==
  ASSUME GuardInv, NEW m \in wire, NEW heard \in Replies, Serve(m, heard)
  PROVE  LG!GrantNext \/ ToolGrants' = ToolGrants
<1> PICK k \in ToolKeys : k = m.key
  BY DEF GuardInv, ToolTypes, Message
<1>1. Process(m) /\ Respond(m, heard) /\ ran' = ran /\ (heard = "ok" => ServerReply(m) = "ok")
  BY DEF Serve, Respond
<1>2. None \notin {"active", "consumed", "void"}
  BY DEF LeaseStatus
<1>3. granted \in [ToolKeys -> LeaseStatus \cup {None}]
  BY DEF GuardInv, ToolTypes
<1>4. \A j \in ToolKeys : j # k => granted'[j] = granted[j]
  BY <1>1, <1>3 DEF Process
<1>5. /\ m.call = "consume" /\ granted[k] = "active" => granted'[k] = "consumed"
      /\ m.call = "authorize" /\ granted[k] = None => granted'[k] \in {None, "active"}
      /\ ~(m.call = "consume" /\ granted[k] = "active") /\ ~(m.call = "authorize" /\ granted[k] = None) =>
           granted'[k] = granted[k]
  BY <1>1, <1>3 DEF Process
<1>6. /\ \A u \in Threads, j \in ToolKeys : Ticket(u, j) => Ticket(u, j)'
      /\ \A u \in Threads, j \in ToolKeys :
           Ticket(u, j)' /\ ~Ticket(u, j) => j = k /\ m.call = "consume" /\ heard = "ok"
  BY <1>1, AnswerTickets
<1>7. m.call = "consume" /\ heard = "ok" => granted[k] = "active"
  BY <1>1 DEF ServerReply
<1>8. ASSUME NEW j \in ToolKeys, j # k PROVE ToolGrant(j)' = ToolGrant(j)
  <2>1. \A u \in Threads : Ticket(u, j)' <=> Ticket(u, j)
    BY <1>6, <1>8
  <2>2. ran'[j] = ran[j] /\ granted'[j] = granted[j]
    BY <1>1, <1>4, <1>8
  <2> QED
    BY <2>1, <2>2 DEF ToolGrant
<1>9. ran[k] \in {0, 1} /\ (granted[k] \in {None, "active"} => ran[k] = 0) /\ ran'[k] = ran[k]
  BY <1>1, RunsAtMostOnce
<1>10. CASE \E u \in Threads : Ticket(u, k)' /\ ~Ticket(u, k)
  <2>1. granted[k] = "active" /\ granted'[k] = "consumed"
    BY <1>5, <1>6, <1>7, <1>10
  <2>2. ToolGrant(k) = "live"
    BY <1>2, <1>9, <2>1 DEF ToolGrant
  <2>3. ToolGrant(k)' = "taken"
    BY <1>2, <1>9, <1>10, <2>1 DEF ToolGrant
  <2> QED
    BY <1>8, <2>2, <2>3, OneGrantMoves
<1>11. CASE m.call = "authorize" /\ granted[k] = None /\ granted'[k] = "active"
  <2>1. ToolGrant(k) = "unissued"
    <3>1. ran[k] = 0 /\ granted[k] = None
      BY <1>9, <1>11
    <3> QED
      BY <3>1, UnusedIsUnissued
  <2>2. ToolGrant(k)' = "live"
    BY <1>2, <1>9, <1>11 DEF ToolGrant
  <2> QED
    BY <1>8, <2>1, <2>2, OneGrantMoves
<1>12. CASE /\ ~ \E u \in Threads : Ticket(u, k)' /\ ~Ticket(u, k)
            /\ ~ (m.call = "authorize" /\ granted[k] = None /\ granted'[k] = "active")
  <2>1. NoTicketGained
    BY <1>6, <1>12 DEF NoTicketGained
  <2>2. \/ granted'[k] = granted[k]
        \/ granted[k] = "active" /\ granted'[k] = "consumed"
    BY <1>5, <1>12
  <2> QED
    BY <1>1, <1>4, <2>1, <2>2, EndedIsVoid
<1> QED
  BY <1>10, <1>11, <1>12

LEMMA GuardStepIsGrant ==
  ASSUME GuardInv, [GuardNext]_guardVars
  PROVE  LG!GrantNext \/ ToolGrants' = ToolGrants
<1>1. ASSUME NEW t \in Threads,
             \/ \E k \in ToolKeys : Invoke(t, k) \/ \E call \in Calls : CallClient(t, k, call)
             \/ TimeOut(t) \/ TakeReply(t) \/ StopAgent(t)
      PROVE  LG!GrantNext \/ ToolGrants' = ToolGrants
  BY <1>1, ClientGainsNone, EndedIsVoid
<1>2. ASSUME NEW m \in wire, Bounce(m) PROVE LG!GrantNext \/ ToolGrants' = ToolGrants
  <2>1. Respond(m, "unusable") /\ "unusable" \in Replies /\ "unusable" # "ok" /\ granted' = granted /\ ran' = ran
    BY <1>2 DEF Bounce, Replies, Respond, ServerUnchanged
  <2>2. NoTicketGained
    BY <2>1, AnswerTickets DEF NoTicketGained
  <2> QED
    BY <2>1, <2>2, EndedIsVoid
<1>3. ASSUME NEW k \in ToolKeys, VoidLease(k) \/ \E decision \in {"approved", "blocked"} : Review(k, decision)
      PROVE  LG!GrantNext \/ ToolGrants' = ToolGrants
  <2>1. tool' = tool /\ ran' = ran
    BY <1>3 DEF VoidLease, Review
  <2>2. NoTicketGained
    BY <2>1 DEF NoTicketGained, Ticket
  <2>3. \A j \in ToolKeys : \/ granted'[j] = granted[j]
                           \/ (granted[j] \in {"active", "consumed"} /\ granted'[j] \in {"consumed", "void"})
    BY <1>3 DEF VoidLease, Review, GuardInv, ToolTypes
  <2> QED
    BY <2>1, <2>2, <2>3, EndedIsVoid
<1>4. CASE UNCHANGED guardVars
  BY <1>4 DEF guardVars, ToolGrants, ToolGrant, Ticket
<1> QED
  BY <1>1, <1>2, <1>3, <1>4, RunIsGrant, ServeIsGrant DEF GuardNext

\* The SDK's guard, whatever the network does to its requests, and the server
\* implement LeaseGrant: a lease licenses one run, and no ended one comes back.
THEOREM ToolImplementsLeaseGrant == GuardSpec => ToolAsGranted
<1>1. GuardInit => LG!GrantInit
  <2> SUFFICES ASSUME GuardInit, NEW k \in ToolKeys PROVE ToolGrant(k) = "unissued"
    BY DEF LG!GrantInit
  <2>1. ran[k] = 0 /\ granted[k] = None
    BY DEF GuardInit
  <2> QED
    BY <2>1, UnusedIsUnissued
<1>2. GuardInv /\ [GuardNext]_guardVars => [LG!GrantNext]_ToolGrants
  BY GuardStepIsGrant
<1> QED
  BY <1>1, <1>2, GuardInvariant, PTL DEF GuardSpec, ToolAsGranted, LG!GrantSpec, ToolGrants
===============================================================================
