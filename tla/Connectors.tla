------------------------------ MODULE Connectors ------------------------------
(***************************************************************************)
(* Automation rules, the webhook deliveries they create, the queue that    *)
(* sends deliveries, and the comment connector of GitHub (app/main.py).    *)
(*                                                                         *)
(* Deliveries are numbered in the order of their creation.  A delivery is  *)
(* read when a request lists the queue, sent without a lock, and saved     *)
(* whole with the outcome.  A purge (Governance) deletes rules, events and *)
(* deliveries.  Payloads and signatures are left out.                      *)
(*                                                                         *)
(* A definition marked "Faulty variant" belongs to no specification.       *)
(***************************************************************************)
EXTENDS Naturals, Sequences, FiniteSets, Server

CONSTANTS
  Rules,          \* automation rules with one trigger
  InlineLimit,    \* NEURALOPS_AUTOMATION_INLINE_LIMIT
  PageLimit,      \* limit of a request to process the queue
  MaxDeliveries,  \* deliveries created (a bound)
  MaxRuns         \* runs of one rule (a bound)

VARIABLES
  deliveries,     \* connector_deliveries, by creation
  rules,          \* automation_rules
  events,         \* automation_events: how many of each rule are stored
  connCall,       \* per thread: the request it serves
  purged,         \* history variable: how many events of each rule a purge deleted
  accepted,       \* history variable, by delivery: sends the receiver accepted
  contended       \* history variable: deliveries held by two requests at once or dropped by one

connVars == <<deliveries, rules, events, connCall, purged, accepted, contended>>

-----------------------------------------------------------------------------
\* dry: a GitHub comment requested without sendExternal.
Delivery == [kind : {"webhook", "github"}, dry : BOOLEAN,
             status : {"pending", "delivered", "failed", "skipped"}, stored : BOOLEAN]
Rule == [enabled : BOOLEAN, runs : Nat, stored : BOOLEAN]
NoConnCall == [at |-> "idle", todo |-> {}, read |-> None]

Ids == 1..Len(deliveries)
Held(t) == IF connCall[t].at \in {"send", "comment", "sent"} THEN connCall[t].todo ELSE {}

ConnInit ==
  /\ deliveries = <<>>
  /\ rules = [r \in Rules |-> [enabled |-> TRUE, runs |-> 0, stored |-> TRUE]]
  /\ events = [r \in Rules |-> 0]
  /\ purged = [r \in Rules |-> 0]
  /\ connCall = [t \in Threads |-> NoConnCall]
  /\ accepted = <<>>
  /\ contended = {}

ConnMove(t, at, todo, read) == connCall' = [connCall EXCEPT ![t] = [at |-> at, todo |-> todo, read |-> read]]
DeliveriesUnchanged == UNCHANGED <<deliveries, accepted, contended>>
RulesUnchanged == UNCHANGED <<rules, events, purged>>

\* save_connector_delivery_record of a new delivery.
NewDelivery(kind, dry) ==
  /\ Len(deliveries) < MaxDeliveries
  /\ deliveries' = Append(deliveries, [kind |-> kind, dry |-> dry, status |-> "pending", stored |-> TRUE])
  /\ accepted' = Append(accepted, 0)
  /\ UNCHANGED contended

-----------------------------------------------------------------------------
Enabled == {r \in Rules : rules[r].stored /\ rules[r].enabled}

\* run_matching_automations: the enabled rules, as many as the limit allows;
\* run_automation_test: one of them.
Trigger(t, rs) ==
  /\ connCall[t].at = "idle"
  /\ rs # {} /\ rs \subseteq Enabled
  /\ \/ Cardinality(rs) \in {1, InlineLimit}
     \/ rs = Enabled /\ Cardinality(rs) <= InlineLimit
  /\ \A r \in rs : events[r] + purged[r] + Cardinality(Threads) <= MaxRuns
  /\ ConnMove(t, "run", rs, rules)
  /\ DeliveriesUnchanged
  /\ RulesUnchanged

\* run_automation_rule: a rule of action webhook_record creates a delivery for
\* the active webhook, the other actions create none.
RunRule(t, r) ==
  /\ connCall[t].at = "run" /\ r \in connCall[t].todo
  /\ NewDelivery("webhook", FALSE) \/ DeliveriesUnchanged
  /\ ConnMove(t, "event", connCall[t].todo, [rule |-> r, rules |-> connCall[t].read])
  /\ RulesUnchanged

\* Faulty variant: the counter is saved before the event.
SaveEventLate(t) ==
  /\ connCall[t].at = "event"
  /\ rules' = [rules EXCEPT ![connCall[t].read.rule] =
       [connCall[t].read.rules[connCall[t].read.rule] EXCEPT !.runs = @ + 1]]
  /\ ConnMove(t, "count", connCall[t].todo, connCall[t].read)
  /\ UNCHANGED <<events, purged>>
  /\ DeliveriesUnchanged

\* record_automation_event saves the event ...
SaveEvent(t) ==
  /\ connCall[t].at = "event"
  /\ events' = [events EXCEPT ![connCall[t].read.rule] = @ + 1]
  /\ ConnMove(t, "count", connCall[t].todo, connCall[t].read)
  /\ UNCHANGED <<rules, purged>>
  /\ DeliveriesUnchanged

\* ... and then the rule as the trigger read it, with one more run.
SaveRule(t) ==
  LET r == connCall[t].read.rule
      rest == connCall[t].todo \ {r}
  IN
  /\ connCall[t].at = "count"
  /\ rules' = [rules EXCEPT ![r] = [connCall[t].read.rules[r] EXCEPT !.runs = @ + 1]]
  /\ IF rest = {} THEN ConnMove(t, "idle", {}, None)
                  ELSE ConnMove(t, "run", rest, connCall[t].read.rules)
  /\ UNCHANGED <<events, purged>>
  /\ DeliveriesUnchanged

\* patch_automation_rule reads the rule and saves it enabled or disabled.
OpenRule(t, r) ==
  /\ connCall[t].at = "idle" /\ rules[r].stored
  /\ ConnMove(t, "patch", {r}, rules)
  /\ DeliveriesUnchanged
  /\ RulesUnchanged

PatchRule(t, r, on) ==
  /\ connCall[t].at = "patch" /\ r \in connCall[t].todo
  /\ rules' = [rules EXCEPT ![r] = [connCall[t].read[r] EXCEPT !.enabled = on]]
  /\ ConnMove(t, "idle", {}, None)
  /\ UNCHANGED <<events, purged>>
  /\ DeliveriesUnchanged

\* A purge of domain automation_rules or automation_events.
PurgeRule(r) ==
  /\ rules[r].stored
  /\ rules' = [rules EXCEPT ![r].stored = FALSE]
  /\ UNCHANGED <<events, purged, connCall>> /\ DeliveriesUnchanged

PurgeEvent(r) ==
  /\ events[r] > 0
  /\ events' = [events EXCEPT ![r] = @ - 1]
  /\ purged' = [purged EXCEPT ![r] = @ + 1]
  /\ UNCHANGED <<rules, connCall>> /\ DeliveriesUnchanged

-----------------------------------------------------------------------------
\* run_automation_rule of a rule with another trigger, of which only the
\* delivery is kept.
OtherRuleRuns(t) ==
  /\ connCall[t].at = "idle"
  /\ NewDelivery("webhook", FALSE)
  /\ UNCHANGED connCall
  /\ RulesUnchanged

\* retry_connector_delivery: a new delivery, whatever became of the old one.
RetryDelivery(t, d) ==
  /\ connCall[t].at = "idle"
  /\ deliveries[d].stored
  /\ deliveries[d].kind = "webhook"        \* a GitHub delivery names no webhook
  /\ NewDelivery("webhook", FALSE)
  /\ UNCHANGED connCall
  /\ RulesUnchanged

\* The newest deliveries that are pending or failed.
Page ==
  LET open == {d \in Ids : deliveries[d].stored /\ deliveries[d].status \in {"pending", "failed"}}
  IN {d \in open : Cardinality({e \in open : e > d}) < PageLimit}

\* process_connector_delivery_queue with sendExternal and sending enabled.
OpenQueue(t) ==
  /\ connCall[t].at = "idle"
  /\ Page # {}
  /\ ConnMove(t, "send", Page, [d \in Page |-> deliveries[d]])
  /\ contended' = contended \cup {d \in Page : \E u \in Threads : d \in Held(u)}
  /\ UNCHANGED <<deliveries, accepted>>
  /\ RulesUnchanged

\* Faulty variant: every answer counts as a delivery.
SendTrusting(t, ok, lost) ==
  LET d == CHOOSE x \in connCall[t].todo : \A y \in connCall[t].todo : y <= x IN
  /\ connCall[t].at = "send"
  /\ accepted' = [accepted EXCEPT ![d] = IF ok /\ @ < 2 THEN @ + 1 ELSE @]
  /\ contended' = IF ok /\ lost THEN contended \cup {d} ELSE contended
  /\ ConnMove(t, "sent", connCall[t].todo,
       [of |-> d, record |-> [connCall[t].read[d] EXCEPT !.status = IF ~lost THEN "delivered" ELSE "failed"],
        page |-> connCall[t].read])
  /\ UNCHANGED deliveries
  /\ RulesUnchanged

\* process_connector_delivery: the newest of the page is sent; an answer
\* outside 2xx and a lost answer of an accepted send are failures.
Send(t, ok, lost) ==
  LET d == CHOOSE x \in connCall[t].todo : \A y \in connCall[t].todo : y <= x IN
  /\ connCall[t].at = "send"
  /\ accepted' = [accepted EXCEPT ![d] = IF ok /\ @ < 2 THEN @ + 1 ELSE @]
  /\ contended' = IF ok /\ lost THEN contended \cup {d} ELSE contended
  /\ ConnMove(t, "sent", connCall[t].todo,
       [of |-> d, record |-> [connCall[t].read[d] EXCEPT !.status = IF ok /\ ~lost THEN "delivered" ELSE "failed"],
        page |-> connCall[t].read])
  /\ UNCHANGED deliveries
  /\ RulesUnchanged

\* mark_connector_delivery: the record read from the page, with the outcome.
Mark(t) ==
  LET d == connCall[t].read.of
      rest == connCall[t].todo \ {d}
  IN
  /\ connCall[t].at = "sent"
  /\ deliveries' = [deliveries EXCEPT ![d] = connCall[t].read.record]
  /\ IF rest = {} THEN ConnMove(t, "idle", {}, None) ELSE ConnMove(t, "send", rest, connCall[t].read.page)
  /\ UNCHANGED <<accepted, contended>>
  /\ RulesUnchanged

\* post_github_pr_comment stores its delivery as pending, a dry run too ...
OpenComment(t, dry) ==
  /\ connCall[t].at = "idle"
  /\ NewDelivery("github", dry)
  /\ ConnMove(t, "comment", {Len(deliveries) + 1}, [d \in {Len(deliveries) + 1} |-> deliveries'[d]])
  /\ RulesUnchanged

\* ... and then marks a dry run, or an unconfigured connector, as skipped; or
\* sends the comment as the queue sends a delivery.
SkipComment(t) ==
  /\ connCall[t].at = "comment"
  /\ deliveries' = [d \in Ids |-> IF d \in connCall[t].todo
                                    THEN [connCall[t].read[d] EXCEPT !.status = "skipped"]
                                    ELSE deliveries[d]]
  /\ ConnMove(t, "idle", {}, None)
  /\ UNCHANGED <<accepted, contended>>
  /\ RulesUnchanged

SendComment(t) ==
  /\ connCall[t].at = "comment"
  /\ \A d \in connCall[t].todo : ~deliveries[d].dry
  /\ ConnMove(t, "send", connCall[t].todo, connCall[t].read)
  /\ UNCHANGED <<deliveries, accepted, contended>>
  /\ RulesUnchanged

\* The process that serves a request stops: what it held stays as stored.
DropRequest(t) ==
  /\ connCall[t].at \in {"send", "comment", "sent"}
  /\ contended' = contended \cup Held(t)
  /\ ConnMove(t, "idle", {}, None)
  /\ UNCHANGED <<deliveries, accepted>>
  /\ RulesUnchanged

\* A purge of domain connector_deliveries; Mark saves what it deleted again.
PurgeDelivery(d) ==
  /\ deliveries[d].stored
  /\ deliveries' = [deliveries EXCEPT ![d].stored = FALSE]
  /\ UNCHANGED <<connCall, accepted, contended>> /\ RulesUnchanged

AutomationNext ==
  \/ \E t \in Threads :
       \/ \E rs \in SUBSET Rules : Trigger(t, rs)
       \/ \E r \in Rules : RunRule(t, r) \/ OpenRule(t, r) \/ PatchRule(t, r, TRUE) \/ PatchRule(t, r, FALSE)
       \/ SaveEvent(t) \/ SaveRule(t)
  \/ \E r \in Rules : PurgeRule(r) \/ PurgeEvent(r)

DeliveryNext ==
  \/ \E t \in Threads :
       \/ \E d \in Ids : RetryDelivery(t, d)
       \/ \E ok, lost \in BOOLEAN : Send(t, ok, lost)
       \/ OtherRuleRuns(t)
       \/ OpenQueue(t) \/ Mark(t) \/ SkipComment(t) \/ SendComment(t) \/ DropRequest(t)
       \/ OpenComment(t, TRUE) \/ OpenComment(t, FALSE)
  \/ \E d \in Ids : PurgeDelivery(d)

ConnNext == AutomationNext \/ DeliveryNext
ConnSpec == ConnInit /\ [][ConnNext]_connVars

-----------------------------------------------------------------------------
ConnTypeOK ==
  /\ deliveries \in Seq(Delivery)
  /\ rules \in [Rules -> Rule]
  /\ events \in [Rules -> Nat]
  /\ purged \in [Rules -> Nat]
  /\ accepted \in [Ids -> 0..2]
  /\ contended \subseteq Ids

(* A run that a rule's counter claims has left its event, which a purge may *)
(* have deleted since, although triggers and patches save the whole rule    *)
(* over each other: record_automation_event saves the event first.          *)
CountedRunsHaveEvents == \A r \in Rules : rules[r].runs <= events[r] + purged[r]

(* A delivery is marked delivered only after its receiver accepted it, and  *)
(* the receiver gets it once, a dry run never, unless two requests held the *)
(* delivery at once or a request stopped, or lost the answer, before it     *)
(* saved the outcome.                                                       *)
DeliveredOnce ==
  \A d \in Ids :
    /\ deliveries[d].status = "delivered" => accepted[d] >= 1
    /\ accepted[d] <= (IF deliveries[d].dry THEN 0 ELSE 1) \/ d \in contended
=============================================================================
