-------------------------------- MODULE Pilot --------------------------------
(***************************************************************************)
(* Public applications for the pilot (app/main.py): an idempotency key     *)
(* names one application until a purge (Governance) deletes it, and an     *)
(* in-memory bucket per client limits how many new ones a client sends in  *)
(* a window of time.                                                       *)
(*                                                                         *)
(* A definition marked "Faulty variant" belongs to no specification.       *)
(***************************************************************************)
EXTENDS Naturals, Sequences, FiniteSets, Server

CONSTANTS
  Clients,       \* client addresses
  PilotKeys,     \* idempotency keys
  Forms,         \* contents of an application, by hash
  RateMax,       \* NEURALOPS_PILOT_RATE_LIMIT_MAX, at least 1
  BucketMax,     \* NEURALOPS_PILOT_RATE_LIMIT_BUCKET_MAX
  MaxAdmitted    \* admissions in one window (a bound)

ASSUME PilotAssumption ==
  /\ None \notin Forms
  /\ RateMax \in Nat \ {0} /\ BucketMax \in Nat \ {0} /\ MaxAdmitted \in Nat

VARIABLES
  application,   \* pilot_applications, by key: the form, None if there is none
  admitted,      \* admissions inside the window, oldest first: the client, and
                 \* whether PILOT_RATE_LIMIT_BUCKETS still has the time (kept)
  pilotCall,     \* per thread: the request it serves
  receipts       \* history variable, by key: the forms answered with the application
                 \* stored now

pilotVars == <<application, admitted, pilotCall, receipts>>

-----------------------------------------------------------------------------
Admission == [client : Clients, kept : BOOLEAN]
NoPilotCall == [at |-> "idle", client |-> None, key |-> None, form |-> None, filtered |-> FALSE]

\* The bucket of a client, as the admissions it has the times of.
Bucket(c) == {i \in DOMAIN admitted : admitted[i].client = c /\ admitted[i].kept}

PilotInit ==
  /\ application = [k \in PilotKeys |-> None]
  /\ admitted = <<>>
  /\ pilotCall = [t \in Threads |-> NoPilotCall]
  /\ receipts = [k \in PilotKeys |-> {}]

PilotDone(t) == pilotCall' = [pilotCall EXCEPT ![t] = NoPilotCall]

\* create_pilot_application: a key with an application is answered from it, or
\* refused (409) for another form.
Apply(t, c, k, f, filtered) ==
  /\ pilotCall[t].at = "idle"
  /\ IF application[k] = None
       THEN /\ pilotCall' = [pilotCall EXCEPT ![t] =
                 [at |-> "limit", client |-> c, key |-> k, form |-> f, filtered |-> filtered]]
            /\ UNCHANGED receipts
       ELSE /\ receipts' = IF application[k] = f THEN [receipts EXCEPT ![k] = @ \cup {f}] ELSE receipts
            /\ UNCHANGED pilotCall
  /\ UNCHANGED <<application, admitted>>

\* A client without a bucket takes the place of the one used longest ago.
BucketOwners == {c \in Clients : Bucket(c) # {}}
LastUse(c) == CHOOSE i \in Bucket(c) : \A j \in Bucket(c) : j <= i
Evicted(c) ==
  IF c \in BucketOwners \/ Cardinality(BucketOwners) < BucketMax THEN {}
  ELSE {CHOOSE d \in BucketOwners : \A e \in BucketOwners : LastUse(d) <= LastUse(e)}
Without(owners) ==
  [i \in DOMAIN admitted |-> [admitted[i] EXCEPT !.kept = @ /\ admitted[i].client \notin owners]]

\* enforce_pilot_rate_limit, under PILOT_RATE_LIMIT_LOCK (429 over the limit).
\* A form with its hidden field filled counts too, and is dropped.
Limit(t) ==
  LET c == pilotCall[t]
      rest == Without(Evicted(c.client))
  IN
  /\ c.at = "limit"
  /\ IF Cardinality(Bucket(c.client)) >= RateMax
       THEN /\ PilotDone(t)
            /\ admitted' = rest
       ELSE /\ Len(admitted) < MaxAdmitted
            /\ admitted' = Append(rest, [client |-> c.client, kept |-> TRUE])
            /\ IF c.filtered THEN PilotDone(t) ELSE pilotCall' = [pilotCall EXCEPT ![t].at = "insert"]
  /\ UNCHANGED <<application, receipts>>

\* Faulty variant: the record is saved whatever is stored.
InsertAlways(t) ==
  LET c == pilotCall[t] IN
  /\ c.at = "insert"
  /\ application' = [application EXCEPT ![c.key] = c.form]
  /\ receipts' = [receipts EXCEPT ![c.key] = @ \cup {c.form}]
  /\ PilotDone(t)
  /\ UNCHANGED admitted

\* insert_record_if_absent: one transaction, the first form wins; another one
\* is refused (409).
Insert(t) ==
  LET c == pilotCall[t]
      saved == IF application[c.key] = None THEN c.form ELSE application[c.key]
  IN
  /\ c.at = "insert"
  /\ application' = [application EXCEPT ![c.key] = saved]
  /\ receipts' = IF saved = c.form THEN [receipts EXCEPT ![c.key] = @ \cup {c.form}] ELSE receipts
  /\ PilotDone(t)
  /\ UNCHANGED admitted

\* A purge of domain pilot_applications: the key is free again.
PurgeApplication(k) ==
  /\ application[k] # None
  /\ application' = [application EXCEPT ![k] = None]
  /\ receipts' = [receipts EXCEPT ![k] = {}]
  /\ UNCHANGED <<admitted, pilotCall>>

\* The oldest admission leaves the window, and its bucket if it is still there.
OldestLeaves ==
  /\ admitted # <<>>
  /\ admitted' = Tail(admitted)
  /\ UNCHANGED <<application, pilotCall, receipts>>

\* The process starts again without its buckets, and its requests end.
RestartPilot ==
  /\ admitted' = Without(Clients)
  /\ pilotCall' = [t \in Threads |-> NoPilotCall]
  /\ UNCHANGED <<application, receipts>>

PilotNext ==
  \/ \E t \in Threads :
       \/ \E c \in Clients, k \in PilotKeys, f \in Forms, filtered \in BOOLEAN : Apply(t, c, k, f, filtered)
       \/ Limit(t) \/ Insert(t)
  \/ \E k \in PilotKeys : PurgeApplication(k)
  \/ OldestLeaves \/ RestartPilot

PilotSpec == PilotInit /\ [][PilotNext]_pilotVars

-----------------------------------------------------------------------------
PilotTypeOK ==
  /\ application \in [PilotKeys -> Forms \cup {None}]
  /\ admitted \in Seq(Admission)
  /\ receipts \in [PilotKeys -> SUBSET Forms]

(* All receipts of a key are for one form, the stored one, however requests *)
(* overlap, until a purge deletes it; and no client has more applications   *)
(* taken in a window than the limit allows, unless its bucket was evicted   *)
(* or the process restarted.                                                *)
PilotPromises ==
  /\ \A k \in PilotKeys : receipts[k] \subseteq {application[k]}
  /\ \A c \in Clients :
       LET taken == {i \in DOMAIN admitted : admitted[i].client = c} IN
       (\A i \in taken : admitted[i].kept) => Cardinality(taken) <= RateMax
===============================================================================
