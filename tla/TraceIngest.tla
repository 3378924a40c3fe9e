----------------------------- MODULE TraceIngest -----------------------------
(***************************************************************************)
(* Ingestion of traces (app/main.py), one by one or in a batch, with       *)
(* idempotency keys: a trace whose key has a record is a duplicate.  The   *)
(* record is saved last, after the trace, its automations and the audit    *)
(* event.  A trace without a key is never a duplicate and left out.        *)
(*                                                                         *)
(* A definition marked "Faulty variant" belongs to no specification.       *)
(***************************************************************************)
EXTENDS Naturals, Sequences, FiniteSets, Server

CONSTANTS
  TraceKeys,     \* idempotency keys of the clients
  MaxBatch,      \* traces of one request (a bound: the schema allows 100)
  MaxTraces      \* traces saved (a bound)

ASSUME IngestAssumption == MaxBatch \in Nat /\ MaxTraces \in Nat /\ None \notin Nat

VARIABLES
  traces,        \* traces, in the order they were saved: key, and whether it is still stored
  idempotency,   \* trace_idempotency, by key: the trace of the record
  triggered,     \* traces whose automations ran
  ingest,        \* per thread: the request it serves
  repeated       \* history variable: keys in two requests at once, or in one that stopped

ingestVars == <<traces, idempotency, triggered, ingest, repeated>>

-----------------------------------------------------------------------------
Batches == UNION {[1..n -> TraceKeys] : n \in 1..MaxBatch}
TraceIds == 1..Len(traces)
NoIngest == [at |-> "idle", todo |-> <<>>, done |-> {}]

\* Keys a request found no record for and has not recorded yet.
Pending(t) ==
  {traces[i].key : i \in ingest[t].done}
    \cup (IF ingest[t].at = "save" THEN {Head(ingest[t].todo)} ELSE {})

IngestInit ==
  /\ traces = <<>>
  /\ idempotency = [k \in TraceKeys |-> None]
  /\ triggered = {}
  /\ ingest = [t \in Threads |-> NoIngest]
  /\ repeated = {}

\* ingest_trace: a request of one; ingest_trace_batch.
StartIngest(t, batch) ==
  /\ ingest[t].at = "idle"
  /\ ingest' = [ingest EXCEPT ![t] = [NoIngest EXCEPT !.at = "check", !.todo = batch]]
  /\ UNCHANGED <<traces, idempotency, triggered, repeated>>

\* A key has a record whose trace is still stored: a purge makes it new again.
Known(k) == idempotency[k] # None /\ traces[idempotency[k]].stored

\* seen_by_key: accepted earlier in this request.
SeenHere(t, k) == \E i \in ingest[t].done : traces[i].key = k

\* Faulty variant: a batch does not look at itself.
DuplicateOnRecord(t, k) == Known(k)

Duplicate(t, k) == SeenHere(t, k) \/ Known(k)

\* ingest_trace_payload: a duplicate is answered with the trace of its record.
CheckTrace(t) ==
  LET k == Head(ingest[t].todo)
      rest == Tail(ingest[t].todo)
  IN
  /\ ingest[t].at = "check"
  /\ IF Duplicate(t, k)
       THEN /\ ingest' = [ingest EXCEPT ![t].todo = rest, ![t].at = IF rest = <<>> THEN "record" ELSE "check"]
            /\ UNCHANGED repeated
       ELSE /\ ingest' = [ingest EXCEPT ![t].at = "save"]
            /\ repeated' = IF \E u \in Threads \ {t} : k \in Pending(u) THEN repeated \cup {k} ELSE repeated
  /\ UNCHANGED <<traces, idempotency, triggered>>

SaveTrace(t) ==
  /\ ingest[t].at = "save"
  /\ Len(traces) < MaxTraces
  /\ traces' = Append(traces, [key |-> Head(ingest[t].todo), stored |-> TRUE])
  /\ ingest' = [ingest EXCEPT ![t].at = "trigger", ![t].done = @ \cup {Len(traces) + 1}]
  /\ UNCHANGED <<idempotency, triggered, repeated>>

\* trigger_trace_automations, of which Connectors has the steps.
TriggerTrace(t) ==
  LET rest == Tail(ingest[t].todo)
      saved == CHOOSE i \in ingest[t].done : \A j \in ingest[t].done : j <= i
  IN
  /\ ingest[t].at = "trigger"
  /\ triggered' = triggered \cup {saved}
  /\ ingest' = [ingest EXCEPT ![t].todo = rest, ![t].at = IF rest = <<>> THEN "record" ELSE "check"]
  /\ UNCHANGED <<traces, idempotency, repeated>>

\* The audit event, and then a record for each accepted trace, in order.
RecordTrace(t) ==
  /\ ingest[t].at = "record"
  /\ IF ingest[t].done = {}
       THEN /\ ingest' = [ingest EXCEPT ![t] = NoIngest]
            /\ UNCHANGED idempotency
       ELSE LET i == CHOOSE x \in ingest[t].done : \A y \in ingest[t].done : x <= y IN
            /\ idempotency' = [idempotency EXCEPT ![traces[i].key] = i]
            /\ ingest' = [ingest EXCEPT ![t].done = @ \ {i}]
  /\ UNCHANGED <<traces, triggered, repeated>>

\* A step fails or the process stops: what was saved stays, and the client may
\* send the traces again.
DropIngest(t) ==
  /\ ingest[t].at # "idle"
  /\ repeated' = repeated \cup Pending(t)
  /\ ingest' = [ingest EXCEPT ![t] = NoIngest]
  /\ UNCHANGED <<traces, idempotency, triggered>>

\* Governance deletes a trace and leaves its record.
PurgeTrace(i) ==
  /\ traces[i].stored
  /\ traces' = [traces EXCEPT ![i].stored = FALSE]
  /\ UNCHANGED <<idempotency, triggered, ingest, repeated>>

IngestNext ==
  \/ \E t \in Threads :
       \/ \E batch \in Batches : StartIngest(t, batch)
       \/ CheckTrace(t) \/ SaveTrace(t) \/ TriggerTrace(t) \/ RecordTrace(t) \/ DropIngest(t)
  \/ \E i \in TraceIds : PurgeTrace(i)

IngestSpec == IngestInit /\ [][IngestNext]_ingestVars

-----------------------------------------------------------------------------
IngestTypeOK ==
  /\ traces \in Seq([key : TraceKeys, stored : BOOLEAN])
  /\ idempotency \in [TraceKeys -> TraceIds \cup {None}]
  /\ triggered \subseteq TraceIds
  /\ \A t \in Threads : ingest[t].done \subseteq TraceIds
  /\ repeated \subseteq TraceKeys

(* A trace sent again under its key is stored once, in one batch or in      *)
(* several requests, unless two requests overlapped or one stopped before   *)
(* the record; and a record names a trace whose automations have run.       *)
TraceStoredOnce ==
  \A k \in TraceKeys :
    /\ k \in repeated \/ Cardinality({i \in TraceIds : traces[i].key = k /\ traces[i].stored}) <= 1
    /\ idempotency[k] # None => idempotency[k] \in triggered
===============================================================================
