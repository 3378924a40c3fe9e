------------------------------ MODULE Providers ------------------------------
(***************************************************************************)
(* A provider connection (app/provider_catalog.py): its key, its lifecycle *)
(* and the requests routed through it.  Every operation reads the record   *)
(* and saves it whole; a test pings the provider in between.  A purge      *)
(* (Governance) deletes the record.                                        *)
(*                                                                         *)
(* A definition marked "Faulty variant" belongs to no specification.       *)
(***************************************************************************)
EXTENDS Naturals, Server

CONSTANT MaxKeys    \* keys the connection is given, in order (a bound)

VARIABLES
  connection,    \* provider_connections: None before it is created
  newestKey,     \* the last key an operator supplied, 0 before any
  provCall,      \* per thread: the operation it serves
  vetted         \* history variable: keys created with, tested or enabled

provVars == <<connection, newestKey, provCall, vetted>>

-----------------------------------------------------------------------------
KeyNumbers == 0..MaxKeys           \* 0: no key
\* keyless: provider_auth_type is "none".  lastStatus, which is only shown, is
\* left out.
Connection == [keyless : BOOLEAN, key : KeyNumbers, status : {"active", "disabled", "rotating"}]
Edits == {"patch", "disable", "enable", "rotate", "test", "mark"}

ASSUME ProviderAssumption == MaxKeys \in Nat /\ MaxKeys >= 1 /\ None \notin Connection

NoProvCall == [at |-> "idle", op |-> None, read |-> None]

ProvInit ==
  /\ connection = None
  /\ newestKey = 0
  /\ provCall = [t \in Threads |-> NoProvCall]
  /\ vetted = {}

ProvDone(t) == provCall' = [provCall EXCEPT ![t] = NoProvCall]

\* Faulty variant: the status is one the schema does not know.
CreateUnknownStatus(key, keyless) ==
  /\ connection = None /\ vetted = {}      \* one connection: each creation has an id of its own
  /\ key \in {0, 1}
  /\ connection' = [keyless |-> keyless, key |-> key, status |-> "enabled"]
  /\ newestKey' = key
  /\ vetted' = {key}
  /\ UNCHANGED provCall

\* create_provider_connection: with a key, or without one.
CreateConnection(key, keyless) ==
  /\ connection = None /\ vetted = {}      \* one connection: each creation has an id of its own
  /\ key \in {0, 1}
  /\ connection' = [keyless |-> keyless, key |-> key, status |-> "active"]
  /\ newestKey' = key
  /\ vetted' = {key}
  /\ UNCHANGED provCall

\* Without a key, and not configured.
LacksKey(record) == record.key = 0 /\ ~record.keyless

\* Every operation starts with get_record; a request is routed through an
\* active connection that lacks no key (configured_connection_providers) and
\* its answer is marked later (mark_provider_connection_route).
OpenConnection(t, op) ==
  /\ provCall[t].at = "idle"
  /\ connection # None
  /\ op = "mark" => connection.status = "active" /\ ~LacksKey(connection)
  /\ provCall' = [provCall EXCEPT ![t] = [at |-> IF op = "mark" THEN "routed" ELSE "save",
                                           op |-> op, read |-> connection]]
  /\ UNCHANGED <<connection, newestKey, vetted>>

\* The provider has answered: the record is read again, to be marked if it is
\* still there.
Reread(t) ==
  /\ provCall[t].at = "routed"
  /\ IF connection = None
       THEN ProvDone(t)
       ELSE provCall' = [provCall EXCEPT ![t].at = "save", ![t].read = connection]
  /\ UNCHANGED <<connection, newestKey, vetted>>

Save(t, record) ==
  /\ connection' = record
  /\ ProvDone(t)

\* patch_, disable_, enable_provider_connection and mark_provider_connection_route.
Edit(t) ==
  LET c == provCall[t] IN
  /\ c.at = "save" /\ c.op \in {"patch", "disable", "enable", "mark"}
  /\ Save(t, CASE c.op = "disable" -> [c.read EXCEPT !.status = "disabled"]
               [] c.op = "enable" -> [c.read EXCEPT !.status = "active"]
               [] c.op \in {"patch", "mark"} -> c.read)
  /\ vetted' = IF c.op = "enable" THEN vetted \cup {c.read.key} ELSE vetted
  /\ UNCHANGED newestKey

\* rotate_provider_connection_key.
Rotate(t) ==
  /\ provCall[t].at = "save" /\ provCall[t].op = "rotate"
  /\ newestKey < MaxKeys
  /\ newestKey' = newestKey + 1
  /\ Save(t, [provCall[t].read EXCEPT !.key = newestKey + 1, !.status = "rotating"])
  /\ UNCHANGED vetted

\* Faulty variant: the outcome is written into the record as it is now, if
\* there is one.
TestLatest(t, ok) ==
  LET now == IF connection = None THEN provCall[t].read ELSE connection IN
  /\ provCall[t].at = "save" /\ provCall[t].op = "test"
  /\ Save(t, [now EXCEPT !.status = IF ok /\ @ = "rotating" THEN "active" ELSE @])
  /\ vetted' = IF ok THEN vetted \cup {provCall[t].read.key} ELSE vetted
  /\ UNCHANGED newestKey

\* test_provider_connection: without a key nothing is sent, unless the provider
\* needs none; a provider that answers makes a rotating connection active.
Test(t, ok) ==
  LET read == provCall[t].read IN
  /\ provCall[t].at = "save" /\ provCall[t].op = "test"
  /\ ok => ~LacksKey(read)
  /\ Save(t, [read EXCEPT !.status = IF ok /\ @ = "rotating" THEN "active" ELSE @])
  /\ vetted' = IF ok THEN vetted \cup {read.key} ELSE vetted
  /\ UNCHANGED newestKey

\* A purge of domain provider_connections; a save that follows brings it back.
PurgeConnection ==
  /\ connection # None
  /\ connection' = None
  /\ UNCHANGED <<newestKey, provCall, vetted>>

ProvNext ==
  \/ \E key \in {0, 1}, keyless \in BOOLEAN : CreateConnection(key, keyless)
  \/ \E t \in Threads : \/ \E op \in Edits : OpenConnection(t, op)
                        \/ \E ok \in BOOLEAN : Test(t, ok)
                        \/ Reread(t) \/ Edit(t) \/ Rotate(t)
  \/ PurgeConnection

ProvSpec == ProvInit /\ [][ProvNext]_provVars

-----------------------------------------------------------------------------
ProvTypeOK ==
  /\ connection \in Connection \cup {None}
  /\ newestKey \in KeyNumbers
  /\ vetted \subseteq KeyNumbers

(* A connection that requests are routed through has a key (or none) that   *)
(* it was created with, that was stored when a test succeeded, or that an   *)
(* operator enabled; a rotated key waits for its test.  Operations save     *)
(* whole records over each other, a test after up to 20 seconds.  That may  *)
(* bring back an old key, an old status or a purged record, none of which   *)
(* this is about; it never activates a key that no test has seen.           *)
RoutedKeyIsVetted ==
  connection # None /\ connection.status = "active" => connection.key \in vetted
=============================================================================
