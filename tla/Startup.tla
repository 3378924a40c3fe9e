------------------------------- MODULE Startup -------------------------------
(***************************************************************************)
(* The start of a server process (app/main.py, app/database.py): tables,   *)
(* seeding, cleanup, and the state that GET /ready answers from.  On       *)
(* Postgres this runs in a thread while the process serves requests, on    *)
(* SQLite before.  Here Threads are server processes on one store.         *)
(*                                                                         *)
(* A definition marked "Faulty variant" belongs to no specification.       *)
(***************************************************************************)
EXTENDS Naturals, Server

CONSTANT Policies     \* seed.POLICIES, how many

ASSUME StartupAssumption == Policies \in Nat /\ Policies > 0

VARIABLES
  inBackground,  \* the store is Postgres
  seeded,        \* how many of the policies are stored
  defaults,      \* settings "current": "none", "seed", or "changed" by a request
  boot,          \* per server: where its start is, and the settings its cleanup read
  early,         \* history variable: a request stored a record before the seeding
  torn           \* history variable: a server stopped, or failed, while it seeded

bootVars == <<inBackground, seeded, defaults, boot, early, torn>>

-----------------------------------------------------------------------------
Steps == {"off", "count", "seed", "seed_settings", "cleanup", "save", "ready", "unavailable"}
Off == [at |-> "off", next |-> 0, read |-> "none"]

BootInit ==
  /\ inBackground \in BOOLEAN
  /\ seeded = 0
  /\ defaults = "none"
  /\ boot = [s \in Threads |-> Off]
  /\ early = FALSE
  /\ torn = FALSE

BootMove(s, at) == boot' = [boot EXCEPT ![s].at = at]
Seeding(s) == boot[s].at \in {"seed", "seed_settings"}

\* Faulty variant: the state is ready as soon as the tables exist.
StartsReady(s) ==
  /\ boot[s].at = "off"
  /\ \E at \in {"count", "ready"} : BootMove(s, at)
  /\ UNCHANGED <<inBackground, seeded, defaults, early, torn>>

\* lifespan and initialize_database: the state is "checking"; init_postgres or
\* init_sqlite create what is missing.
Start(s) ==
  /\ boot[s].at = "off"
  /\ BootMove(s, "count")
  /\ UNCHANGED <<inBackground, seeded, defaults, early, torn>>

\* seed_if_empty counts the records of the whole store ...
CountRecords(s) ==
  /\ boot[s].at = "count"
  /\ BootMove(s, IF seeded > 0 \/ defaults # "none" \/ early THEN "cleanup" ELSE "seed")
  /\ UNCHANGED <<inBackground, seeded, defaults, early, torn>>

\* ... and fills an empty one: policy after policy, then the settings.
SeedPolicy(s) ==
  LET n == boot[s].next + 1 IN
  /\ boot[s].at = "seed"
  /\ seeded' = IF n > seeded THEN n ELSE seeded
  /\ boot' = [boot EXCEPT ![s].next = n, ![s].at = IF n = Policies THEN "seed_settings" ELSE "seed"]
  /\ UNCHANGED <<inBackground, defaults, early, torn>>

SeedDefaults(s) ==
  /\ boot[s].at = "seed_settings"
  /\ defaults' = "seed"
  /\ boot' = [boot EXCEPT ![s].at = "cleanup", ![s].next = 0]
  /\ UNCHANGED <<inBackground, seeded, early, torn>>

\* cleanup_legacy_demo_records deletes what is_fake_record matches (Governance
\* has this), and saves the settings it read, repaired.
CleanUp(s) ==
  /\ boot[s].at = "cleanup"
  /\ boot' = [boot EXCEPT ![s].at = IF defaults = "none" THEN "ready" ELSE "save", ![s].read = defaults]
  /\ UNCHANGED <<inBackground, seeded, defaults, early, torn>>

SaveDefaults(s) ==
  /\ boot[s].at = "save"
  /\ defaults' = boot[s].read
  /\ boot' = [boot EXCEPT ![s].at = "ready", ![s].read = "none"]
  /\ UNCHANGED <<inBackground, seeded, early, torn>>

\* An exception leaves the state "unavailable" for the life of the process; it
\* ends one that serves no requests yet.
BootFails(s) ==
  /\ boot[s].at \notin {"off", "ready", "unavailable"}
  /\ torn' = (torn \/ Seeding(s))
  /\ boot' = [boot EXCEPT ![s] = [Off EXCEPT !.at = IF inBackground THEN "unavailable" ELSE "off"]]
  /\ UNCHANGED <<inBackground, seeded, defaults, early>>

StopServer(s) ==
  /\ boot[s].at # "off"
  /\ torn' = (torn \/ Seeding(s))
  /\ boot' = [boot EXCEPT ![s] = Off]
  /\ UNCHANGED <<inBackground, seeded, defaults, early>>

\* A request that saves a record, of the settings or another: no endpoint
\* looks at the startup state.
ServeWrite(s) ==
  /\ boot[s].at = "ready" \/ (inBackground /\ boot[s].at # "off")
  /\ defaults' \in {defaults, "changed"}
  /\ early' = (early \/ (seeded = 0 /\ defaults = "none"))
  /\ UNCHANGED <<inBackground, seeded, boot, torn>>

BootNext ==
  \E s \in Threads :
    \/ Start(s) \/ CountRecords(s) \/ SeedPolicy(s) \/ SeedDefaults(s) \/ CleanUp(s) \/ SaveDefaults(s)
    \/ BootFails(s) \/ StopServer(s) \/ ServeWrite(s)

BootSpec == BootInit /\ [][BootNext]_bootVars

-----------------------------------------------------------------------------
BootTypeOK ==
  /\ seeded \in 0..Policies
  /\ defaults \in {"none", "seed", "changed"}
  /\ \A s \in Threads : boot[s].at \in Steps
  /\ {inBackground, early, torn} \subseteq BOOLEAN

(* A server that answers ready has its policies and settings stored, unless *)
(* another is still seeding, an earlier seeding was cut off, or a request   *)
(* wrote to the empty store first: seed_if_empty skips a store that holds   *)
(* any record at all, and never comes back to it.                           *)
ReadyIsSeeded ==
  \A s \in Threads : boot[s].at = "ready" =>
    \/ seeded = Policies /\ defaults # "none"
    \/ early \/ torn
    \/ \E u \in Threads \ {s} : Seeding(u)
===============================================================================
