------------------------------ MODULE Governance ------------------------------
(***************************************************************************)
(* Retention, legal holds and purges of one workspace (app/main.py).  A    *)
(* purge runs from a stored simulation: it reads the active holds, then    *)
(* the records, and then deletes the candidates one by one; no lock orders *)
(* it with the endpoints of holds, nor with those that edit a record.      *)
(* Public ids are unique here.                                             *)
(*                                                                         *)
(* A definition marked "Faulty variant" belongs to no specification.       *)
(***************************************************************************)
EXTENDS Naturals, FiniteSets, Server

CONSTANTS
  Records,       \* governed records
  Renewed,       \* the records whose only time is updatedAt, which an edit sets: prompts
  Marked,        \* the records that is_fake_record takes for demonstration data
  Texts,         \* what a record may say, as far as holds can tell
  Holds,         \* ids of legal holds (a bound)
  Simulations,   \* ids of purge simulations (a bound)
  MaxTime        \* the time, in days, at which the clock stops (a bound)

VARIABLES
  today,         \* the clock
  governed,      \* governed records: record_time and text of each, None once deleted
  retention,     \* data_retention_policies "default": retentionDays
  hold,          \* legal_holds
  simulation,    \* data_purge_simulations: the retention a simulation stored
  govCall,       \* per thread: the request it serves
  rewritten      \* history variable, per thread: what its purge has still to delete
                 \* and an edit saved since it chose

govVars == <<today, governed, retention, hold, simulation, govCall, rewritten>>

-----------------------------------------------------------------------------
Times == 0..MaxTime
Days == 1..MaxTime

ASSUME GovernanceAssumption == MaxTime \in Nat \ {0} /\ Texts # {} /\ Marked \subseteq Records

Record == [time : Times, text : Texts]
Hold == [status : {"none", "active", "released"}, covers : SUBSET Texts]
NoGovCall == [at |-> "idle", days |-> 1, holds |-> {}, todo |-> {}, id |-> None, read |-> None]

\* active_legal_holds.
Active == {h \in Holds : hold[h].status = "active"}

\* record_matches_hold reads the text a record has now; the domains of a hold are
\* part of what it covers.
Matches(record, hs) == \E h \in hs : record.text \in hold[h].covers

\* The condition of governance_candidates.
Eligible(record, days, hs) == record.time + days < today /\ ~Matches(record, hs)
Candidates(days, hs) == {r \in Records : governed[r] # None /\ Eligible(governed[r], days, hs)}

GovInit ==
  /\ today = 0
  /\ governed \in [Records -> [time : {0}, text : Texts]]
  /\ retention \in Days
  /\ hold = [h \in Holds |-> [status |-> "none", covers |-> {}]]
  /\ simulation = [s \in Simulations |-> None]
  /\ govCall = [t \in Threads |-> NoGovCall]
  /\ rewritten = [t \in Threads |-> {}]

GovMove(t, call) == govCall' = [govCall EXCEPT ![t] = call]
RecordsUnchanged == UNCHANGED <<today, governed, rewritten>>

\* put_data_governance_policy; Credentials has its second save, of the settings.
PutPolicy(days) ==
  /\ retention' = days
  /\ UNCHANGED <<hold, simulation, govCall>> /\ RecordsUnchanged

CreateHold(h, covers) ==
  /\ hold[h].status = "none"
  /\ hold' = [hold EXCEPT ![h] = [status |-> "active", covers |-> covers]]
  /\ UNCHANGED <<retention, simulation, govCall>> /\ RecordsUnchanged

\* patch_data_governance_legal_hold reads the hold, and saves it whole with the
\* given status, or with the one it read when only the reason is given.
OpenHold(t, h) ==
  /\ govCall[t].at = "idle"
  /\ hold[h].status # "none"
  /\ GovMove(t, [NoGovCall EXCEPT !.at = "hold", !.id = h, !.read = hold[h]])
  /\ UNCHANGED <<retention, hold, simulation>> /\ RecordsUnchanged

PatchHold(t, status) ==
  /\ govCall[t].at = "hold"
  /\ hold' = [hold EXCEPT ![govCall[t].id] = [govCall[t].read EXCEPT !.status = status]]
  /\ GovMove(t, NoGovCall)
  /\ UNCHANGED <<retention, simulation>> /\ RecordsUnchanged

-----------------------------------------------------------------------------
\* deploy_prompt, update_prompt_traffic, patch_incident and the other edits of a
\* governed record read it, and save it whole, also over a deletion.
OpenEdit(t, r) ==
  /\ govCall[t].at = "idle"
  /\ governed[r] # None
  /\ GovMove(t, [NoGovCall EXCEPT !.at = "edit", !.id = r, !.read = governed[r]])
  /\ UNCHANGED <<retention, hold, simulation>> /\ RecordsUnchanged

SaveEdit(t, text) ==
  LET r == govCall[t].id IN
  /\ govCall[t].at = "edit"
  /\ governed' = [governed EXCEPT ![r] =
       [time |-> IF r \in Renewed THEN today ELSE govCall[t].read.time, text |-> text]]
  /\ rewritten' = [u \in Threads |-> IF r \in govCall[u].todo THEN rewritten[u] \cup {r} ELSE rewritten[u]]
  /\ GovMove(t, NoGovCall)
  /\ UNCHANGED <<today, retention, hold, simulation>>

-----------------------------------------------------------------------------
\* simulate_data_governance_purge: the counts it reports are left out, the
\* policy is stored with it.
Simulate(s) ==
  /\ simulation[s] = None
  /\ simulation' = [simulation EXCEPT ![s] = retention]
  /\ UNCHANGED <<retention, hold, govCall>> /\ RecordsUnchanged

\* run_data_governance_purge with the exact confirmation, any number of times
\* for one simulation: governance_candidates reads the holds first ...
OpenPurge(t, s) ==
  /\ govCall[t].at = "idle"
  /\ simulation[s] # None
  /\ GovMove(t, [NoGovCall EXCEPT !.at = "choose", !.days = simulation[s], !.holds = Active])
  /\ UNCHANGED <<retention, hold, simulation>> /\ RecordsUnchanged

\* Faulty variant: the candidates ignore the holds.
ChooseUnprotected(t) ==
  LET old == Candidates(govCall[t].days, {}) IN
  /\ govCall[t].at = "choose"
  /\ GovMove(t, IF old = {} THEN NoGovCall ELSE [govCall[t] EXCEPT !.at = "delete", !.todo = old])
  /\ UNCHANGED <<retention, hold, simulation>> /\ RecordsUnchanged

\* ... and then the records: those older than the simulation's retention that
\* no hold it read covers.
Choose(t) ==
  LET old == Candidates(govCall[t].days, govCall[t].holds) IN
  /\ govCall[t].at = "choose"
  /\ GovMove(t, IF old = {} THEN NoGovCall ELSE [govCall[t] EXCEPT !.at = "delete", !.todo = old])
  /\ UNCHANGED <<retention, hold, simulation>> /\ RecordsUnchanged

\* delete_governance_record: a record deleted since is skipped, nothing else is
\* looked at again.
DeleteRecord(t, r) ==
  LET c == govCall[t] IN
  /\ c.at = "delete" /\ r \in c.todo
  /\ governed' = [governed EXCEPT ![r] = None]
  /\ rewritten' = [rewritten EXCEPT ![t] = @ \ {r}]
  /\ GovMove(t, IF c.todo = {r} THEN NoGovCall ELSE [c EXCEPT !.todo = @ \ {r}])
  /\ UNCHANGED <<today, retention, hold, simulation>>

\* cleanup_legacy_demo_records, at every start of a server: incidents with an id
\* inc_..., violations vio_..., traces of a session sess_..., all costs.
CleanUpMarked ==
  /\ \E r \in Marked : governed[r] # None
  /\ governed' = [r \in Records |-> IF r \in Marked THEN None ELSE governed[r]]
  /\ UNCHANGED <<today, retention, hold, simulation, govCall, rewritten>>

DayPasses ==
  /\ today < MaxTime
  /\ today' = today + 1
  /\ UNCHANGED <<governed, retention, hold, simulation, govCall, rewritten>>

GovNext ==
  \/ \E t \in Threads :
       \/ \E h \in Holds : OpenHold(t, h)
       \/ \E status \in {"active", "released"} : PatchHold(t, status)
       \/ \E s \in Simulations : OpenPurge(t, s)
       \/ \E r \in Records : OpenEdit(t, r) \/ DeleteRecord(t, r)
       \/ \E text \in Texts : SaveEdit(t, text)
       \/ Choose(t)
  \/ \E days \in Days : PutPolicy(days)
  \/ \E h \in Holds, covers \in SUBSET Texts : CreateHold(h, covers)
  \/ \E s \in Simulations : Simulate(s)
  \/ CleanUpMarked \/ DayPasses

GovSpec == GovInit /\ [][GovNext]_govVars

-----------------------------------------------------------------------------
GovTypeOK ==
  /\ today \in Times
  /\ governed \in [Records -> Record \cup {None}]
  /\ retention \in Days
  /\ hold \in [Holds -> Hold]
  /\ simulation \in [Simulations -> Days \cup {None}]
  /\ rewritten \in [Threads -> SUBSET Records]

(* What a purge is about to delete is still older than the retention its   *)
(* simulation stored, and no hold the purge read covers what the record    *)
(* says, released since or not; unless an edit saved the record after the  *)
(* purge chose it: all are chosen first and none is read again, so a       *)
(* prompt deployed meanwhile is deleted too.                               *)
PurgeSparesHeld ==
  \A t \in Threads : \A r \in govCall[t].todo \ rewritten[t] :
    governed[r] # None => Eligible(governed[r], govCall[t].days, govCall[t].holds)

(* docs/data-governance.md: "Create legal holds for records that must not   *)
(* be deleted."  A purge that chose its candidates before the hold deletes  *)
(* such a record, and so does the start of a server, without looking at     *)
(* holds at all.                                                            *)
HeldRecordSurvives ==
  [][\A r \in Records : governed[r] # None /\ Matches(governed[r], Active) => governed'[r] # None]_govVars
=============================================================================
