----------------------------- MODULE ReleaseGates -----------------------------
(***************************************************************************)
(* Release gates, replay gates and the release autopilot (app/main.py).  A *)
(* run reads evidence, decides, and saves its result; a run of a saved     *)
(* definition saves the result again with the definition's id, and then    *)
(* the definition as it was read, with this run as its last.  A purge      *)
(* (Governance) deletes old results and definitions.  The checks of a run  *)
(* and what it decides are left out.                                       *)
(*                                                                         *)
(* A definition marked "Faulty variant" belongs to no specification.       *)
(***************************************************************************)
EXTENDS Naturals, Sequences, FiniteSets, Server

CONSTANTS
  MaxResults,    \* results saved (a bound)
  DatasetSize    \* traces of one dataset replay

ASSUME ReleaseAssumption ==
  MaxResults \in Nat /\ DatasetSize \in Nat \ {0} /\ None \notin [edits : Nat, last : Nat]

VARIABLES
  gateDef,       \* release_gate_definitions: the definition, None if there is none
  results,       \* release_gates, replay_gates, dataset_replay_gates, release_autopilot, by age
  gateRun,       \* per thread: the run it serves
  abandoned,     \* history variable: results of runs of the definition that stopped half-way
  reverted,      \* history variable: a save of the definition went over another
  deleted        \* history variable: the definition was deleted

releaseVars == <<gateDef, results, gateRun, abandoned, reverted, deleted>>

-----------------------------------------------------------------------------
ResultIds == 1..Len(results)
\* named: with the id of the definition it is a run of.
Result == [kind : {"release", "replay", "dataset", "autopilot"}, named : BOOLEAN, stored : BOOLEAN]
\* parts: the results the run has saved so far; todo: traces it has yet to replay.
NoRun == [at |-> "idle", for |-> None, read |-> None, parts |-> {}, todo |-> 0]

ReleaseInit ==
  /\ gateDef = None
  /\ results = <<>>
  /\ gateRun = [t \in Threads |-> NoRun]
  /\ abandoned = {}
  /\ reverted = FALSE
  /\ deleted = FALSE

RunDone(t) == gateRun' = [gateRun EXCEPT ![t] = NoRun]
SaveResult(kind) ==
  /\ Len(results) < MaxResults
  /\ results' = Append(results, [kind |-> kind, named |-> FALSE, stored |-> TRUE])
SaveDefinition(read, record) ==
  /\ gateDef' = record
  /\ reverted' = (reverted \/ Stale(gateDef, read))
  /\ UNCHANGED <<abandoned, deleted>>
DefinitionUnchanged == UNCHANGED <<gateDef, abandoned, reverted, deleted>>
InProgress(i) == \E t \in Threads : i \in gateRun[t].parts

-----------------------------------------------------------------------------
\* create_release_gate; patch_release_gate reads the definition and saves it
\* whole; delete_release_gate.
CreateGate ==
  /\ gateDef = None /\ ~deleted         \* one definition: each creation has an id of its own
  /\ gateDef' = [edits |-> 0, last |-> 0]
  /\ UNCHANGED <<results, gateRun, abandoned, reverted, deleted>>

\* A patch, a run of the definition, or a run of its own begins.
OpenRun(t, for) ==
  /\ gateRun[t].at = "idle"
  /\ for \in {"patch", "definition"} => gateDef # None
  /\ gateRun' = [gateRun EXCEPT ![t] =
       [at |-> IF for = "patch" THEN "patch" ELSE IF for \in {"replay", "dataset"} THEN "replay" ELSE "gate",
        for |-> for, read |-> IF for \in {"patch", "definition"} THEN gateDef ELSE None, parts |-> {},
        todo |-> IF for = "dataset" THEN DatasetSize ELSE 1]]
  /\ DefinitionUnchanged /\ UNCHANGED results

\* Faulty variant: the patch makes the definition anew, without its last run.
PatchAnew(t) ==
  /\ gateRun[t].at = "patch"
  /\ SaveDefinition(gateRun[t].read, [edits |-> 1, last |-> 0])
  /\ RunDone(t)
  /\ UNCHANGED results

PatchGate(t) ==
  /\ gateRun[t].at = "patch"
  /\ SaveDefinition(gateRun[t].read, [gateRun[t].read EXCEPT !.edits = 1])
  /\ RunDone(t)
  /\ UNCHANGED results

\* Also a purge of domain release_gate_definitions.
DeleteGate ==
  /\ gateDef # None
  /\ gateDef' = None
  /\ deleted' = TRUE
  /\ UNCHANGED <<results, gateRun, abandoned, reverted>>

\* A purge of domain release_gates, replay_gates or dataset_replay_gates; the
\* result of a run in progress is younger than the shortest retention, a day.
PurgeResult(i) ==
  /\ results[i].stored /\ results[i].kind # "autopilot"
  /\ ~InProgress(i)
  /\ results' = [results EXCEPT ![i].stored = FALSE]
  /\ DefinitionUnchanged /\ UNCHANGED gateRun

\* run_release_gate: the result, saved without the name of a definition.
RunGate(t) ==
  /\ gateRun[t].at = "gate"
  /\ SaveResult("release")
  /\ IF gateRun[t].for = "release"
       THEN RunDone(t)
       ELSE gateRun' = [gateRun EXCEPT ![t].parts = {Len(results) + 1},
              ![t].at = IF gateRun[t].for = "definition" THEN "name" ELSE "compare"]
  /\ DefinitionUnchanged

\* run_release_gate_definition: the result again, with the definition's id ...
NameResult(t) ==
  LET i == CHOOSE x \in gateRun[t].parts : TRUE IN
  /\ gateRun[t].at = "name"
  /\ results' = [results EXCEPT ![i].named = TRUE]
  /\ gateRun' = [gateRun EXCEPT ![t].at = "definition"]
  /\ DefinitionUnchanged

\* ... and the definition as it was read, also over a patch or a deletion.
SaveLastRun(t) ==
  LET i == CHOOSE x \in gateRun[t].parts : TRUE IN
  /\ gateRun[t].at = "definition"
  /\ SaveDefinition(gateRun[t].read, [gateRun[t].read EXCEPT !.last = i])
  /\ RunDone(t)
  /\ UNCHANGED results

-----------------------------------------------------------------------------
\* run_trace_replay_gate, by itself or for a trace of a dataset: each trace has
\* its own result.
ReplayTrace(t) ==
  LET c == gateRun[t] IN
  /\ c.at = "replay"
  /\ SaveResult("replay")
  /\ IF c.for = "replay"
       THEN RunDone(t)
       ELSE gateRun' = [gateRun EXCEPT ![t].parts = @ \cup {Len(results) + 1}, ![t].todo = @ - 1,
                                       ![t].at = IF c.todo = 1 THEN "dataset" ELSE "replay"]
  /\ DefinitionUnchanged

\* run_dataset_replay_gate saves its result after those of its traces, or at once
\* if it finds no trace.
RunDataset(t) ==
  LET c == gateRun[t] IN
  /\ c.at = "dataset" \/ (c.at = "replay" /\ c.for = "dataset" /\ c.todo = DatasetSize)
  /\ SaveResult("dataset")
  /\ RunDone(t)
  /\ DefinitionUnchanged

\* run_release_autopilot compares the candidate after its release gate.
RunAutopilot(t) ==
  /\ gateRun[t].at = "compare"
  /\ SaveResult("autopilot")
  /\ RunDone(t)
  /\ DefinitionUnchanged

\* A step fails, or the process stops: what was saved stays.
DropRun(t) ==
  /\ gateRun[t].at # "idle"
  /\ abandoned' = IF gateRun[t].for = "definition" THEN abandoned \cup gateRun[t].parts ELSE abandoned
  /\ RunDone(t)
  /\ UNCHANGED <<gateDef, results, reverted, deleted>>

ReleaseNext ==
  \/ \E t \in Threads :
       \/ \E for \in {"patch", "definition", "release", "replay", "dataset", "autopilot"} : OpenRun(t, for)
       \/ RunGate(t) \/ ReplayTrace(t) \/ RunDataset(t) \/ RunAutopilot(t)
       \/ PatchGate(t) \/ NameResult(t) \/ SaveLastRun(t) \/ DropRun(t)
  \/ \E i \in ResultIds : PurgeResult(i)
  \/ CreateGate \/ DeleteGate

ReleaseSpec == ReleaseInit /\ [][ReleaseNext]_releaseVars

-----------------------------------------------------------------------------
ReleaseTypeOK ==
  /\ gateDef = None \/ gateDef.last \in 0..Len(results)
  /\ results \in Seq(Result)
  /\ \A t \in Threads : gateRun[t].parts \subseteq ResultIds
  /\ abandoned \subseteq ResultIds
  /\ {reverted, deleted} \subseteq BOOLEAN

(* A definition shows the newest of its runs: every later result with its   *)
(* name that is still stored belongs to a run that has not saved the        *)
(* definition yet, or that stopped before; unless a run or a patch saved    *)
(* the definition over what another one had saved since it was read.        *)
GateShowsNewestRun ==
  gateDef # None /\ ~reverted =>
    \A i \in ResultIds : results[i].named /\ results[i].stored /\ i > gateDef.last =>
      InProgress(i) \/ i \in abandoned
===============================================================================
