---------------------------- MODULE ServicesProofs ----------------------------
(* Theorems about Providers, Governance, Startup, Workspace, ReleaseGates,  *)
(* Pilot and Credentials, each under its own specification, for every      *)
(* value of their constants.                                                *)
EXTENDS Credentials, Providers, Governance, Startup, Workspace, ReleaseGates, Pilot,
        Integers, FiniteSetTheorems, FunctionTheorems, TLAPS

USE ServerAssumption, ProviderAssumption, GovernanceAssumption, StartupAssumption,
    WorkspaceAssumption, ReleaseAssumption, PilotAssumption

-----------------------------------------------------------------------------
(* Providers.                                                               *)

ProvCall == [at : {"idle", "routed", "save"}, op : Edits \cup {None}, read : Connection \cup {None}]

\* A record in use has a vetted key: the stored one and those that were read.
UseIsVetted(c) == c # None /\ c.status = "active" => c.key \in vetted

ProvInv ==
  /\ ProvTypeOK
  /\ provCall \in [Threads -> ProvCall]
  /\ \A t \in Threads : IF provCall[t].at = "idle" THEN provCall[t].read = None
                                                 ELSE vetted # {} /\ provCall[t].read # None
  /\ connection # None => vetted # {}
  /\ UseIsVetted(connection)
  /\ \A t \in Threads : UseIsVetted(provCall[t].read)

LEMMA NoProvCallTyped == NoProvCall \in ProvCall /\ NoProvCall.at = "idle" /\ NoProvCall.read = None
  BY DEF NoProvCall, ProvCall

LEMMA ProvInitHolds == ProvInit => ProvInv
  BY NoProvCallTyped DEF ProvInit, ProvInv, ProvTypeOK, UseIsVetted, KeyNumbers

\* A whole record is saved.
LEMMA ProvSaveKeeps ==
  ASSUME ProvInv, NEW t \in Threads, NEW record \in Connection, Save(t, record), vetted # {},
         newestKey' \in KeyNumbers, vetted \subseteq vetted' /\ vetted' \subseteq KeyNumbers,
         record.status = "active" => record.key \in vetted'
  PROVE  ProvInv'
<1>1. /\ provCall' \in [Threads -> ProvCall] /\ provCall'[t] = NoProvCall
      /\ \A u \in Threads : u # t => provCall'[u] = provCall[u]
      /\ connection' = record
  BY NoProvCallTyped DEF Save, ProvDone, ProvInv
<1>2. ProvTypeOK'
  BY <1>1 DEF ProvTypeOK
<1>3. vetted' # {}
  BY DEF Save, ProvInv
<1>4. \A u \in Threads : IF provCall'[u].at = "idle" THEN provCall'[u].read = None
                                                 ELSE vetted' # {} /\ provCall'[u].read # None
  BY <1>1, <1>3, NoProvCallTyped DEF ProvInv
<1>5. UseIsVetted(connection)' /\ \A u \in Threads : UseIsVetted(provCall[u].read)'
  BY <1>1, NoProvCallTyped DEF ProvInv, UseIsVetted
<1> QED
  BY <1>1, <1>2, <1>3, <1>4, <1>5 DEF ProvInv

LEMMA ProvStep == ProvInv /\ [ProvNext]_provVars => ProvInv'
<1> SUFFICES ASSUME ProvInv, [ProvNext]_provVars PROVE ProvInv'
  OBVIOUS
<1>1. /\ newestKey \in KeyNumbers /\ vetted \subseteq KeyNumbers
      /\ connection \in Connection \cup {None} /\ provCall \in [Threads -> ProvCall]
  BY DEF ProvInv, ProvTypeOK
<1>2. ASSUME NEW t \in Threads, provCall[t].at = "save"
      PROVE  /\ provCall[t].read \in Connection /\ vetted # {}
             /\ provCall[t].read.key \in KeyNumbers
             /\ provCall[t].read.status = "active" => provCall[t].read.key \in vetted
  BY <1>1, <1>2 DEF ProvInv, ProvCall, UseIsVetted, Connection
<1>3. ASSUME NEW key \in {0, 1}, NEW keyless \in BOOLEAN, CreateConnection(key, keyless) PROVE ProvInv'
  <2>1. /\ connection' = [keyless |-> keyless, key |-> key, status |-> "active"]
        /\ newestKey' = key /\ vetted' = {key} /\ provCall' = provCall /\ vetted = {}
    BY <1>3 DEF CreateConnection
  <2>2. key \in KeyNumbers
    BY DEF KeyNumbers
  <2>3. connection' \in Connection /\ connection'.key = key
    BY <2>1, <2>2 DEF Connection
  <2>4. \A t \in Threads : provCall[t].at = "idle"
    BY <2>1 DEF ProvInv
  <2>5. \A t \in Threads : UseIsVetted(provCall[t].read)'
    BY <2>1, <2>4 DEF ProvInv, UseIsVetted
  <2> QED
    BY <1>1, <2>1, <2>2, <2>3, <2>4, <2>5 DEF ProvInv, ProvTypeOK, UseIsVetted
<1>4. ASSUME NEW t \in Threads, NEW op \in Edits, OpenConnection(t, op) PROVE ProvInv'
  <2> DEFINE call == [at |-> IF op = "mark" THEN "routed" ELSE "save", op |-> op, read |-> connection]
  <2>1. /\ connection # None /\ provCall' = [provCall EXCEPT ![t] = call]
        /\ UNCHANGED <<connection, newestKey, vetted>>
    BY <1>4 DEF OpenConnection
  <2>2. call \in ProvCall /\ call.read = connection /\ call.at # "idle"
    BY <1>1 DEF ProvCall
  <2> HIDE DEF call
  <2>3. /\ provCall' \in [Threads -> ProvCall] /\ provCall'[t] = call
        /\ \A u \in Threads : u # t => provCall'[u] = provCall[u]
    BY <1>1, <2>1, <2>2
  <2> QED
    BY <2>1, <2>2, <2>3 DEF ProvInv, ProvTypeOK, UseIsVetted
<1>5. ASSUME NEW t \in Threads, Reread(t) PROVE ProvInv'
  <2> DEFINE call == IF connection = None THEN NoProvCall
                     ELSE [provCall[t] EXCEPT !.at = "save", !.read = connection]
  <2>1. /\ provCall' = [provCall EXCEPT ![t] = call]
        /\ UNCHANGED <<connection, newestKey, vetted>>
    BY <1>1, <1>5 DEF Reread, ProvDone
  <2>2. call \in ProvCall /\ call.read = connection /\ (call.at = "idle" <=> connection = None)
    BY <1>1, NoProvCallTyped DEF ProvCall
  <2> HIDE DEF call
  <2>3. /\ provCall' \in [Threads -> ProvCall] /\ provCall'[t] = call
        /\ \A u \in Threads : u # t => provCall'[u] = provCall[u]
    BY <1>1, <2>1, <2>2
  <2> QED
    BY <2>1, <2>2, <2>3 DEF ProvInv, ProvTypeOK, UseIsVetted
<1>6. ASSUME NEW t \in Threads, Edit(t) PROVE ProvInv'
  <2> DEFINE read == provCall[t].read
             record == CASE provCall[t].op = "disable" -> [read EXCEPT !.status = "disabled"]
                         [] provCall[t].op = "enable" -> [read EXCEPT !.status = "active"]
                         [] provCall[t].op \in {"patch", "mark"} -> read
  <2>1. /\ provCall[t].at = "save" /\ provCall[t].op \in {"patch", "disable", "enable", "mark"} /\ Save(t, record)
        /\ vetted' = IF provCall[t].op = "enable" THEN vetted \cup {read.key} ELSE vetted
        /\ newestKey' = newestKey
    BY <1>6 DEF Edit
  <2>2. record \in Connection /\ (record.status = "active" => record.key \in vetted')
    <3>1. CASE provCall[t].op = "disable"
      <4>1. record = [read EXCEPT !.status = "disabled"]
        BY <3>1
      <4> QED
        BY <1>2, <2>1, <4>1 DEF Connection
    <3>2. CASE provCall[t].op = "enable"
      <4>1. record = [read EXCEPT !.status = "active"]
        BY <3>2
      <4> QED
        BY <1>2, <2>1, <3>2, <4>1 DEF Connection
    <3>3. CASE provCall[t].op \in {"patch", "mark"}
      <4>1. record = read
        BY <3>3
      <4> QED
        BY <1>2, <2>1, <3>3, <4>1
    <3> QED
      BY <2>1, <3>1, <3>2, <3>3
  <2>3. vetted \subseteq vetted' /\ vetted' \subseteq KeyNumbers
    BY <1>1, <1>2, <2>1
  <2> HIDE DEF record
  <2> QED
    BY <1>1, <1>2, <2>1, <2>2, <2>3, ProvSaveKeeps
<1>7. ASSUME NEW t \in Threads, Rotate(t) PROVE ProvInv'
  <2> DEFINE record == [provCall[t].read EXCEPT !.key = newestKey + 1, !.status = "rotating"]
  <2>1. provCall[t].at = "save" /\ newestKey < MaxKeys /\ newestKey' = newestKey + 1 /\ Save(t, record) /\ vetted' = vetted
    BY <1>7 DEF Rotate
  <2>2. newestKey' \in KeyNumbers
    BY <1>1, <2>1 DEF KeyNumbers
  <2>3. record \in Connection /\ record.status # "active"
    BY <1>2, <2>1, <2>2 DEF Connection
  <2> HIDE DEF record
  <2> QED
    BY <1>1, <1>2, <2>1, <2>2, <2>3, ProvSaveKeeps
<1>8. ASSUME NEW t \in Threads, NEW ok \in BOOLEAN, Test(t, ok) PROVE ProvInv'
  <2> DEFINE read == provCall[t].read
             status == IF ok /\ read.status = "rotating" THEN "active" ELSE read.status
             record == [read EXCEPT !.status = status]
  <2>1. /\ provCall[t].at = "save" /\ newestKey' = newestKey
        /\ vetted' = IF ok THEN vetted \cup {read.key} ELSE vetted
    BY <1>8 DEF Test
  <2>2. Save(t, record)
    BY <1>8 DEF Test
  <2>3. status \in {"active", "disabled", "rotating"}
    BY <1>2, <2>1 DEF Connection
  <2>4. status = "active" => read.key \in vetted'
    BY <1>2, <2>1
  <2>5. vetted \subseteq vetted' /\ vetted' \subseteq KeyNumbers
    BY <1>1, <1>2, <2>1
  <2> HIDE DEF status
  <2>6. record \in Connection /\ record.status = status /\ record.key = read.key
    BY <1>2, <2>1, <2>3 DEF Connection
  <2> HIDE DEF record
  <2> QED
    BY <1>1, <1>2, <2>1, <2>2, <2>4, <2>5, <2>6, ProvSaveKeeps
<1>9. CASE PurgeConnection
  BY <1>9 DEF PurgeConnection, ProvInv, ProvTypeOK, UseIsVetted
<1>10. CASE UNCHANGED provVars
  BY <1>10 DEF provVars, ProvInv, ProvTypeOK, UseIsVetted
<1> QED
  BY <1>3, <1>4, <1>5, <1>6, <1>7, <1>8, <1>9, <1>10 DEF ProvNext

LEMMA ProvInvariant == ProvSpec => []ProvInv
<1>1. ProvInit => ProvInv
  BY ProvInitHolds
<1> QED
  BY <1>1, ProvStep, PTL DEF ProvSpec

\* Connections and keys keep their types.
THEOREM ProviderTypes == ProvSpec => []ProvTypeOK
<1>1. ProvInv => ProvTypeOK
  BY DEF ProvInv
<1> QED
  BY <1>1, ProvInvariant, PTL

\* No overlap of edits, rotations and tests puts an untried key in use.
THEOREM UsedKeyIsVetted == ProvSpec => []RoutedKeyIsVetted
<1>1. ProvInv => RoutedKeyIsVetted
  BY DEF ProvInv, UseIsVetted, RoutedKeyIsVetted
<1> QED
  BY <1>1, ProvInvariant, PTL
-----------------------------------------------------------------------------
(* Governance.                                                              *)

GovCall == [at : {"idle", "hold", "edit", "choose", "delete"}, days : Days, holds : SUBSET Holds,
            todo : SUBSET Records, id : Holds \cup Records \cup Simulations \cup {None},
            read : Hold \cup Record \cup {None}]

\* What a hold covers never changes once it is placed, and only an edit makes a
\* chosen record younger or changes what it says.
GovCallInv(t) ==
  LET c == govCall[t] IN
  /\ c.at = "hold" => /\ c.id \in Holds /\ c.read \in Hold
                      /\ hold[c.id].status # "none" /\ c.read.covers = hold[c.id].covers
  /\ c.at = "edit" => c.id \in Records /\ c.read \in Record
  /\ \A h \in c.holds : hold[h].status # "none"
  /\ \A r \in c.todo \ rewritten[t] : governed[r] # None => Eligible(governed[r], c.days, c.holds)

GovInv ==
  /\ GovTypeOK
  /\ govCall \in [Threads -> GovCall]
  /\ \A t \in Threads : GovCallInv(t)

LEMMA NoGovCallFits ==
  /\ NoGovCall \in GovCall /\ NoGovCall.at = "idle" /\ NoGovCall.holds = {} /\ NoGovCall.todo = {}
  BY DEF NoGovCall, GovCall, Days

LEMMA IdleFits == \A t \in Threads : govCall[t] = NoGovCall => GovCallInv(t)
  BY NoGovCallFits DEF GovCallInv

LEMMA GovInitHolds == GovInit => GovInv
<1> SUFFICES ASSUME GovInit PROVE GovInv
  OBVIOUS
<1>1. GovTypeOK
  BY DEF GovInit, GovTypeOK, Days, Times, Record, Hold
<1>2. govCall \in [Threads -> GovCall] /\ \A t \in Threads : govCall[t] = NoGovCall
  BY NoGovCallFits DEF GovInit
<1> QED
  BY <1>1, <1>2, IdleFits DEF GovInv

HoldsKept ==
  /\ hold' \in [Holds -> Hold]
  /\ \A h \in Holds : hold[h].status # "none" => hold'[h].status # "none" /\ hold'[h].covers = hold[h].covers

\* A purge keeps its candidates while time passes, holds change and records are
\* deleted, and while the records that are edited are counted as rewritten.
LEMMA GovCallKept ==
  ASSUME GovInv, NEW t \in Threads, govCall'[t] = govCall[t], HoldsKept,
         today' \in Times, today <= today',
         \A r \in govCall[t].todo \ rewritten'[t] : r \notin rewritten[t] /\ governed'[r] \in {governed[r], None}
  PROVE  GovCallInv(t)'
<1> DEFINE c == govCall[t]
<1>1. c \in GovCall /\ c.days \in Nat /\ c.holds \subseteq Holds /\ c.todo \subseteq Records /\ GovCallInv(t)
  BY DEF GovInv, GovCall, Days
<1>2. \A h \in c.holds : /\ hold[h].status # "none" /\ hold'[h].status # "none"
                         /\ hold'[h].covers = hold[h].covers
  BY <1>1 DEF HoldsKept, GovCallInv
<1>3. today \in Nat /\ today' \in Nat
  BY DEF GovInv, GovTypeOK, Times
<1>4. ASSUME NEW r \in c.todo \ rewritten'[t], governed'[r] # None
      PROVE  governed'[r].time + c.days < today' /\ ~\E h \in c.holds : governed'[r].text \in hold'[h].covers
  <2>1. governed'[r] = governed[r] /\ r \in Records /\ r \in c.todo \ rewritten[t] /\ governed[r] # None
    BY <1>1, <1>4
  <2>2. governed[r].time \in Nat
    BY <2>1 DEF GovInv, GovTypeOK, Record, Times
  <2>3. governed[r].time + c.days < today /\ ~\E h \in c.holds : governed[r].text \in hold[h].covers
    BY <1>1, <2>1 DEF GovCallInv, Eligible, Matches
  <2> QED
    BY <1>1, <1>2, <1>3, <2>1, <2>2, <2>3
<1>5. \A r \in govCall'[t].todo \ rewritten'[t] : governed'[r] # None => Eligible(governed[r], govCall[t].days, govCall[t].holds)'
  BY <1>4 DEF Eligible, Matches
<1>6. c.at = "hold" => /\ c.id \in Holds /\ c.read \in Hold
                       /\ hold'[c.id].status # "none" /\ c.read.covers = hold'[c.id].covers
  BY <1>1 DEF HoldsKept, GovCallInv
<1>7. c.at = "edit" => c.id \in Records /\ c.read \in Record
  BY <1>1 DEF GovCallInv
<1> QED
  BY <1>2, <1>5, <1>6, <1>7 DEF GovCallInv

LEMMA HoldsStay == GovInv /\ hold' = hold => HoldsKept
  BY DEF GovInv, GovTypeOK, HoldsKept

\* A request moves, and the holds stay.
LEMMA GovMoveKeeps ==
  ASSUME GovInv, NEW t \in Threads, NEW call \in GovCall, GovMove(t, call), GovCallInv(t)',
         UNCHANGED <<today, retention, hold, simulation>>,
         governed' \in [Records -> Record \cup {None}], rewritten' \in [Threads -> SUBSET Records],
         \A u \in Threads \ {t} : \A r \in govCall[u].todo \ rewritten'[u] :
           r \notin rewritten[u] /\ governed'[r] \in {governed[r], None}
  PROVE  GovInv'
<1>1. /\ govCall' \in [Threads -> GovCall]
      /\ \A u \in Threads \ {t} : govCall'[u] = govCall[u]
  BY DEF GovInv, GovMove
<1>2. GovTypeOK'
  BY DEF GovInv, GovTypeOK
<1>3. HoldsKept /\ today' \in Times /\ today <= today'
  BY HoldsStay DEF GovInv, GovTypeOK, Times
<1>4. \A u \in Threads \ {t} : GovCallInv(u)'
  BY <1>1, <1>3, GovCallKept
<1> QED
  BY <1>1, <1>2, <1>4 DEF GovInv

\* The same, and the records stay.
LEMMA GovCallMoves ==
  ASSUME GovInv, NEW t \in Threads, NEW call \in GovCall, GovMove(t, call), GovCallInv(t)',
         UNCHANGED <<retention, hold, simulation>>, RecordsUnchanged
  PROVE  GovInv'
  BY GovMoveKeeps DEF RecordsUnchanged, GovInv, GovTypeOK

LEMMA GovMoved ==
  ASSUME GovInv, NEW t \in Threads, NEW call, GovMove(t, call)
  PROVE  govCall'[t] = call /\ \A u \in Threads \ {t} : govCall'[u] = govCall[u]
  BY DEF GovInv, GovMove

LEMMA MoveToIdle ==
  ASSUME GovInv, NEW t \in Threads, GovMove(t, NoGovCall)
  PROVE  GovCallInv(t)'
  BY GovMoved, NoGovCallFits DEF GovCallInv

\* A hold changes: a new one, or one that covers what it covered.
LEMMA HoldChangeKeeps ==
  ASSUME GovInv, NEW h \in Holds, NEW record \in Hold, hold' = [hold EXCEPT ![h] = record],
         record.status # "none", hold[h].status = "none" \/ record.covers = hold[h].covers,
         UNCHANGED <<retention, simulation>>, RecordsUnchanged,
         govCall' \in [Threads -> GovCall], \A t \in Threads : govCall'[t] \in {govCall[t], NoGovCall}
  PROVE  GovInv'
<1>1. hold' \in [Holds -> Hold] /\ hold'[h] = record /\ \A g \in Holds : g # h => hold'[g] = hold[g]
  BY DEF GovInv, GovTypeOK
<1>2. GovTypeOK'
  BY <1>1 DEF GovInv, GovTypeOK, RecordsUnchanged
<1>3. HoldsKept /\ today' \in Times /\ today <= today'
  BY <1>1 DEF HoldsKept, GovInv, GovTypeOK, Times, RecordsUnchanged
<1>4. ASSUME NEW t \in Threads PROVE GovCallInv(t)'
  <2>1. CASE govCall'[t] = NoGovCall
    BY <2>1, NoGovCallFits DEF GovCallInv
  <2>2. CASE govCall'[t] = govCall[t]
    BY <1>3, <2>2, GovCallKept DEF RecordsUnchanged
  <2> QED
    BY <2>1, <2>2
<1> QED
  BY <1>2, <1>4 DEF GovInv

LEMMA OpenHoldKeeps ==
  ASSUME GovInv, NEW t \in Threads, NEW h \in Holds, OpenHold(t, h)
  PROVE  GovInv'
<1> DEFINE call == [NoGovCall EXCEPT !.at = "hold", !.id = h, !.read = hold[h]]
<1>1. hold[h] \in Hold /\ hold[h].status # "none" /\ hold' = hold
  BY DEF OpenHold, GovInv, GovTypeOK
<1>2. call \in GovCall
  BY <1>1, NoGovCallFits DEF GovCall
<1>3. /\ call.at = "hold" /\ call.id = h /\ call.read = hold[h]
      /\ call.holds = {} /\ call.todo = {}
  BY <1>1, NoGovCallFits DEF GovCall
<1>4. GovMove(t, call) /\ UNCHANGED <<retention, hold, simulation>> /\ RecordsUnchanged
  BY DEF OpenHold
<1> HIDE DEF call
<1>5. GovCallInv(t)'
  BY <1>1, <1>3, <1>4, GovMoved DEF GovCallInv
<1> QED
  BY <1>2, <1>4, <1>5, GovCallMoves

LEMMA PatchHoldKeeps ==
  ASSUME GovInv, NEW t \in Threads, NEW status \in {"active", "released"}, PatchHold(t, status)
  PROVE  GovInv'
<1> DEFINE c == govCall[t]
           record == [c.read EXCEPT !.status = status]
<1>1. c.id \in Holds /\ c.read \in Hold /\ hold[c.id].status # "none" /\ c.read.covers = hold[c.id].covers
  BY DEF PatchHold, GovInv, GovCallInv
<1>2. record \in Hold /\ record.status # "none" /\ record.covers = c.read.covers
  BY <1>1 DEF Hold
<1>3. /\ hold' = [hold EXCEPT ![c.id] = record] /\ govCall' = [govCall EXCEPT ![t] = NoGovCall]
      /\ UNCHANGED <<retention, simulation>> /\ RecordsUnchanged
  BY DEF PatchHold, GovMove
<1>4. govCall' \in [Threads -> GovCall] /\ \A u \in Threads : govCall'[u] \in {govCall[u], NoGovCall}
  BY <1>3, NoGovCallFits DEF GovInv
<1> HIDE DEF record
<1> QED
  BY <1>1, <1>2, <1>3, <1>4, HoldChangeKeeps

LEMMA CreateHoldKeeps ==
  ASSUME GovInv, NEW h \in Holds, NEW covers \in SUBSET Texts, CreateHold(h, covers)
  PROVE  GovInv'
<1> DEFINE record == [status |-> "active", covers |-> covers]
<1>1. record \in Hold /\ record.status # "none"
  BY DEF Hold
<1>2. /\ hold' = [hold EXCEPT ![h] = record] /\ hold[h].status = "none"
      /\ UNCHANGED <<retention, simulation>> /\ RecordsUnchanged /\ govCall' = govCall
  BY DEF CreateHold
<1>3. govCall' \in [Threads -> GovCall]
  BY <1>2 DEF GovInv
<1> HIDE DEF record
<1> QED
  BY <1>1, <1>2, <1>3, HoldChangeKeeps

LEMMA OpenEditKeeps ==
  ASSUME GovInv, NEW t \in Threads, NEW r \in Records, OpenEdit(t, r)
  PROVE  GovInv'
<1> DEFINE call == [NoGovCall EXCEPT !.at = "edit", !.id = r, !.read = governed[r]]
<1>1. governed[r] \in Record
  BY DEF OpenEdit, GovInv, GovTypeOK
<1>2. call \in GovCall
  BY <1>1, NoGovCallFits DEF GovCall
<1>3. /\ call.at = "edit" /\ call.id = r /\ call.read = governed[r]
      /\ call.holds = {} /\ call.todo = {}
  BY <1>1, NoGovCallFits DEF GovCall
<1>4. GovMove(t, call) /\ UNCHANGED <<retention, hold, simulation>> /\ RecordsUnchanged
  BY DEF OpenEdit
<1> HIDE DEF call
<1>5. GovCallInv(t)'
  BY <1>1, <1>3, <1>4, GovMoved DEF GovCallInv
<1> QED
  BY <1>2, <1>4, <1>5, GovCallMoves

LEMMA SaveEditKeeps ==
  ASSUME GovInv, NEW t \in Threads, NEW text \in Texts, SaveEdit(t, text)
  PROVE  GovInv'
<1>1. PICK r : r = govCall[t].id
  OBVIOUS
<1>2. PICK time : time = IF r \in Renewed THEN today ELSE govCall[t].read.time
  OBVIOUS
<1>3. r \in Records /\ time \in Times
  <2>1. r \in Records /\ govCall[t].read \in Record
    BY <1>1 DEF SaveEdit, GovInv, GovCallInv
  <2> QED
    BY <1>2, <2>1 DEF GovInv, GovTypeOK, Record
<1>4. /\ governed' = [governed EXCEPT ![r] = [time |-> time, text |-> text]]
      /\ rewritten' = [u \in Threads |-> IF r \in govCall[u].todo THEN rewritten[u] \cup {r} ELSE rewritten[u]]
      /\ GovMove(t, NoGovCall) /\ UNCHANGED <<today, retention, hold, simulation>>
  BY <1>1, <1>2 DEF SaveEdit
<1>5. [time |-> time, text |-> text] \in Record
  BY <1>3 DEF Record
<1>6. governed' \in [Records -> Record \cup {None}] /\ \A q \in Records : q # r => governed'[q] = governed[q]
  BY <1>3, <1>4, <1>5 DEF GovInv, GovTypeOK
<1>7. rewritten' \in [Threads -> SUBSET Records]
  BY <1>3, <1>4 DEF GovInv, GovTypeOK
<1>8. ASSUME NEW u \in Threads, NEW q \in govCall[u].todo \ rewritten'[u]
      PROVE  q \notin rewritten[u] /\ governed'[q] \in {governed[q], None}
  <2>1. q \in Records
    BY DEF GovInv, GovCall
  <2> QED
    BY <1>4, <1>6, <1>8, <2>1
<1>9. GovCallInv(t)'
  BY <1>4, MoveToIdle
<1> QED
  BY <1>4, <1>6, <1>7, <1>8, <1>9, NoGovCallFits, GovMoveKeeps DEF GovInv, GovTypeOK

LEMMA OpenPurgeKeeps ==
  ASSUME GovInv, NEW t \in Threads, NEW s \in Simulations, OpenPurge(t, s)
  PROVE  GovInv'
<1> DEFINE call == [NoGovCall EXCEPT !.at = "choose", !.days = simulation[s], !.holds = Active]
<1>1. simulation[s] \in Days /\ Active \subseteq Holds /\ \A h \in Active : hold[h].status # "none"
  BY DEF OpenPurge, Active, GovInv, GovTypeOK
<1>2. call \in GovCall /\ call.at = "choose" /\ call.holds = Active /\ call.todo = {}
  BY <1>1 DEF NoGovCall, GovCall
<1>3. GovMove(t, call) /\ UNCHANGED <<retention, hold, simulation>> /\ RecordsUnchanged
  BY DEF OpenPurge
<1> HIDE DEF call
<1>4. GovCallInv(t)'
  BY <1>1, <1>2, <1>3, GovMoved DEF GovCallInv
<1> QED
  BY <1>2, <1>3, <1>4, GovCallMoves

LEMMA ChooseKeeps ==
  ASSUME GovInv, NEW t \in Threads, Choose(t)
  PROVE  GovInv'
<1> DEFINE c == govCall[t]
           next == [c EXCEPT !.at = "delete", !.todo = Candidates(c.days, c.holds)]
<1>1. c \in GovCall /\ Candidates(c.days, c.holds) \subseteq Records
  BY DEF GovInv, Candidates
<1>2. /\ next \in GovCall /\ next.at = "delete" /\ next.holds = c.holds /\ next.days = c.days
      /\ next.todo = Candidates(c.days, c.holds)
  BY <1>1 DEF GovCall
<1>3. UNCHANGED <<retention, hold, simulation>> /\ RecordsUnchanged
  BY DEF Choose
<1>4. CASE GovMove(t, NoGovCall)
  BY <1>3, <1>4, NoGovCallFits, MoveToIdle, GovCallMoves
<1>5. CASE GovMove(t, next)
  <2>1. /\ govCall'[t] = next /\ hold' = hold /\ governed' = governed /\ today' = today
        /\ \A h \in next.holds : hold'[h].status # "none"
    BY <1>2, <1>3, <1>5, GovMoved DEF RecordsUnchanged, GovInv, GovCallInv
  <2>2. \A r \in next.todo : Eligible(governed[r], next.days, next.holds)
    BY <1>2 DEF Candidates
  <2> HIDE DEF next
  <2>3. GovCallInv(t)'
    BY <1>2, <2>1, <2>2 DEF GovCallInv, Eligible, Matches
  <2> QED
    BY <1>2, <1>3, <1>5, <2>3, GovCallMoves
<1> QED
  BY <1>4, <1>5 DEF Choose

LEMMA DeleteRecordKeeps ==
  ASSUME GovInv, NEW t \in Threads, NEW r \in Records, DeleteRecord(t, r)
  PROVE  GovInv'
<1> DEFINE c == govCall[t]
           next == [c EXCEPT !.todo = c.todo \ {r}]
<1>1. c \in GovCall /\ c.at = "delete" /\ r \in c.todo
  BY DEF DeleteRecord, GovInv
<1>2. /\ next \in GovCall /\ next.at = "delete" /\ next.holds = c.holds /\ next.days = c.days
      /\ next.todo = c.todo \ {r}
  BY <1>1 DEF GovCall
<1>3. /\ governed' = [governed EXCEPT ![r] = None] /\ rewritten' = [rewritten EXCEPT ![t] = rewritten[t] \ {r}]
      /\ UNCHANGED <<today, retention, hold, simulation>>
  BY DEF DeleteRecord
<1>4. /\ governed' \in [Records -> Record \cup {None}] /\ rewritten' \in [Threads -> SUBSET Records]
      /\ \A q \in Records : governed'[q] \in {governed[q], None}
      /\ \A q \in Records : q # r => governed'[q] = governed[q]
      /\ \A u \in Threads : u # t => rewritten'[u] = rewritten[u]
      /\ rewritten'[t] = rewritten[t] \ {r}
  BY <1>3 DEF GovInv, GovTypeOK
<1>5. \A u \in Threads \ {t} : \A q \in govCall[u].todo \ rewritten'[u] :
        q \notin rewritten[u] /\ governed'[q] \in {governed[q], None}
  BY <1>4 DEF GovInv, GovCall
<1>6. CASE GovMove(t, NoGovCall)
  BY <1>3, <1>4, <1>5, <1>6, NoGovCallFits, MoveToIdle, GovMoveKeeps
<1>7. CASE GovMove(t, next)
  <2>1. govCall'[t] = next /\ \A h \in next.holds : hold'[h].status # "none"
    BY <1>2, <1>3, <1>7, GovMoved DEF GovInv, GovCallInv
  <2>2. next.todo \ rewritten'[t] \subseteq c.todo \ rewritten[t]
    BY <1>2, <1>4
  <2>3. \A q \in next.todo \ rewritten'[t] : q \in Records /\ q # r /\ governed'[q] = governed[q]
    BY <1>1, <1>2, <1>4 DEF GovCall
  <2>4. \A q \in next.todo \ rewritten'[t] : governed[q] # None => Eligible(governed[q], next.days, next.holds)
    BY <1>2, <2>2 DEF GovInv, GovCallInv
  <2> HIDE DEF next
  <2>5. GovCallInv(t)'
    BY <1>2, <1>3, <2>1, <2>3, <2>4 DEF GovCallInv, Eligible, Matches
  <2> QED
    BY <1>2, <1>3, <1>4, <1>5, <1>7, <2>5, GovMoveKeeps
<1> QED
  BY <1>6, <1>7 DEF DeleteRecord

\* A step of no request: time passes, or records are deleted.
LEMMA GovQuietKeeps ==
  ASSUME GovInv, UNCHANGED <<hold, govCall, rewritten>>, today' \in Times, today <= today',
         governed' \in [Records -> Record \cup {None}], \A r \in Records : governed'[r] \in {governed[r], None},
         retention' \in Days, simulation' \in [Simulations -> Days \cup {None}]
  PROVE  GovInv'
<1>1. GovTypeOK'
  BY DEF GovInv, GovTypeOK
<1>2. HoldsKept
  BY HoldsStay
<1>3. \A t \in Threads : govCall[t].todo \subseteq Records
  BY DEF GovInv, GovCall
<1>4. \A t \in Threads : GovCallInv(t)'
  BY <1>2, <1>3, GovCallKept
<1> QED
  BY <1>1, <1>4 DEF GovInv

LEMMA GovStep == GovInv /\ [GovNext]_govVars => GovInv'
<1> SUFFICES ASSUME GovInv, [GovNext]_govVars PROVE GovInv'
  OBVIOUS
<1>1. /\ today \in Times /\ today <= today /\ governed \in [Records -> Record \cup {None}]
      /\ retention \in Days /\ simulation \in [Simulations -> Days \cup {None}]
  BY DEF GovInv, GovTypeOK, Times
<1>2. ASSUME NEW days \in Days, PutPolicy(days) PROVE GovInv'
  BY <1>1, <1>2, GovQuietKeeps DEF PutPolicy, RecordsUnchanged
<1>3. ASSUME NEW s \in Simulations, Simulate(s) PROVE GovInv'
  BY <1>1, <1>3, GovQuietKeeps DEF Simulate, RecordsUnchanged
<1>4. CASE CleanUpMarked
  BY <1>1, <1>4, GovQuietKeeps DEF CleanUpMarked
<1>5. CASE DayPasses
  BY <1>1, <1>5, GovQuietKeeps DEF DayPasses, Times
<1>6. CASE UNCHANGED govVars
  BY <1>1, <1>6, GovQuietKeeps DEF govVars
<1> QED
  BY <1>2, <1>3, <1>4, <1>5, <1>6, OpenHoldKeeps, PatchHoldKeeps, CreateHoldKeeps, OpenEditKeeps, SaveEditKeeps,
     OpenPurgeKeeps, ChooseKeeps, DeleteRecordKeeps DEF GovNext

LEMMA GovInvariant == GovSpec => []GovInv
<1>1. GovInit => GovInv
  BY GovInitHolds
<1> QED
  BY <1>1, GovStep, PTL DEF GovSpec

\* Records, holds and simulations keep their types.
THEOREM GovernanceTypes == GovSpec => []GovTypeOK
<1>1. GovInv => GovTypeOK
  BY DEF GovInv
<1> QED
  BY <1>1, GovInvariant, PTL

\* However time passes, holds change and other purges run, a purge goes on to
\* delete only what is old enough and free of the holds it read, edits apart.
THEOREM PurgeSparesWhatItRead == GovSpec => []PurgeSparesHeld
<1>1. GovInv => PurgeSparesHeld
  BY DEF GovInv, GovCallInv, PurgeSparesHeld
<1> QED
  BY <1>1, GovInvariant, PTL
-----------------------------------------------------------------------------
(* Startup.                                                                 *)

BootState == [at : Steps, next : 0..Policies, read : {"none", "seed", "changed"}]
Blank == seeded = 0 /\ defaults = "none"
Complete == seeded = Policies /\ defaults # "none"

\* A server that seeds has stored what it counted, and one that is past the
\* count found or stored something.
ServerInv(s) ==
  /\ boot[s].at = "seed" => boot[s].next < Policies /\ boot[s].next <= seeded
  /\ boot[s].at = "seed_settings" => seeded = Policies
  /\ boot[s].at \notin {"seed", "seed_settings"} => boot[s].next = 0
  /\ boot[s].at = "save" => boot[s].read # "none" /\ defaults # "none"
  /\ boot[s].at \in {"cleanup", "save", "ready"} => early \/ torn \/ ~Blank

\* The store is blank or complete, unless a seeding is under way or was cut
\* off, or a request was earlier.
BootInv ==
  /\ BootTypeOK
  /\ boot \in [Threads -> BootState]
  /\ \A s \in Threads : ServerInv(s)
  /\ early \/ torn \/ Blank \/ Complete \/ \E u \in Threads : Seeding(u)

LEMMA OffTyped == Off \in BootState /\ Off.at = "off" /\ Off.next = 0 /\ Off.read = "none"
  BY DEF Off, BootState, Steps

LEMMA BootInitHolds == BootInit => BootInv
<1> SUFFICES ASSUME BootInit PROVE BootInv
  OBVIOUS
<1>1. boot \in [Threads -> BootState] /\ \A s \in Threads : boot[s] = Off
  BY OffTyped DEF BootInit
<1>2. BootTypeOK
  <2>1. \A s \in Threads : boot[s].at \in Steps
    BY <1>1, OffTyped DEF Steps
  <2>2. {inBackground, early, torn} \subseteq BOOLEAN
    BY DEF BootInit
  <2>3. 0 \in 0..Policies
    OBVIOUS
  <2> QED
    BY <2>1, <2>2, <2>3 DEF BootInit, BootTypeOK
<1>3. \A s \in Threads : ServerInv(s)
  BY <1>1, OffTyped DEF ServerInv
<1> QED
  BY <1>1, <1>2, <1>3 DEF BootInit, BootInv, Blank

\* The store keeps what it has.
StoreGrows ==
  /\ seeded' \in 0..Policies /\ seeded <= seeded'
  /\ defaults' \in {"none", "seed", "changed"} /\ (defaults # "none" => defaults' # "none")
  /\ inBackground' = inBackground /\ early' = early
  /\ torn' \in BOOLEAN /\ (torn => torn')

\* What the state of a server asks of the store after the step.
Fits(state) ==
  /\ state.at = "seed" => state.next < Policies /\ state.next <= seeded'
  /\ state.at = "seed_settings" => seeded' = Policies
  /\ state.at \notin {"seed", "seed_settings"} => state.next = 0
  /\ state.at = "save" => state.read # "none" /\ defaults' # "none"
  /\ state.at \in {"cleanup", "save", "ready"} => early \/ torn \/ ~Blank'

\* A seeding goes on, is cut off or completes, or something else moves.
StaysSeeded(s, state) ==
  \/ early \/ torn' \/ Complete'
  \/ state.at \in {"seed", "seed_settings"}
  \/ ~Seeding(s) /\ seeded' = seeded /\ defaults' = defaults
  \/ ~Seeding(s) /\ seeded' = seeded /\ defaults # "none" /\ defaults' # "none"

LEMMA BootMoveKeeps ==
  ASSUME BootInv, NEW s \in Threads, NEW state \in BootState, boot' = [boot EXCEPT ![s] = state],
         StoreGrows, Fits(state), StaysSeeded(s, state)
  PROVE  BootInv'
<1>1. /\ boot' \in [Threads -> BootState] /\ boot'[s] = state
      /\ \A u \in Threads : u # s => boot'[u] = boot[u]
  BY DEF BootInv
<1>2. BootTypeOK'
  BY <1>1 DEF BootInv, BootTypeOK, BootState, StoreGrows
<1>3. /\ seeded \in 0..Policies /\ seeded' \in 0..Policies /\ seeded <= seeded' /\ (Blank' => Blank)
      /\ early' = early /\ (torn => torn') /\ (defaults # "none" => defaults' # "none")
  BY DEF BootInv, BootTypeOK, Blank, StoreGrows
<1>4. ASSUME NEW u \in Threads PROVE ServerInv(u)'
  <2>1. CASE u = s
    BY <1>1, <1>3, <2>1 DEF ServerInv, Fits
  <2>2. CASE u # s
    <3>1. boot[u] \in BootState /\ ServerInv(u) /\ boot'[u] = boot[u]
      BY <1>1, <2>2 DEF BootInv
    <3> QED
      BY <1>3, <3>1 DEF ServerInv, BootState
  <2> QED
    BY <2>1, <2>2
<1>5. early' \/ torn' \/ Blank' \/ Complete' \/ \E u \in Threads : Seeding(u)'
  <2>1. CASE state.at \in {"seed", "seed_settings"}
    BY <1>1, <2>1 DEF Seeding
  <2>2. CASE ~Seeding(s) /\ seeded' = seeded /\ (defaults' = defaults \/ (defaults # "none" /\ defaults' # "none"))
    <3>1. \A u \in Threads : Seeding(u) => Seeding(u)'
      BY <1>1, <2>2 DEF Seeding
    <3>2. (Blank => Blank') /\ (Complete => Complete')
      BY <2>2 DEF Blank, Complete
    <3> QED
      BY <1>3, <3>1, <3>2 DEF BootInv
  <2> QED
    BY <1>3, <2>1, <2>2 DEF StaysSeeded
<1> QED
  BY <1>1, <1>2, <1>4, <1>5 DEF BootInv

LEMMA BootStep == BootInv /\ [BootNext]_bootVars => BootInv'
<1> SUFFICES ASSUME BootInv, [BootNext]_bootVars PROVE BootInv'
  OBVIOUS
<1>1. /\ inBackground \in BOOLEAN /\ early \in BOOLEAN /\ torn \in BOOLEAN
      /\ seeded \in 0..Policies /\ defaults \in {"none", "seed", "changed"}
      /\ boot \in [Threads -> BootState]
  BY DEF BootInv, BootTypeOK
<1>2. ASSUME NEW s \in Threads, Start(s) PROVE BootInv'
  <2> DEFINE state == [boot[s] EXCEPT !.at = "count"]
  <2>1. state \in BootState /\ state.at = "count" /\ state.next = boot[s].next
    BY <1>1 DEF BootState, Steps
  <2>2. boot' = [boot EXCEPT ![s] = state] /\ boot[s].next = 0 /\ ~Seeding(s)
    BY <1>1, <1>2 DEF Start, BootMove, BootInv, ServerInv, Seeding
  <2> HIDE DEF state
  <2>3. StoreGrows /\ Fits(state) /\ StaysSeeded(s, state)
    BY <1>1, <1>2, <2>1, <2>2 DEF Start, StoreGrows, Fits, StaysSeeded
  <2> QED
    BY <2>1, <2>2, <2>3, BootMoveKeeps
<1>3. ASSUME NEW s \in Threads, CountRecords(s) PROVE BootInv'
  <2> DEFINE at == IF seeded > 0 \/ defaults # "none" \/ early THEN "cleanup" ELSE "seed"
             state == [boot[s] EXCEPT !.at = at]
  <2>1. at \in {"cleanup", "seed"} /\ (at = "cleanup" => early \/ ~Blank)
    BY <1>1 DEF Blank
  <2>2. boot' = [boot EXCEPT ![s] = state] /\ boot[s].next = 0 /\ ~Seeding(s)
        /\ UNCHANGED <<inBackground, seeded, defaults, early, torn>>
    BY <1>1, <1>3 DEF CountRecords, BootMove, BootInv, ServerInv, Seeding
  <2> HIDE DEF at
  <2>3. state \in BootState /\ state.at = at /\ state.next = boot[s].next
    BY <1>1, <2>1 DEF BootState, Steps
  <2>4. Blank' <=> Blank
    BY <2>2 DEF Blank
  <2> HIDE DEF state
  <2>5. StoreGrows /\ StaysSeeded(s, state)
    BY <1>1, <2>2 DEF StoreGrows, StaysSeeded
  <2>6. Fits(state)
    BY <1>1, <2>1, <2>2, <2>3, <2>4 DEF Fits
  <2> QED
    BY <2>2, <2>3, <2>5, <2>6, BootMoveKeeps
<1>4. ASSUME NEW s \in Threads, SeedPolicy(s) PROVE BootInv'
  <2> DEFINE n == boot[s].next + 1
             at == IF n = Policies THEN "seed_settings" ELSE "seed"
             state == [boot[s] EXCEPT !.next = n, !.at = at]
  <2>1. /\ boot[s].at = "seed" /\ boot[s].next \in Nat /\ boot[s].next < Policies /\ boot[s].next <= seeded
    BY <1>1, <1>4 DEF SeedPolicy, BootInv, ServerInv, BootState
  <2>2. n \in 0..Policies /\ n <= Policies
    BY <2>1
  <2>3. /\ boot' = [boot EXCEPT ![s] = state] /\ seeded' = IF n > seeded THEN n ELSE seeded
        /\ UNCHANGED <<inBackground, defaults, early, torn>>
    BY <1>1, <1>4 DEF SeedPolicy
  <2>4. seeded' \in 0..Policies /\ seeded <= seeded' /\ n <= seeded' /\ (n = Policies => seeded' = Policies)
    BY <1>1, <2>2, <2>3
  <2>5. at \in {"seed", "seed_settings"} /\ (at = "seed" => n < Policies) /\ (at = "seed_settings" => n = Policies)
    BY <2>2
  <2> HIDE DEF n, at
  <2>6. state \in BootState /\ state.at = at /\ state.next = n
    BY <1>1, <2>2, <2>5 DEF BootState, Steps
  <2> HIDE DEF state
  <2>7. StoreGrows /\ Fits(state) /\ StaysSeeded(s, state)
    BY <1>1, <2>3, <2>4, <2>5, <2>6 DEF StoreGrows, Fits, StaysSeeded
  <2> QED
    BY <2>3, <2>6, <2>7, BootMoveKeeps
<1>5. ASSUME NEW s \in Threads, SeedDefaults(s) PROVE BootInv'
  <2> DEFINE state == [boot[s] EXCEPT !.at = "cleanup", !.next = 0]
  <2>1. state \in BootState /\ state.at = "cleanup" /\ state.next = 0
    <3>1. "cleanup" \in Steps /\ 0 \in 0..Policies
      BY DEF Steps
    <3> QED
      BY <1>1, <3>1 DEF BootState
  <2>2. /\ boot' = [boot EXCEPT ![s] = state] /\ seeded = Policies
        /\ defaults' = "seed" /\ UNCHANGED <<inBackground, seeded, early, torn>>
    BY <1>1, <1>5 DEF SeedDefaults, BootInv, ServerInv
  <2>3. Complete' /\ ~Blank'
    BY <2>2 DEF Complete, Blank
  <2> HIDE DEF state
  <2>4. StoreGrows /\ Fits(state) /\ StaysSeeded(s, state)
    BY <1>1, <2>1, <2>2, <2>3 DEF StoreGrows, Fits, StaysSeeded
  <2> QED
    BY <2>1, <2>2, <2>4, BootMoveKeeps
<1>6. ASSUME NEW s \in Threads, CleanUp(s) PROVE BootInv'
  <2> DEFINE at == IF defaults = "none" THEN "ready" ELSE "save"
             state == [boot[s] EXCEPT !.at = at, !.read = defaults]
  <2>1. at \in {"ready", "save"} /\ (at = "save" => defaults # "none")
    OBVIOUS
  <2>2. /\ boot' = [boot EXCEPT ![s] = state] /\ boot[s].at = "cleanup"
        /\ UNCHANGED <<inBackground, seeded, defaults, early, torn>>
    BY <1>1, <1>6 DEF CleanUp
  <2>3. boot[s].next = 0 /\ ~Seeding(s) /\ (early \/ torn \/ ~Blank)
    BY <2>2 DEF BootInv, ServerInv, Seeding
  <2> HIDE DEF at
  <2>4. state \in BootState /\ state.at = at /\ state.next = boot[s].next /\ state.read = defaults
    BY <1>1, <2>1 DEF BootState, Steps
  <2>5. Blank' <=> Blank
    BY <2>2 DEF Blank
  <2> HIDE DEF state
  <2>6. StoreGrows /\ StaysSeeded(s, state)
    BY <1>1, <2>2, <2>3 DEF StoreGrows, StaysSeeded
  <2>7. Fits(state)
    BY <1>1, <2>1, <2>2, <2>3, <2>4, <2>5 DEF Fits
  <2> QED
    BY <2>2, <2>4, <2>6, <2>7, BootMoveKeeps
<1>7. ASSUME NEW s \in Threads, SaveDefaults(s) PROVE BootInv'
  <2> DEFINE state == [boot[s] EXCEPT !.at = "ready", !.read = "none"]
  <2>1. state \in BootState /\ state.at = "ready" /\ state.next = boot[s].next
    BY <1>1 DEF BootState, Steps
  <2>2. /\ boot' = [boot EXCEPT ![s] = state] /\ boot[s].at = "save" /\ defaults' = boot[s].read
        /\ UNCHANGED <<inBackground, seeded, early, torn>>
    BY <1>1, <1>7 DEF SaveDefaults
  <2>3. /\ boot[s].next = 0 /\ ~Seeding(s) /\ boot[s].read \in {"seed", "changed"} /\ defaults # "none"
    BY <1>1, <2>2 DEF BootInv, ServerInv, Seeding, BootState
  <2>4. ~Blank'
    BY <2>2, <2>3 DEF Blank
  <2> HIDE DEF state
  <2>5. StoreGrows /\ Fits(state)
    BY <1>1, <2>1, <2>2, <2>3, <2>4 DEF StoreGrows, Fits
  <2>6. StaysSeeded(s, state)
    BY <2>2, <2>3 DEF StaysSeeded
  <2> QED
    BY <2>1, <2>2, <2>5, <2>6, BootMoveKeeps
<1>8. ASSUME NEW s \in Threads, BootFails(s) \/ StopServer(s) PROVE BootInv'
  <2>1. PICK state \in {Off, [Off EXCEPT !.at = "unavailable"], [Off EXCEPT !.at = "off"]} :
          boot' = [boot EXCEPT ![s] = state]
    BY <1>8 DEF BootFails, StopServer
  <2>2. state \in BootState /\ state.at \in {"off", "unavailable"} /\ state.next = 0
    BY <2>1 DEF Off, BootState, Steps
  <2>3. /\ torn' = (torn \/ Seeding(s)) /\ UNCHANGED <<inBackground, seeded, defaults, early>>
    BY <1>8 DEF BootFails, StopServer
  <2>4. torn' \in BOOLEAN
    BY <1>1, <2>3 DEF Seeding
  <2>5. StoreGrows /\ Fits(state)
    BY <1>1, <2>2, <2>3, <2>4 DEF StoreGrows, Fits
  <2>6. StaysSeeded(s, state)
    BY <2>3 DEF StaysSeeded
  <2> QED
    BY <2>1, <2>2, <2>5, <2>6, BootMoveKeeps
<1>9. ASSUME NEW s \in Threads, ServeWrite(s) PROVE BootInv'
  <2>1. /\ UNCHANGED <<inBackground, seeded, boot, torn>> /\ defaults' \in {defaults, "changed"}
        /\ early' = (early \/ Blank)
    BY <1>9 DEF ServeWrite, Blank
  <2>2. BootTypeOK'
    BY <1>1, <2>1 DEF BootInv, BootTypeOK, Blank
  <2>3. (Blank' => Blank) /\ (early => early')
    BY <2>1 DEF Blank
  <2>4. \A u \in Threads : ServerInv(u)'
    BY <1>1, <2>1, <2>3 DEF BootInv, ServerInv
  <2>5. early' \/ torn' \/ Blank' \/ Complete' \/ \E u \in Threads : Seeding(u)'
    BY <2>1 DEF BootInv, Complete, Seeding
  <2> QED
    BY <1>1, <2>1, <2>2, <2>4, <2>5 DEF BootInv
<1>10. CASE UNCHANGED bootVars
  BY <1>10 DEF bootVars, BootInv, BootTypeOK, ServerInv, Blank, Complete, Seeding
<1> QED
  BY <1>2, <1>3, <1>4, <1>5, <1>6, <1>7, <1>8, <1>9, <1>10 DEF BootNext

LEMMA BootInvariant == BootSpec => []BootInv
<1>1. BootInit => BootInv
  BY BootInitHolds
<1> QED
  BY <1>1, BootStep, PTL DEF BootSpec

\* Servers and the store keep their types.
THEOREM StartupTypes == BootSpec => []BootTypeOK
<1>1. BootInv => BootTypeOK
  BY DEF BootInv
<1> QED
  BY <1>1, BootInvariant, PTL

\* A ready server has its seed, unless a seeding was raced or cut off.
THEOREM ReadyServersAreSeeded == BootSpec => []ReadyIsSeeded
<1>1. BootInv => ReadyIsSeeded
  BY DEF BootInv, ServerInv, Seeding, Complete, ReadyIsSeeded
<1> QED
  BY <1>1, BootInvariant, PTL
-----------------------------------------------------------------------------
(* Workspace.                                                               *)

\* An operation and what it names; what it has read.
Names(op, id) == (op = "invite" /\ id \in Invites) \/ (op \in {"add", "patch", "remove"} /\ id \in MemberIds)
Reads(op, read) == (op = "invite" /\ read \in Invite) \/ (op \in {"add", "patch", "remove"} /\ read \in Member)

WsOps == {"invite", "add", "patch", "remove", "accept", "list"}
WsCall == [at : {"idle", "bootstrap", "permit", "save", "refresh", "admit", "spend"}, user : Users \cup {None},
           op : WsOps \cup {None}, id : MemberIds \cup Invites \cup {None}, read : Member \cup Invite \cup {None}]

WsCallInv(c) ==
  /\ c.at \in {"bootstrap", "permit"} => c.user \in Users /\ Names(c.op, c.id)
  /\ c.at = "save" => Names(c.op, c.id) /\ Reads(c.op, c.read)
  /\ c.at \in {"refresh", "admit", "spend"} => c.id \in Invites /\ c.read \in Invite

\* A spent invite is stored, so no new one takes its place.
WsInv ==
  /\ WsTypeOK
  /\ wsCall \in [Threads -> WsCall]
  /\ \A t \in Threads : WsCallInv(wsCall[t])
  /\ \A i \in spent : invite[i] # None /\ invite[i].status # "pending"

LEMMA NoWsCallFits == WsCallInv(NoWsCall) /\ NoWsCall \in WsCall
  BY DEF WsCallInv, NoWsCall, WsCall

LEMMA WsInitHolds == WsInit => WsInv
<1> SUFFICES ASSUME WsInit PROVE WsInv
  OBVIOUS
<1>1. WsTypeOK
  BY DEF WsInit, WsTypeOK
<1>2. wsCall \in [Threads -> WsCall] /\ \A t \in Threads : WsCallInv(wsCall[t])
  BY NoWsCallFits DEF WsInit
<1> QED
  BY <1>1, <1>2 DEF WsInit, WsInv

\* A request moves; members and invites keep their types, and no spent invite
\* becomes pending.
LEMMA WsMoveKeeps ==
  ASSUME WsInv, NEW t \in Threads, NEW call \in WsCall, WsMove(t, call), WsCallInv(call),
         WsTypeOK', \A i \in spent' : invite'[i] # None /\ invite'[i].status # "pending"
  PROVE  WsInv'
<1>1. /\ wsCall' \in [Threads -> WsCall] /\ wsCall'[t] = call
      /\ \A u \in Threads : u # t => wsCall'[u] = wsCall[u]
  BY DEF WsMove, WsInv
<1>2. \A u \in Threads : WsCallInv(wsCall[u])'
  BY <1>1 DEF WsInv, WsCallInv
<1> QED
  BY <1>1, <1>2 DEF WsInv

LEMMA TargetIsRead ==
  ASSUME WsInv, NEW op, NEW id, NEW v \in Users, Names(op, id), Target(op, id, v) # None
  PROVE  Reads(op, Target(op, id, v))
<1>1. CASE op = "invite"
  BY <1>1 DEF Target, Reads, Invite, Roles
<1>2. CASE op = "add"
  BY <1>2 DEF Target, Reads, Member, Roles
<1>3. CASE op \in {"patch", "remove"} /\ id \in MemberIds
  <2>1. member[id] \in Member \cup {None}
    BY <1>3 DEF WsInv, WsTypeOK
  <2>2. CASE op = "remove"
    BY <2>1, <2>2 DEF Target, Reads
  <2>3. CASE op = "patch"
    <3>1. member[id] \in Member /\ Target(op, id, v) = [member[id] EXCEPT !.email = v]
      BY <2>1, <2>3 DEF Target
    <3> QED
      BY <2>3, <3>1 DEF Reads, Member
  <2> QED
    BY <1>3, <2>2, <2>3
<1> QED
  BY <1>1, <1>2, <1>3 DEF Names

LEMMA WsStep == WsInv /\ [WsNext]_wsVars => WsInv'
<1> SUFFICES ASSUME WsInv, [WsNext]_wsVars PROVE WsInv'
  OBVIOUS
<1>1. /\ member \in [MemberIds -> Member \cup {None}] /\ invite \in [Invites -> Invite \cup {None}]
      /\ overdue \subseteq Invites /\ spent \subseteq Invites
      /\ \A i \in spent : invite[i] # None /\ invite[i].status # "pending"
  BY DEF WsInv, WsTypeOK
<1>2. \A t \in Threads : wsCall[t] \in WsCall /\ WsCallInv(wsCall[t])
  BY DEF WsInv
<1>3. ASSUME UNCHANGED <<member, invite, overdue, spent>>
      PROVE  WsTypeOK' /\ \A i \in spent' : invite'[i] # None /\ invite'[i].status # "pending"
  BY <1>1, <1>3 DEF WsTypeOK
<1>4. ASSUME NEW t \in Threads, NEW req \in WriteRequest, NEW u \in Users,
             EnterEmpty(t, u, req[1], req[2]) \/ \E v \in Users : Enter(t, u, req[1], req[2], v)
      PROVE  WsInv'
  <2>1. Names(req[1], req[2]) /\ req[1] \in WsOps /\ req[2] \in MemberIds \cup Invites
    <3>1. CASE req \in {"invite"} \X Invites
      <4>1. req[1] = "invite" /\ req[2] \in Invites
        BY <3>1
      <4> QED
        BY <4>1 DEF Names, WsOps
    <3>2. CASE req \in {"add"} \X Members
      <4>1. req[1] = "add" /\ req[2] \in Members
        BY <3>2
      <4> QED
        BY <4>1 DEF Names, WsOps, MemberIds
    <3>3. CASE req \in {"patch", "remove"} \X MemberIds
      <4>1. req[1] \in {"patch", "remove"} /\ req[2] \in MemberIds
        BY <3>3
      <4> QED
        BY <4>1 DEF Names, WsOps
    <3> QED
      BY <3>1, <3>2, <3>3 DEF WriteRequest
  <2>2. CASE EnterEmpty(t, u, req[1], req[2])
    <3> DEFINE call == [at |-> "bootstrap", user |-> u, op |-> req[1], id |-> req[2], read |-> None]
    <3>1. WsCallInv(call) /\ call \in WsCall
      BY <2>1 DEF WsCallInv, WsCall
    <3>2. WsMove(t, call) /\ UNCHANGED <<member, invite, overdue, spent>>
      BY <2>2 DEF EnterEmpty
    <3> HIDE DEF call
    <3> QED
      BY <1>3, <3>1, <3>2, WsMoveKeeps
  <2>3. ASSUME NEW v \in Users, Enter(t, u, req[1], req[2], v) PROVE WsInv'
    <3> DEFINE call == [at |-> "save", user |-> None, op |-> req[1], id |-> req[2], read |-> Target(req[1], req[2], v)]
    <3>1. Reads(req[1], Target(req[1], req[2], v))
      BY <2>1, <2>3, TargetIsRead DEF Enter
    <3>2. WsCallInv(call) /\ call \in WsCall
      <4>1. Target(req[1], req[2], v) \in Member \cup Invite
        BY <3>1 DEF Reads
      <4> QED
        BY <2>1, <3>1, <4>1 DEF WsCallInv, WsCall
    <3>3. WsMove(t, call) /\ UNCHANGED <<member, invite, overdue, spent>>
      BY <2>3 DEF Enter
    <3> HIDE DEF call
    <3> QED
      BY <1>3, <3>2, <3>3, WsMoveKeeps
  <2> QED
    BY <1>4, <2>2, <2>3
<1>5. ASSUME NEW t \in Threads, Bootstrap(t) PROVE WsInv'
  <2> DEFINE c == wsCall[t]
             call == [c EXCEPT !.at = "permit"]
             owner == [email |-> c.user, role |-> "Owner"]
  <2>1. /\ c \in WsCall /\ c.user \in Users /\ Names(c.op, c.id)
        /\ WsMove(t, call) /\ member' = [member EXCEPT ![c.user] = owner] /\ UNCHANGED <<invite, overdue, spent>>
    BY <1>2, <1>5 DEF Bootstrap, WsCallInv
  <2>2. call \in WsCall /\ WsCallInv(call)
    BY <2>1 DEF WsCall, WsCallInv
  <2>3. owner \in Member
    BY <2>1 DEF Member, Roles
  <2> HIDE DEF call, owner
  <2>4. WsTypeOK'
    BY <1>1, <2>1, <2>3 DEF WsTypeOK, MemberIds
  <2> QED
    BY <1>1, <2>1, <2>2, <2>4, WsMoveKeeps
<1>6. ASSUME NEW t \in Threads, NEW v \in Users, Permit(t, v) PROVE WsInv'
  <2> DEFINE c == wsCall[t]
             read == Target(c.op, c.id, v)
             next == [c EXCEPT !.at = "save", !.user = None, !.read = read]
             call == IF Permitted(c.user) /\ read # None THEN next ELSE NoWsCall
  <2>1. c \in WsCall /\ Names(c.op, c.id) /\ WsMove(t, call) /\ UNCHANGED <<member, invite, overdue, spent>>
    BY <1>2, <1>6 DEF Permit, WsCallInv
  <2>2. call \in WsCall /\ WsCallInv(call)
    <3>1. CASE read # None
      <4>1. Reads(c.op, read)
        BY <2>1, <3>1, TargetIsRead
      <4>2. read \in Member \cup Invite
        BY <4>1 DEF Reads
      <4> HIDE DEF read
      <4>3. next \in WsCall /\ WsCallInv(next)
        BY <2>1, <4>1, <4>2 DEF WsCall, WsCallInv
      <4> QED
        BY <4>3, NoWsCallFits
    <3>2. CASE read = None
      BY <3>2, NoWsCallFits
    <3> QED
      BY <3>1, <3>2
  <2> HIDE DEF call
  <2> QED
    BY <1>3, <2>1, <2>2, WsMoveKeeps
<1>7. ASSUME NEW t \in Threads, NEW role \in Roles, SaveWorkspace(t, role) PROVE WsInv'
  <2> DEFINE c == wsCall[t]
             record == [c.read EXCEPT !.role = role]
  <2>1. /\ Names(c.op, c.id) /\ Reads(c.op, c.read) /\ WsMove(t, NoWsCall) /\ UNCHANGED <<overdue, spent>>
    BY <1>2, <1>7 DEF SaveWorkspace, WsCallInv
  <2>2. CASE c.op = "invite"
    <3>1. /\ c.id \in Invites /\ record \in Invite /\ invite[c.id] = None
          /\ invite' = [invite EXCEPT ![c.id] = record] /\ member' = member
      BY <1>7, <2>1, <2>2 DEF SaveWorkspace, Fresh, Names, Reads, Invite, Roles
    <3> HIDE DEF record
    <3>2. WsTypeOK'
      BY <1>1, <2>1, <3>1 DEF WsTypeOK
    <3>3. \A i \in spent' : invite'[i] # None /\ invite'[i].status # "pending"
      BY <1>1, <2>1, <3>1
    <3> QED
      BY <2>1, <3>2, <3>3, NoWsCallFits, WsMoveKeeps
  <2>3. CASE c.op \in {"add", "patch", "remove"}
    <3>1. /\ c.id \in MemberIds /\ record \in Member /\ invite' = invite
      BY <1>7, <2>1, <2>3 DEF SaveWorkspace, Names, Reads, Member, Roles
    <3>2. \E m \in Member \cup {None} : member' = [member EXCEPT ![c.id] = m]
      <4>1. CASE c.op = "remove"
        BY <1>7, <4>1 DEF SaveWorkspace
      <4>2. CASE c.op \in {"add", "patch"}
        <5>1. member' = [member EXCEPT ![c.id] = record]
          BY <1>7, <4>2 DEF SaveWorkspace
        <5> HIDE DEF record
        <5> QED
          BY <3>1, <5>1
      <4> QED
        BY <2>3, <4>1, <4>2
    <3>3. WsTypeOK'
      BY <1>1, <2>1, <3>1, <3>2 DEF WsTypeOK
    <3>4. \A i \in spent' : invite'[i] # None /\ invite'[i].status # "pending"
      BY <1>1, <2>1, <3>1
    <3> QED
      BY <2>1, <3>3, <3>4, NoWsCallFits, WsMoveKeeps
  <2> QED
    BY <2>1, <2>2, <2>3 DEF Names
<1>8. ASSUME NEW t \in Threads, NEW i \in Invites, OpenInvite(t, i, "accept") \/ OpenInvite(t, i, "list") PROVE WsInv'
  <2>1. PICK op \in {"accept", "list"} : OpenInvite(t, i, op)
    BY <1>8
  <2> DEFINE call == [at |-> "refresh", user |-> None, op |-> op, id |-> i, read |-> invite[i]]
  <2>2. invite[i] \in Invite /\ WsMove(t, call) /\ UNCHANGED <<member, invite, overdue, spent>>
    BY <1>1, <2>1 DEF OpenInvite
  <2>3. call \in WsCall /\ WsCallInv(call)
    BY <2>2 DEF WsCall, WsCallInv, WsOps
  <2> HIDE DEF call
  <2> QED
    BY <1>3, <2>2, <2>3, WsMoveKeeps
<1>9. ASSUME NEW t \in Threads, Refresh(t) PROVE WsInv'
  <2> DEFINE c == wsCall[t]
             expired == [c.read EXCEPT !.status = "expired"]
             next == [c EXCEPT !.at = "admit"]
  <2>1. c \in WsCall /\ c.at = "refresh" /\ c.id \in Invites /\ c.read \in Invite
    BY <1>2, <1>9 DEF Refresh, WsCallInv
  <2>2. next \in WsCall /\ WsCallInv(next)
    BY <2>1 DEF WsCall, WsCallInv
  <2>3. PICK call \in {next, NoWsCall} : WsMove(t, call)
    BY <1>9 DEF Refresh
  <2>4. /\ invite' = [invite EXCEPT ![c.id] = expired] \/ invite' = invite
        /\ UNCHANGED <<member, overdue, spent>>
    BY <1>9 DEF Refresh
  <2>5. expired \in Invite /\ expired.status = "expired"
    BY <2>1 DEF Invite
  <2> HIDE DEF expired, next
  <2>6. WsTypeOK'
    BY <1>1, <2>1, <2>4, <2>5 DEF WsTypeOK
  <2>7. \A i \in spent' : invite'[i] # None /\ invite'[i].status # "pending"
    BY <1>1, <2>1, <2>4, <2>5
  <2> QED
    BY <2>2, <2>3, <2>6, <2>7, NoWsCallFits, WsMoveKeeps
<1>10. ASSUME NEW t \in Threads, NEW m \in MemberIds, AdmitMember(t, m) PROVE WsInv'
  <2> DEFINE c == wsCall[t]
             record == [email |-> c.read.email, role |-> c.read.role]
             call == [c EXCEPT !.at = "spend"]
  <2>1. c \in WsCall /\ c.at = "admit" /\ c.id \in Invites /\ c.read \in Invite
    BY <1>2, <1>10 DEF AdmitMember, WsCallInv
  <2>2. call \in WsCall /\ WsCallInv(call)
    BY <2>1 DEF WsCall, WsCallInv
  <2>3. record \in Member
    BY <2>1 DEF Invite, Member, Roles
  <2>4. WsMove(t, call) /\ member' = [member EXCEPT ![m] = record] /\ UNCHANGED <<invite, overdue, spent>>
    BY <1>10 DEF AdmitMember
  <2> HIDE DEF call, record
  <2>5. WsTypeOK'
    BY <1>1, <2>3, <2>4 DEF WsTypeOK
  <2> QED
    BY <1>1, <2>2, <2>4, <2>5, WsMoveKeeps
<1>11. ASSUME NEW t \in Threads, SpendInvite(t) PROVE WsInv'
  <2> DEFINE c == wsCall[t]
             record == [c.read EXCEPT !.status = "accepted"]
  <2>1. c.id \in Invites /\ c.read \in Invite
    BY <1>2, <1>11 DEF SpendInvite, WsCallInv
  <2>2. record \in Invite /\ record.status = "accepted"
    BY <2>1 DEF Invite
  <2>3. /\ invite' = [invite EXCEPT ![c.id] = record] /\ spent' = spent \cup {c.id}
        /\ WsMove(t, NoWsCall) /\ UNCHANGED <<member, overdue>>
    BY <1>11 DEF SpendInvite
  <2> HIDE DEF record
  <2>4. WsTypeOK'
    BY <1>1, <2>1, <2>2, <2>3 DEF WsTypeOK
  <2>5. \A i \in spent' : invite'[i] # None /\ invite'[i].status # "pending"
    BY <1>1, <2>1, <2>2, <2>3
  <2> QED
    BY <2>3, <2>4, <2>5, NoWsCallFits, WsMoveKeeps
<1>12. ASSUME NEW i \in Invites, InviteLapses(i) PROVE WsInv'
  BY <1>1, <1>12 DEF InviteLapses, WsInv, WsTypeOK, WsCallInv
<1>13. CASE UNCHANGED wsVars
  BY <1>13 DEF wsVars, WsInv, WsTypeOK, WsCallInv
<1> QED
  BY <1>4, <1>5, <1>6, <1>7, <1>8, <1>9, <1>10, <1>11, <1>12, <1>13 DEF WsNext

LEMMA WsInvariant == WsSpec => []WsInv
<1>1. WsInit => WsInv
  BY WsInitHolds
<1> QED
  BY <1>1, WsStep, PTL DEF WsSpec

\* Members and invites keep their types.
THEOREM WorkspaceTypes == WsSpec => []WsTypeOK
<1>1. WsInv => WsTypeOK
  BY DEF WsInv
<1> QED
  BY <1>1, WsInvariant, PTL

\* An invite that was spent admits nobody again, whatever saves over it.
THEOREM SpentInvitesStaySpent == WsSpec => []InviteStaysSpent
<1>1. WsInv => InviteStaysSpent
  BY DEF WsInv, InviteStaysSpent
<1> QED
  BY <1>1, WsInvariant, PTL

-----------------------------------------------------------------------------
(* ReleaseGates.                                                            *)

RunKinds == {"patch", "definition", "release", "replay", "dataset", "autopilot"}
RunPhases == {"idle", "patch", "replay", "gate", "name", "definition", "compare", "dataset"}
GateDef == [edits : Nat, last : Nat]
GateRun == [at : RunPhases, for : RunKinds \cup {None}, read : GateDef \cup {None},
            parts : SUBSET Nat, todo : Int]

ReleaseTypes ==
  /\ gateDef \in GateDef \cup {None}
  /\ gateDef # None => gateDef.last <= Len(results)
  /\ results \in Seq(Result)
  /\ gateRun \in [Threads -> GateRun]
  /\ abandoned \subseteq ResultIds
  /\ reverted \in BOOLEAN /\ deleted \in BOOLEAN

\* The definition has been created.
Began == gateDef # None \/ deleted

\* A run of the definition names its result last, and that result is younger
\* than the one shown by the definition it read.
RunFits(c) ==
  /\ c.parts \subseteq ResultIds
  /\ c.at \in {"idle", "gate"} => c.parts = {}
  /\ c.at = "patch" => c.for = "patch"
  /\ c.at \in {"name", "definition"} => c.for = "definition" /\ \E i : c.parts = {i} /\ c.read.last < i
  /\ c.at # "idle" /\ c.for \in {"patch", "definition"} => Began /\ c.read \in GateDef /\ c.read.last <= Len(results)
  /\ c.at # "definition" => \A i \in c.parts : ~results[i].named

\* GateShowsNewestRun, of results that a purge deleted too.
Shown ==
  gateDef # None /\ ~reverted =>
    \A i \in ResultIds : results[i].named /\ i > gateDef.last => InProgress(i) \/ i \in abandoned

ReleaseInv ==
  /\ ReleaseTypes
  /\ \A t \in Threads : RunFits(gateRun[t])
  /\ \A t, u \in Threads : t # u => gateRun[t].parts \cap gateRun[u].parts = {}
  /\ Began \/ \A i \in ResultIds : ~results[i].named
  /\ Shown

LEMMA NoRunIsTyped == NoRun \in GateRun /\ NoRun.at = "idle" /\ NoRun.parts = {}
  BY DEF NoRun, GateRun, RunPhases, RunKinds

LEMMA NoRunFits == RunFits(NoRun) /\ RunFits(NoRun)'
  BY NoRunIsTyped DEF RunFits

LEMMA ReleaseInitHolds == ReleaseInit => ReleaseInv
<1> SUFFICES ASSUME ReleaseInit PROVE ReleaseInv
  OBVIOUS
<1>1. results = <<>> /\ gateDef = None /\ \A t \in Threads : gateRun[t] = NoRun
  BY DEF ReleaseInit
<1>2. ReleaseTypes
  <2>1. results \in Seq(Result) /\ gateRun \in [Threads -> GateRun]
    BY <1>1, NoRunIsTyped DEF ReleaseInit
  <2> QED
    BY <1>1, <2>1 DEF ReleaseInit, ReleaseTypes
<1>3. \A t \in Threads : RunFits(gateRun[t])
  BY <1>1, NoRunFits DEF RunFits
<1>4. ResultIds = {}
  BY <1>1 DEF ResultIds
<1> QED
  BY <1>1, <1>2, <1>3, <1>4, NoRunIsTyped DEF ReleaseInv, Shown

\* What the results may do in a step of thread t, whose run becomes c.
ResultsGrow(t, c) ==
  /\ results' \in Seq(Result) /\ Len(results) <= Len(results')
  /\ \A i \in ResultIds' : results'[i].named =>
       (i \in ResultIds /\ results[i].named) \/ (i \in gateRun[t].parts /\ i \in c.parts /\ c.at = "definition")
  /\ c.parts \subseteq gateRun[t].parts \cup {i \in ResultIds' : i > Len(results)}

LEMMA ResultIdsGrow ==
  ASSUME ReleaseInv, results' \in Seq(Result), Len(results) <= Len(results')
  PROVE  ResultIds \subseteq ResultIds' /\ Len(results) \in Nat /\ Len(results') \in Nat
  BY DEF ReleaseInv, ReleaseTypes, ResultIds

\* A run moves.
LEMMA ReleaseMoveKeeps ==
  ASSUME ReleaseInv, NEW t \in Threads, NEW c \in GateRun, gateRun' = [gateRun EXCEPT ![t] = c],
         ResultsGrow(t, c), RunFits(c)', Shown',
         gateDef' \in GateDef \cup {None}, gateDef' # None => gateDef'.last <= Len(results'),
         Began => Began', abandoned' \subseteq ResultIds', reverted' \in BOOLEAN, deleted' \in BOOLEAN
  PROVE  ReleaseInv'
<1>1. ResultIds \subseteq ResultIds' /\ Len(results) \in Nat /\ Len(results') \in Nat /\ Len(results) <= Len(results')
  BY ResultIdsGrow DEF ResultsGrow
<1>2. gateRun' \in [Threads -> GateRun] /\ gateRun'[t] = c /\ \A u \in Threads : u # t => gateRun'[u] = gateRun[u]
  BY DEF ReleaseInv, ReleaseTypes
<1>3. ReleaseTypes'
  BY <1>2 DEF ReleaseTypes, ResultsGrow
<1>4. ASSUME NEW u \in Threads, u # t PROVE RunFits(gateRun[u])'
  <2> PICK d \in GateRun : d = gateRun[u]
    BY DEF ReleaseInv, ReleaseTypes
  <2>1. RunFits(d)
    BY DEF ReleaseInv
  <2>2. d.parts \subseteq ResultIds' /\ gateRun'[u] = d
    BY <1>1, <1>2, <1>4, <2>1 DEF RunFits
  <2>3. d.at # "definition" => \A i \in d.parts : ~results'[i].named
    <3> SUFFICES ASSUME d.at # "definition", NEW i \in d.parts, results'[i].named PROVE FALSE
      OBVIOUS
    <3>1. ~results[i].named /\ i \in ResultIds' /\ i \notin gateRun[t].parts
      BY <1>4, <2>1, <2>2 DEF RunFits, ReleaseInv
    <3> QED
      BY <3>1 DEF ResultsGrow
  <2>4. ASSUME d.at # "idle", d.for \in {"patch", "definition"}
        PROVE  Began' /\ d.read \in GateDef /\ d.read.last <= Len(results')
    <3>1. Began /\ d.read \in GateDef /\ d.read.last <= Len(results)
      BY <2>1, <2>4 DEF RunFits
    <3> QED
      BY <1>1, <3>1 DEF GateDef
  <2> QED
    BY <2>1, <2>2, <2>3, <2>4 DEF RunFits
<1>5. RunFits(gateRun[t])'
  BY <1>2 DEF RunFits
<1>6. ASSUME NEW u \in Threads, u # t PROVE c.parts \cap gateRun[u].parts = {}
  <2>1. gateRun[u].parts \subseteq ResultIds /\ gateRun[t].parts \cap gateRun[u].parts = {}
    BY <1>6 DEF ReleaseInv, RunFits
  <2> QED
    BY <1>1, <2>1 DEF ResultsGrow, ResultIds
<1>7. \A u, v \in Threads : u # v => gateRun'[u].parts \cap gateRun'[v].parts = {}
  BY <1>2, <1>6 DEF ReleaseInv
<1>8. Began' \/ \A i \in ResultIds' : ~results'[i].named
  <2>1. CASE Began
    BY <2>1
  <2>2. CASE c.at = "definition"
    BY <2>2 DEF RunFits
  <2>3. CASE ~Began /\ c.at # "definition"
    BY <2>3 DEF ReleaseInv, ResultsGrow
  <2> QED
    BY <2>1, <2>2, <2>3
<1> QED
  BY <1>3, <1>4, <1>5, <1>7, <1>8 DEF ReleaseInv

\* The definition still shows its newest run, if no named result is forgotten.
LEMMA ShownKept ==
  ASSUME ReleaseInv, NEW t \in Threads, NEW c \in GateRun, gateRun' = [gateRun EXCEPT ![t] = c],
         ResultsGrow(t, c), abandoned \subseteq abandoned',
         \A i \in gateRun[t].parts : results[i].named => i \in c.parts \/ i \in abandoned',
         gateDef' # None /\ ~reverted' => gateDef # None /\ ~reverted /\ gateDef'.last = gateDef.last
  PROVE  Shown'
<1> SUFFICES ASSUME gateDef' # None, ~reverted', NEW i \in ResultIds', results'[i].named, i > gateDef'.last
             PROVE  (\E u \in Threads : i \in gateRun'[u].parts) \/ i \in abandoned'
  BY DEF Shown, InProgress
<1>1. gateRun'[t] = c /\ \A u \in Threads : u # t => gateRun'[u] = gateRun[u]
  BY DEF ReleaseInv, ReleaseTypes
<1>2. CASE i \in c.parts
  BY <1>1, <1>2
<1>3. CASE i \notin c.parts
  <2>1. i \in ResultIds /\ results[i].named
    BY <1>3 DEF ResultsGrow
  <2>2. (\E u \in Threads : i \in gateRun[u].parts) \/ i \in abandoned
    BY <2>1 DEF ReleaseInv, Shown, InProgress
  <2> QED
    BY <1>1, <1>3, <2>1, <2>2
<1> QED
  BY <1>2, <1>3

\* A run moves, and the definition stays.
LEMMA RunMoveKeeps ==
  ASSUME ReleaseInv, NEW t \in Threads, NEW c \in GateRun, gateRun' = [gateRun EXCEPT ![t] = c],
         ResultsGrow(t, c), RunFits(c)', UNCHANGED <<gateDef, reverted, deleted>>,
         abandoned \subseteq abandoned', abandoned' \subseteq ResultIds',
         \A i \in gateRun[t].parts : results[i].named => i \in c.parts \/ i \in abandoned'
  PROVE  ReleaseInv'
<1>1. Shown'
  BY ShownKept
<1>2. Len(results) \in Nat /\ Len(results') \in Nat /\ Len(results) <= Len(results')
  BY ResultIdsGrow DEF ResultsGrow
<1>3. gateDef' # None => gateDef'.last <= Len(results')
  BY <1>2 DEF ReleaseInv, ReleaseTypes, GateDef
<1>4. Began => Began'
  BY DEF Began
<1> QED
  BY <1>1, <1>3, <1>4, ReleaseMoveKeeps DEF ReleaseInv, ReleaseTypes

LEMMA SavedResult ==
  ASSUME ReleaseInv, NEW kind \in {"release", "replay", "dataset", "autopilot"}, SaveResult(kind)
  PROVE  /\ results' \in Seq(Result) /\ Len(results) \in Nat /\ Len(results') = Len(results) + 1
         /\ ResultIds' = ResultIds \cup {Len(results) + 1}
         /\ \A i \in ResultIds : results'[i] = results[i]
         /\ ~results'[Len(results) + 1].named
<1>1. results \in Seq(Result) /\ Len(results) \in Nat
  BY DEF ReleaseInv, ReleaseTypes
<1> PICK r : r = [kind |-> kind, named |-> FALSE, stored |-> TRUE]
  OBVIOUS
<1>2. r \in Result /\ ~r.named
  BY DEF Result
<1>3. results' = Append(results, r)
  BY DEF SaveResult
<1>4. /\ results' \in Seq(Result) /\ Len(results') = Len(results) + 1
      /\ \A i \in 1..Len(results) : results'[i] = results[i]
      /\ results'[Len(results) + 1] = r
  BY <1>1, <1>2, <1>3
<1> QED
  BY <1>1, <1>2, <1>4 DEF ResultIds

\* A result is saved, and becomes a part of the run or not.
LEMMA SaveKeeps ==
  ASSUME ReleaseInv, NEW t \in Threads, NEW c \in GateRun, gateRun' = [gateRun EXCEPT ![t] = c],
         NEW kind \in {"release", "replay", "dataset", "autopilot"}, SaveResult(kind), DefinitionUnchanged,
         gateRun[t].at # "definition", c.parts \subseteq gateRun[t].parts \cup {Len(results) + 1}, RunFits(c)'
  PROVE  ReleaseInv'
<1>1. /\ results' \in Seq(Result) /\ Len(results) \in Nat /\ Len(results') = Len(results) + 1
      /\ ResultIds' = ResultIds \cup {Len(results) + 1}
      /\ \A i \in ResultIds : results'[i] = results[i]
      /\ ~results'[Len(results) + 1].named
  BY SavedResult
<1>2. ResultsGrow(t, c)
  BY <1>1 DEF ResultsGrow
<1>3. abandoned' = abandoned /\ abandoned' \subseteq ResultIds'
  BY <1>1 DEF ReleaseInv, ReleaseTypes, DefinitionUnchanged
<1>4. \A i \in gateRun[t].parts : ~results[i].named
  BY DEF ReleaseInv, RunFits
<1> QED
  BY <1>2, <1>3, <1>4, RunMoveKeeps DEF DefinitionUnchanged

LEMMA SaveAndEnd ==
  ASSUME ReleaseInv, NEW t \in Threads, RunDone(t), gateRun[t].at # "definition", DefinitionUnchanged,
         NEW kind \in {"release", "replay", "dataset", "autopilot"}, SaveResult(kind)
  PROVE  ReleaseInv'
<1>1. gateRun' = [gateRun EXCEPT ![t] = NoRun]
  BY DEF RunDone
<1> QED
  BY <1>1, NoRunIsTyped, NoRunFits, SaveKeeps

\* The results stay as they are.
LEMMA ResultsStay ==
  ASSUME ReleaseInv, results' = results, NEW t \in Threads, NEW c, c.parts \subseteq gateRun[t].parts
  PROVE  ResultsGrow(t, c) /\ ResultIds' = ResultIds
  BY DEF ReleaseInv, ReleaseTypes, ResultsGrow, ResultIds

LEMMA OpenRunKeeps ==
  ASSUME ReleaseInv, NEW t \in Threads, NEW for \in RunKinds, OpenRun(t, for)
  PROVE  ReleaseInv'
<1> PICK at : at = IF for = "patch" THEN "patch" ELSE IF for \in {"replay", "dataset"} THEN "replay" ELSE "gate"
  OBVIOUS
<1> PICK read : read = IF for \in {"patch", "definition"} THEN gateDef ELSE None
  OBVIOUS
<1> PICK todo : todo = IF for = "dataset" THEN DatasetSize ELSE 1
  OBVIOUS
<1> PICK c : c = [at |-> at, for |-> for, read |-> read, parts |-> {}, todo |-> todo]
  OBVIOUS
<1>1. /\ at \in {"patch", "replay", "gate"} /\ (at = "patch" => for = "patch")
      /\ read \in GateDef \cup {None} /\ todo \in Int
  BY DEF ReleaseInv, ReleaseTypes
<1>2. c \in GateRun
  BY <1>1 DEF GateRun, RunPhases
<1>3. /\ gateRun[t].at = "idle" /\ gateRun' = [gateRun EXCEPT ![t] = c]
      /\ DefinitionUnchanged /\ results' = results
      /\ for \in {"patch", "definition"} => gateDef # None
  BY DEF OpenRun
<1>4. for \in {"patch", "definition"} => Began' /\ read \in GateDef /\ read.last <= Len(results')
  BY <1>3 DEF DefinitionUnchanged, Began, ReleaseInv, ReleaseTypes
<1>5. RunFits(c)'
  BY <1>1, <1>4 DEF RunFits
<1>6. gateRun[t].parts = {}
  BY <1>3 DEF ReleaseInv, RunFits
<1>7. c.parts = {}
  OBVIOUS
<1>8. ResultsGrow(t, c) /\ ResultIds' = ResultIds
  BY <1>3, <1>7, ResultsStay
<1>9. UNCHANGED <<gateDef, reverted, deleted>> /\ abandoned \subseteq abandoned' /\ abandoned' \subseteq ResultIds'
  BY <1>3, <1>8 DEF DefinitionUnchanged, ReleaseInv, ReleaseTypes
<1> QED
  BY <1>2, <1>3, <1>5, <1>6, <1>8, <1>9, RunMoveKeeps

LEMMA PatchGateKeeps ==
  ASSUME ReleaseInv, NEW t \in Threads, PatchGate(t)
  PROVE  ReleaseInv'
<1> PICK read : read = gateRun[t].read
  OBVIOUS
<1>1. /\ gateRun[t].at = "patch" /\ read \in GateDef /\ read.last <= Len(results)
      /\ \A i \in gateRun[t].parts : ~results[i].named
  BY DEF PatchGate, ReleaseInv, RunFits
<1>2. /\ gateDef' = [read EXCEPT !.edits = 1] /\ reverted' = (reverted \/ gateDef # read)
      /\ gateRun' = [gateRun EXCEPT ![t] = NoRun]
      /\ UNCHANGED <<results, abandoned, deleted>>
  BY DEF PatchGate, SaveDefinition, RunDone, Stale
<1>3. gateDef' \in GateDef /\ gateDef'.last = read.last /\ gateDef' # None
  BY <1>1, <1>2 DEF GateDef
<1>4. ResultsGrow(t, NoRun) /\ ResultIds' = ResultIds
  BY <1>2, NoRunIsTyped, ResultsStay
<1>5. Shown'
  <2>1. gateDef' # None /\ ~reverted' => gateDef # None /\ ~reverted /\ gateDef'.last = gateDef.last
    BY <1>1, <1>2, <1>3 DEF GateDef
  <2> QED
    BY <1>1, <1>2, <1>4, <2>1, NoRunIsTyped, ShownKept
<1>6. reverted' \in BOOLEAN /\ deleted' \in BOOLEAN /\ abandoned' \subseteq ResultIds' /\ Began'
  BY <1>2, <1>3, <1>4 DEF Began, ReleaseInv, ReleaseTypes
<1>7. gateDef'.last <= Len(results')
  BY <1>1, <1>2, <1>3
<1> QED
  BY <1>2, <1>3, <1>4, <1>5, <1>6, <1>7, NoRunIsTyped, NoRunFits, ReleaseMoveKeeps

LEMMA RunGateKeeps ==
  ASSUME ReleaseInv, NEW t \in Threads, RunGate(t)
  PROVE  ReleaseInv'
<1> PICK n : n = Len(results) + 1
  OBVIOUS
<1> PICK c \in GateRun : c = gateRun[t]
  BY DEF ReleaseInv, ReleaseTypes
<1>1. c.at = "gate" /\ SaveResult("release") /\ DefinitionUnchanged /\ RunFits(c)
  BY DEF RunGate, ReleaseInv
<1>2. CASE c.for = "release"
  BY <1>1, <1>2, SaveAndEnd DEF RunGate
<1>3. CASE c.for # "release"
  <2> DEFINE d == [c EXCEPT !.parts = {n}, !.at = IF c.for = "definition" THEN "name" ELSE "compare"]
  <2>1. gateRun' = [gateRun EXCEPT ![t] = d]
    BY <1>3 DEF RunGate, ReleaseInv, ReleaseTypes
  <2>2. n \in Nat /\ n \in ResultIds' /\ ~results'[n].named /\ Len(results') = n /\ Len(results) \in Nat
    BY <1>1, SavedResult
  <2>3. d \in GateRun
    BY <2>2 DEF GateRun, RunPhases
  <2>4. /\ d.parts = {n} /\ d.for = c.for /\ d.read = c.read
        /\ d.at \in {"name", "compare"} /\ (d.at = "name" => c.for = "definition")
    BY DEF GateRun
  <2> HIDE DEF d
  <2>5. c.for \in {"patch", "definition"} => Began' /\ c.read \in GateDef /\ c.read.last < n
    BY <1>1, <2>2 DEF RunFits, Began, DefinitionUnchanged, GateDef
  <2>6. c.for \in {"patch", "definition"} => c.read.last <= Len(results')
    BY <2>2, <2>5 DEF GateDef
  <2>7. RunFits(d)'
    BY <2>2, <2>4, <2>5, <2>6 DEF RunFits
  <2> QED
    BY <1>1, <2>1, <2>3, <2>4, <2>7, SaveKeeps
<1> QED
  BY <1>2, <1>3

LEMMA ReplayTraceKeeps ==
  ASSUME ReleaseInv, NEW t \in Threads, ReplayTrace(t)
  PROVE  ReleaseInv'
<1> PICK n : n = Len(results) + 1
  OBVIOUS
<1> PICK c \in GateRun : c = gateRun[t]
  BY DEF ReleaseInv, ReleaseTypes
<1>1. c.at = "replay" /\ SaveResult("replay") /\ DefinitionUnchanged /\ RunFits(c)
  BY DEF ReplayTrace, ReleaseInv
<1>2. CASE c.for = "replay"
  BY <1>1, <1>2, SaveAndEnd DEF ReplayTrace
<1>3. CASE c.for # "replay"
  <2> PICK at : at = IF c.todo = 1 THEN "dataset" ELSE "replay"
    OBVIOUS
  <2> PICK d : d = [c EXCEPT !.parts = c.parts \cup {n}, !.todo = c.todo - 1, !.at = at]
    OBVIOUS
  <2>0. /\ n \in Nat /\ n \in ResultIds' /\ ResultIds' = ResultIds \cup {n} /\ ~results'[n].named
        /\ Len(results') = n /\ Len(results) \in Nat /\ \A i \in ResultIds : results'[i] = results[i]
    BY <1>1, SavedResult
  <2>1. gateRun' = [gateRun EXCEPT ![t] = d]
    <3>1. gateRun \in [Threads -> GateRun] /\ c \in [at : RunPhases, for : RunKinds \cup {None}, read : GateDef \cup {None},
                                                     parts : SUBSET Nat, todo : Int]
      BY DEF ReleaseInv, ReleaseTypes, GateRun
    <3>2. gateRun' = [gateRun EXCEPT ![t].parts = @ \cup {n}, ![t].todo = @ - 1, ![t].at = at]
      BY <1>3 DEF ReplayTrace
    <3>3. gateRun' = [gateRun EXCEPT ![t] = [[[c EXCEPT !.parts = @ \cup {n}] EXCEPT !.todo = @ - 1] EXCEPT !.at = at]]
      BY <3>1, <3>2
    <3>4. d = [[[c EXCEPT !.parts = @ \cup {n}] EXCEPT !.todo = @ - 1] EXCEPT !.at = at]
      BY <3>1
    <3> QED
      BY <3>3, <3>4
  <2>2. d \in GateRun
    <3>1. c.parts \cup {n} \in SUBSET Nat /\ c.todo - 1 \in Int /\ at \in RunPhases
      BY <2>0 DEF GateRun, RunPhases
    <3>2. \A parts \in SUBSET Nat, todo \in Int :
            [c EXCEPT !.parts = parts, !.todo = todo, !.at = at] \in GateRun
      BY <3>1 DEF GateRun
    <3> QED
      BY <3>1, <3>2
  <2>3. d.parts = c.parts \cup {n} /\ d.for = c.for /\ d.read = c.read /\ d.at \in {"dataset", "replay"}
    BY DEF GateRun
  <2>4. d.parts \subseteq ResultIds' /\ \A i \in d.parts : ~results'[i].named
    <3>1. c.parts \subseteq ResultIds /\ \A i \in c.parts : ~results[i].named
      BY <1>1 DEF RunFits
    <3> QED
      BY <2>0, <2>3, <3>1
  <2>5. c.for \in {"patch", "definition"} => Began' /\ c.read \in GateDef /\ c.read.last <= Len(results')
    BY <1>1, <2>0 DEF RunFits, Began, DefinitionUnchanged, GateDef
  <2>6. RunFits(d)'
    BY <2>3, <2>4, <2>5 DEF RunFits
  <2> QED
    BY <1>1, <2>1, <2>2, <2>3, <2>6, SaveKeeps
<1> QED
  BY <1>2, <1>3

\* The result of the run of a definition gets its name.
LEMMA NameResultKeeps ==
  ASSUME ReleaseInv, NEW t \in Threads, NameResult(t)
  PROVE  ReleaseInv'
<1> PICK c \in GateRun : c = gateRun[t]
  BY DEF ReleaseInv, ReleaseTypes
<1> PICK i : i = CHOOSE x \in c.parts : TRUE
  OBVIOUS
<1> DEFINE d == [c EXCEPT !.at = "definition"]
<1>1. RunFits(c) /\ c.at = "name" /\ c.for = "definition" /\ c.parts = {i} /\ i \in ResultIds
  BY DEF NameResult, ReleaseInv, RunFits
<1>2. /\ results' = [results EXCEPT ![i].named = TRUE] /\ gateRun' = [gateRun EXCEPT ![t] = d]
      /\ DefinitionUnchanged
  BY DEF NameResult, ReleaseInv, ReleaseTypes
<1>3. d \in GateRun /\ d.parts = {i} /\ d.for = c.for /\ d.read = c.read /\ d.at = "definition"
  BY <1>1 DEF GateRun, RunPhases
<1> HIDE DEF d
<1>4. results \in Seq(Result) /\ i \in 1..Len(results) /\ results[i] \in Result
  BY <1>1 DEF ReleaseInv, ReleaseTypes, ResultIds
<1> PICK r : r = [results[i] EXCEPT !.named = TRUE]
  OBVIOUS
<1>5. r \in Result
  BY <1>4 DEF Result
<1>6. results' = [results EXCEPT ![i] = r]
  BY <1>2
<1>7. /\ results' \in Seq(Result) /\ Len(results') = Len(results)
      /\ \A j \in 1..Len(results) : results'[j] = IF j = i THEN r ELSE results[j]
  BY <1>4, <1>5, <1>6
<1>8. ResultIds' = ResultIds /\ Len(results) \in Nat
  BY <1>4, <1>7 DEF ResultIds
<1>9. \A j \in ResultIds : j # i => results'[j] = results[j]
  BY <1>7 DEF ResultIds
<1>10. ResultsGrow(t, d)
  BY <1>1, <1>3, <1>7, <1>8, <1>9 DEF ResultsGrow
<1>11. RunFits(d)'
  <2>1. Began' /\ c.read \in GateDef /\ c.read.last <= Len(results') /\ c.read.last < i
    BY <1>1, <1>2, <1>7 DEF RunFits, DefinitionUnchanged, Began
  <2> QED
    BY <1>1, <1>3, <1>8, <2>1 DEF RunFits
<1> QED
  BY <1>1, <1>2, <1>3, <1>8, <1>10, <1>11, RunMoveKeeps DEF DefinitionUnchanged, ReleaseInv, ReleaseTypes

LEMMA NewerDiffers ==
  ASSUME NEW x \in Nat, NEW y, y > x
  PROVE  y # x
  OBVIOUS

\* The definition is saved with this run, which is younger than the one shown.
LEMMA SaveLastRunKeeps ==
  ASSUME ReleaseInv, NEW t \in Threads, SaveLastRun(t)
  PROVE  ReleaseInv'
<1> PICK c \in GateRun : c = gateRun[t]
  BY DEF ReleaseInv, ReleaseTypes
<1> PICK i : i = CHOOSE x \in c.parts : TRUE
  OBVIOUS
<1>1. /\ c.at = "definition" /\ c.parts = {i} /\ i \in ResultIds
      /\ c.read \in GateDef /\ c.read.last < i
  BY DEF SaveLastRun, ReleaseInv, RunFits
<1>2. /\ gateDef' = [c.read EXCEPT !.last = i] /\ reverted' = (reverted \/ gateDef # c.read)
      /\ gateRun' = [gateRun EXCEPT ![t] = NoRun]
      /\ UNCHANGED <<results, abandoned, deleted>>
  BY DEF SaveLastRun, SaveDefinition, RunDone, Stale
<1>3. i \in Nat /\ i <= Len(results)
  BY <1>1 DEF ReleaseInv, ReleaseTypes, ResultIds
<1>4. gateDef' \in GateDef /\ gateDef'.last = i /\ gateDef' # None
  BY <1>1, <1>2, <1>3 DEF GateDef
<1>5. ResultsGrow(t, NoRun) /\ ResultIds' = ResultIds
  BY <1>2, NoRunIsTyped, ResultsStay
<1>6. Shown'
  <2> SUFFICES ASSUME ~reverted', NEW j \in ResultIds, results[j].named, j > i
               PROVE  (\E u \in Threads : j \in gateRun'[u].parts) \/ j \in abandoned
    BY <1>2, <1>4, <1>5 DEF Shown, InProgress
  <2>1. gateDef = c.read /\ ~reverted /\ gateDef # None
    BY <1>1, <1>2 DEF GateDef
  <2>2. j > gateDef.last
    BY <1>1, <1>3, <2>1 DEF GateDef, ResultIds
  <2>3. (\E u \in Threads : j \in gateRun[u].parts) \/ j \in abandoned
    BY <2>1, <2>2 DEF ReleaseInv, Shown, InProgress
  <2>4. j \notin gateRun[t].parts
    <3>1. j # i
      BY <1>3, NewerDiffers
    <3> QED
      BY <1>1, <3>1
  <2>5. \A u \in Threads : u # t => gateRun'[u] = gateRun[u]
    BY <1>2 DEF ReleaseInv, ReleaseTypes
  <2> QED
    BY <2>3, <2>4, <2>5
<1>7. reverted' \in BOOLEAN /\ deleted' \in BOOLEAN /\ abandoned' \subseteq ResultIds' /\ Began'
  BY <1>2, <1>4, <1>5 DEF Began, ReleaseInv, ReleaseTypes
<1>8. gateDef'.last <= Len(results')
  BY <1>2, <1>3, <1>4
<1> QED
  BY <1>2, <1>4, <1>5, <1>6, <1>7, <1>8, NoRunIsTyped, NoRunFits, ReleaseMoveKeeps

LEMMA DropRunKeeps ==
  ASSUME ReleaseInv, NEW t \in Threads, DropRun(t)
  PROVE  ReleaseInv'
<1>1. gateRun' = [gateRun EXCEPT ![t] = NoRun] /\ UNCHANGED <<gateDef, results, reverted, deleted>>
  BY DEF DropRun, RunDone
<1>2. abandoned' = IF gateRun[t].for = "definition" THEN abandoned \cup gateRun[t].parts ELSE abandoned
  BY DEF DropRun
<1>3. RunFits(gateRun[t])
  BY DEF ReleaseInv
<1>4. ResultsGrow(t, NoRun) /\ ResultIds' = ResultIds
  BY <1>1, NoRunIsTyped, ResultsStay
<1>5. abandoned \subseteq abandoned' /\ abandoned' \subseteq ResultIds'
  BY <1>2, <1>3, <1>4 DEF RunFits, ReleaseInv, ReleaseTypes
<1>6. \A i \in gateRun[t].parts : results[i].named => i \in abandoned'
  BY <1>2, <1>3 DEF RunFits
<1> QED
  BY <1>1, <1>4, <1>5, <1>6, NoRunIsTyped, NoRunFits, RunMoveKeeps

\* No run moves, and results keep their names.
LEMMA ReleaseQuietKeeps ==
  ASSUME ReleaseInv, UNCHANGED <<gateRun, abandoned, reverted>>, results' \in Seq(Result), Len(results') = Len(results),
         \A i \in ResultIds : results'[i].named = results[i].named,
         gateDef' \in GateDef \cup {None}, gateDef' # None => gateDef'.last <= Len(results),
         Began => Began', deleted' \in BOOLEAN, Shown'
  PROVE  ReleaseInv'
<1>1. ResultIds' = ResultIds
  BY DEF ResultIds
<1>2. ReleaseTypes'
  BY <1>1 DEF ReleaseInv, ReleaseTypes
<1>3. ASSUME NEW t \in Threads PROVE RunFits(gateRun[t])'
  <2>1. RunFits(gateRun[t])
    BY DEF ReleaseInv
  <2> QED
    BY <1>1, <2>1 DEF RunFits
<1>4. Began' \/ \A i \in ResultIds' : ~results'[i].named
  BY <1>1 DEF ReleaseInv
<1> QED
  BY <1>2, <1>3, <1>4 DEF ReleaseInv

LEMMA EditGateKeeps ==
  ASSUME ReleaseInv, CreateGate \/ DeleteGate
  PROVE  ReleaseInv'
<1>1. gateDef' = None \/ (gateDef' \in GateDef /\ gateDef'.last = 0 /\ ~Began)
  BY DEF CreateGate, DeleteGate, GateDef, Began
<1>2. UNCHANGED <<results, gateRun, abandoned, reverted>> /\ deleted' \in BOOLEAN /\ (Began => Began')
  BY DEF CreateGate, DeleteGate, Began, ReleaseInv, ReleaseTypes
<1>3. Shown'
  BY <1>1, <1>2 DEF ReleaseInv, Shown, ResultIds
<1>4. results' \in Seq(Result) /\ Len(results) \in Nat
  BY <1>2 DEF ReleaseInv, ReleaseTypes
<1>5. gateDef' # None => gateDef'.last <= Len(results)
  BY <1>1, <1>4
<1> QED
  BY <1>1, <1>2, <1>3, <1>4, <1>5, ReleaseQuietKeeps

LEMMA PurgeResultKeeps ==
  ASSUME ReleaseInv, NEW i \in ResultIds, PurgeResult(i)
  PROVE  ReleaseInv'
<1> PICK r : r = [results[i] EXCEPT !.stored = FALSE]
  OBVIOUS
<1>1. results \in Seq(Result) /\ i \in 1..Len(results) /\ results[i] \in Result
  BY DEF ReleaseInv, ReleaseTypes, ResultIds
<1>2. r \in Result /\ r.named = results[i].named
  BY <1>1 DEF Result
<1>3. results' = [results EXCEPT ![i] = r] /\ UNCHANGED <<gateDef, gateRun, abandoned, reverted, deleted>>
  BY DEF PurgeResult, DefinitionUnchanged
<1>4. /\ results' \in Seq(Result) /\ Len(results') = Len(results)
      /\ \A j \in 1..Len(results) : results'[j] = IF j = i THEN r ELSE results[j]
  BY <1>1, <1>2, <1>3
<1>5. ResultIds' = ResultIds /\ \A j \in ResultIds : results'[j].named = results[j].named
  BY <1>2, <1>4 DEF ResultIds
<1>6. Shown'
  BY <1>3, <1>5 DEF ReleaseInv, Shown, InProgress
<1> QED
  BY <1>3, <1>4, <1>5, <1>6, ReleaseQuietKeeps DEF ReleaseInv, ReleaseTypes, Began

LEMMA ReleaseStepKeeps ==
  ASSUME ReleaseInv, [ReleaseNext]_releaseVars
  PROVE  ReleaseInv'
<1>1. CASE UNCHANGED releaseVars
  <2>1. UNCHANGED <<gateDef, results, gateRun, abandoned, reverted, deleted>>
    BY <1>1 DEF releaseVars
  <2>2. Shown'
    BY <2>1 DEF ReleaseInv, Shown, InProgress, ResultIds
  <2> QED
    BY <2>1, <2>2, ReleaseQuietKeeps DEF ReleaseInv, ReleaseTypes, Began
<1>2. ASSUME NEW t \in Threads, NEW for \in RunKinds, OpenRun(t, for) PROVE ReleaseInv'
  BY <1>2, OpenRunKeeps
<1>3. ASSUME NEW t \in Threads, RunGate(t) \/ ReplayTrace(t) PROVE ReleaseInv'
  BY <1>3, RunGateKeeps, ReplayTraceKeeps
<1>4. ASSUME NEW t \in Threads, RunDataset(t) PROVE ReleaseInv'
  BY <1>4, SaveAndEnd DEF RunDataset
<1>5. ASSUME NEW t \in Threads, RunAutopilot(t) PROVE ReleaseInv'
  BY <1>5, SaveAndEnd DEF RunAutopilot
<1>6. ASSUME NEW t \in Threads, PatchGate(t) \/ NameResult(t) \/ SaveLastRun(t) \/ DropRun(t) PROVE ReleaseInv'
  BY <1>6, PatchGateKeeps, NameResultKeeps, SaveLastRunKeeps, DropRunKeeps
<1>7. ASSUME NEW i \in ResultIds, PurgeResult(i) PROVE ReleaseInv'
  BY <1>7, PurgeResultKeeps
<1>8. CASE CreateGate \/ DeleteGate
  BY <1>8, EditGateKeeps
<1> QED
  BY <1>1, <1>2, <1>3, <1>4, <1>5, <1>6, <1>7, <1>8 DEF ReleaseNext, RunKinds

\* Every result with the definition's name is shown, older than the one shown,
\* or in the hands of a run; and runs do not share results.
THEOREM ReleaseInvariant == ReleaseSpec => []ReleaseInv
  BY ReleaseInitHolds, ReleaseStepKeeps, PTL DEF ReleaseSpec

\* Definitions, results and every run keep their types.
THEOREM ReleaseTypesHold == ReleaseSpec => []ReleaseTypeOK
<1>1. ReleaseInv => ReleaseTypeOK
  <2> SUFFICES ASSUME ReleaseInv PROVE ReleaseTypeOK
    OBVIOUS
  <2>1. Len(results) \in Nat
    BY DEF ReleaseInv, ReleaseTypes
  <2>2. gateDef = None \/ gateDef.last \in 0..Len(results)
    BY <2>1 DEF ReleaseInv, ReleaseTypes, GateDef
  <2> QED
    BY <2>2 DEF ReleaseInv, ReleaseTypes, RunFits, ReleaseTypeOK
<1> QED
  BY <1>1, ReleaseInvariant, PTL

(* A definition shows the newest of its runs that saved it, whatever runs,  *)
(* patches, purges and stops come between, unless a save went over another  *)
(* (run_release_gate_definition, patch_release_gate, app/main.py).          *)
THEOREM NewestRunShown == ReleaseSpec => []GateShowsNewestRun
<1>1. ReleaseInv => GateShowsNewestRun
  BY DEF ReleaseInv, Shown, GateShowsNewestRun
<1> QED
  BY <1>1, ReleaseInvariant, PTL

-----------------------------------------------------------------------------
(* Pilot.                                                                   *)

PilotCall == [at : {"idle", "limit", "insert"}, client : Clients \cup {None}, key : PilotKeys \cup {None},
              form : Forms \cup {None}, filtered : BOOLEAN]

\* A request that is not done has a form.
PilotTypes ==
  /\ application \in [PilotKeys -> Forms \cup {None}]
  /\ admitted \in Seq(Admission)
  /\ receipts \in [PilotKeys -> SUBSET Forms]
  /\ pilotCall \in [Threads -> PilotCall]
  /\ \A t \in Threads : pilotCall[t].at # "idle" =>
       pilotCall[t].client \in Clients /\ pilotCall[t].key \in PilotKeys /\ pilotCall[t].form \in Forms

\* A receipt names the stored form, and a bucket has no more times than the limit.
PilotInv ==
  /\ PilotTypes
  /\ \A k \in PilotKeys : \A f \in receipts[k] : application[k] = f
  /\ \A c \in Clients : Cardinality(Bucket(c)) <= RateMax

LEMMA NoPilotCallTyped == NoPilotCall \in PilotCall /\ NoPilotCall.at = "idle"
  BY DEF NoPilotCall, PilotCall

LEMMA BucketIsFinite ==
  ASSUME admitted \in Seq(Admission), NEW c
  PROVE  IsFiniteSet(Bucket(c)) /\ Bucket(c) \subseteq 1..Len(admitted) /\ Cardinality(Bucket(c)) \in Nat
<1>1. Len(admitted) \in Nat /\ DOMAIN admitted = 1..Len(admitted)
  OBVIOUS
<1>2. IsFiniteSet(1..Len(admitted))
  BY <1>1, FS_Interval
<1>3. Bucket(c) \subseteq 1..Len(admitted)
  BY <1>1 DEF Bucket
<1> QED
  BY <1>2, <1>3, FS_Subset, FS_CardinalityType

LEMMA PilotInitHolds == PilotInit => PilotInv
<1> SUFFICES ASSUME PilotInit PROVE PilotInv
  OBVIOUS
<1>1. PilotTypes
  BY NoPilotCallTyped DEF PilotInit, PilotTypes
<1>2. ASSUME NEW c \in Clients PROVE Cardinality(Bucket(c)) <= RateMax
  <2>1. Bucket(c) = {}
    BY DEF PilotInit, Bucket
  <2>2. Cardinality(Bucket(c)) = 0
    BY <2>1, FS_EmptySet
  <2> QED
    BY <2>2
<1> QED
  BY <1>1, <1>2 DEF PilotInit, PilotInv

-----------------------------------------------------------------------------
\* Buckets that are dropped leave the others as they were.
LEMMA WithoutFacts ==
  ASSUME admitted \in Seq(Admission), NEW owners
  PROVE  /\ Without(owners) \in Seq(Admission) /\ Len(Without(owners)) = Len(admitted)
         /\ \A i \in 1..Len(admitted) :
              /\ Without(owners)[i].client = admitted[i].client
              /\ Without(owners)[i].kept = (admitted[i].kept /\ admitted[i].client \notin owners)
<1> PICK s : s = Without(owners)
  OBVIOUS
<1>1. Len(admitted) \in Nat /\ DOMAIN admitted = 1..Len(admitted) /\ \A i \in 1..Len(admitted) : admitted[i] \in Admission
  OBVIOUS
<1>2. s = [i \in 1..Len(admitted) |-> [admitted[i] EXCEPT !.kept = admitted[i].kept /\ admitted[i].client \notin owners]]
  BY <1>1 DEF Without
<1>3. \A i \in 1..Len(admitted) :
        /\ s[i] \in Admission
        /\ s[i].client = admitted[i].client
        /\ s[i].kept = (admitted[i].kept /\ admitted[i].client \notin owners)
  <2> SUFFICES ASSUME NEW i \in 1..Len(admitted)
               PROVE  /\ s[i] \in Admission
                      /\ s[i].client = admitted[i].client
                      /\ s[i].kept = (admitted[i].kept /\ admitted[i].client \notin owners)
    OBVIOUS
  <2> PICK a \in Admission : a = admitted[i]
    BY <1>1
  <2> PICK b \in BOOLEAN : b = (a.kept /\ a.client \notin owners)
    OBVIOUS
  <2>1. s[i] = [a EXCEPT !.kept = b]
    BY <1>2
  <2>2. s[i] \in Admission /\ s[i].client = a.client /\ s[i].kept = b
    BY <2>1 DEF Admission
  <2> QED
    BY <2>2
<1>4. s \in [1..Len(admitted) -> Admission]
  BY <1>2, <1>3
<1>5. s \in Seq(Admission) /\ Len(s) = Len(admitted)
  BY <1>1, <1>4
<1> QED
  BY <1>3, <1>5

\* Whatever keeps or drops the times of a bucket keeps it within the limit.
LEMMA SmallerBuckets ==
  ASSUME PilotInv, admitted' \in Seq(Admission), \A c \in Clients : Bucket(c)' \subseteq Bucket(c)
  PROVE  \A c \in Clients : Cardinality(Bucket(c)') <= RateMax
<1> SUFFICES ASSUME NEW c \in Clients PROVE Cardinality(Bucket(c)') <= RateMax
  OBVIOUS
<1>1. IsFiniteSet(Bucket(c)) /\ Cardinality(Bucket(c)) \in Nat /\ Cardinality(Bucket(c)) <= RateMax
  BY BucketIsFinite DEF PilotInv, PilotTypes
<1>2. Cardinality(Bucket(c)') <= Cardinality(Bucket(c)) /\ IsFiniteSet(Bucket(c)')
  BY <1>1, FS_Subset
<1>3. Cardinality(Bucket(c)') \in Nat
  BY <1>2, FS_CardinalityType
<1> QED
  BY <1>1, <1>2, <1>3

LEMMA WithoutBuckets ==
  ASSUME PilotInv, NEW owners, admitted' = Without(owners), NEW c
  PROVE  admitted' \in Seq(Admission) /\ Bucket(c)' \subseteq Bucket(c)
<1>1. admitted' \in Seq(Admission) /\ Len(admitted') = Len(admitted)
  BY WithoutFacts DEF PilotInv, PilotTypes
<1>2. \A i \in 1..Len(admitted) : admitted'[i].client = admitted[i].client /\ (admitted'[i].kept => admitted[i].kept)
  BY WithoutFacts DEF PilotInv, PilotTypes
<1>3. DOMAIN admitted' = 1..Len(admitted) /\ DOMAIN admitted = 1..Len(admitted)
  BY <1>1 DEF PilotInv, PilotTypes
<1> QED
  BY <1>1, <1>2, <1>3 DEF Bucket

\* The requests and the receipts are as they were.
LEMMA SameBuckets ==
  ASSUME PilotInv, UNCHANGED admitted
  PROVE  \A c \in Clients : Cardinality(Bucket(c)') <= RateMax
BY DEF PilotInv, Bucket

LEMMA CallSet ==
  ASSUME PilotTypes, NEW t \in Threads, NEW p \in PilotCall,
         p.at # "idle" => p.client \in Clients /\ p.key \in PilotKeys /\ p.form \in Forms,
         pilotCall' = [pilotCall EXCEPT ![t] = p]
  PROVE  /\ pilotCall' \in [Threads -> PilotCall]
         /\ \A u \in Threads : pilotCall'[u].at # "idle" =>
              pilotCall'[u].client \in Clients /\ pilotCall'[u].key \in PilotKeys /\ pilotCall'[u].form \in Forms
<1>1. pilotCall' \in [Threads -> PilotCall]
  BY DEF PilotTypes
<1>2. \A u \in Threads : pilotCall'[u] = IF u = t THEN p ELSE pilotCall[u]
  BY DEF PilotTypes
<1> QED
  BY <1>1, <1>2 DEF PilotTypes

LEMMA CallDone ==
  ASSUME PilotTypes, NEW t \in Threads, PilotDone(t)
  PROVE  /\ pilotCall' \in [Threads -> PilotCall]
         /\ \A u \in Threads : pilotCall'[u].at # "idle" =>
              pilotCall'[u].client \in Clients /\ pilotCall'[u].key \in PilotKeys /\ pilotCall'[u].form \in Forms
<1> PICK p : p = NoPilotCall
  OBVIOUS
<1> QED
  BY CallSet, NoPilotCallTyped DEF PilotDone

LEMMA ApplyHolds ==
  ASSUME PilotInv, NEW t \in Threads, NEW c \in Clients, NEW k \in PilotKeys, NEW f \in Forms,
         NEW filtered \in BOOLEAN, Apply(t, c, k, f, filtered)
  PROVE  PilotInv'
<1>0. PilotTypes /\ UNCHANGED <<application, admitted>>
  BY DEF PilotInv, Apply
<1>1. CASE application[k] = None
  <2> PICK p : p = [at |-> "limit", client |-> c, key |-> k, form |-> f, filtered |-> filtered]
    OBVIOUS
  <2>1. pilotCall' = [pilotCall EXCEPT ![t] = p] /\ UNCHANGED receipts
    BY <1>1 DEF Apply
  <2>2. p \in PilotCall /\ p.client \in Clients /\ p.key \in PilotKeys /\ p.form \in Forms
    BY DEF PilotCall
  <2>3. PilotTypes'
    BY <1>0, <2>1, <2>2, CallSet DEF PilotTypes
  <2> QED
    BY <1>0, <2>1, <2>3, SameBuckets DEF PilotInv
<1>2. CASE application[k] # None
  <2>1. /\ receipts' = IF application[k] = f THEN [receipts EXCEPT ![k] = receipts[k] \cup {f}] ELSE receipts
        /\ UNCHANGED pilotCall
    BY <1>2 DEF Apply
  <2>2. PilotTypes'
    BY <1>0, <2>1 DEF PilotTypes
  <2>3. ASSUME NEW j \in PilotKeys, NEW g \in receipts'[j] PROVE application'[j] = g
    <3>1. g \in receipts[j] \/ (j = k /\ g = f /\ application[k] = f)
      BY <2>1, <2>3, <1>0 DEF PilotTypes
    <3> QED
      BY <3>1, <1>0 DEF PilotInv
  <2> QED
    BY <1>0, <2>2, <2>3, SameBuckets DEF PilotInv
<1> QED
  BY <1>1, <1>2

\* An application taken is one time more in one bucket that had room.
LEMMA BucketGrows ==
  ASSUME PilotInv, NEW c \in Clients, NEW owners,
         Cardinality(Bucket(c)) < RateMax,
         admitted' = Append(Without(owners), [client |-> c, kept |-> TRUE])
  PROVE  admitted' \in Seq(Admission) /\ \A d \in Clients : Cardinality(Bucket(d)') <= RateMax
<1> PICK s : s = Without(owners)
  OBVIOUS
<1>6. admitted \in Seq(Admission)
  BY DEF PilotInv, PilotTypes
<1>7. /\ s \in Seq(Admission) /\ Len(s) = Len(admitted)
      /\ \A i \in 1..Len(admitted) : s[i].client = admitted[i].client /\ (s[i].kept => admitted[i].kept)
  BY <1>6, WithoutFacts
<1> PICK a : a = [client |-> c, kept |-> TRUE]
  OBVIOUS
<1>5. a \in Admission /\ a.client = c
  BY DEF Admission
<1> PICK n \in Nat : n = Len(admitted) /\ DOMAIN admitted = 1..n
  BY DEF PilotInv, PilotTypes
<1>1. admitted' = Append(s, a) /\ admitted' \in Seq(Admission)
  BY <1>5, <1>7
<1>2. DOMAIN admitted' = 1..(n+1) /\ admitted'[n+1] = a /\ \A i \in 1..n : admitted'[i] = s[i]
  <2>1. Len(s) = n /\ n \in Nat /\ s \in Seq(Admission) /\ a \in Admission
    BY <1>5, <1>7
  <2>2. Append(s, a) \in Seq(Admission) /\ Len(Append(s, a)) = n+1
    BY <2>1
  <2>3. Append(s, a)[n+1] = a /\ \A i \in 1..n : Append(s, a)[i] = s[i]
    BY <2>1
  <2> QED
    BY <1>1, <2>2, <2>3
<1>3. ASSUME NEW d \in Clients PROVE Bucket(d)' \subseteq Bucket(d) \cup (IF d = c THEN {n+1} ELSE {})
  <2> SUFFICES ASSUME NEW i \in Bucket(d)' PROVE i \in Bucket(d) \cup (IF d = c THEN {n+1} ELSE {})
    OBVIOUS
  <2>1. i \in 1..(n+1) /\ admitted'[i].client = d /\ admitted'[i].kept
    BY <1>2 DEF Bucket
  <2>2. CASE i = n+1
    BY <2>1, <2>2, <1>2
  <2>3. CASE i \in 1..n
    <3>1. s[i].client = d /\ s[i].kept
      BY <2>1, <2>3, <1>2
    <3>2. i \in 1..Len(admitted) /\ i \in DOMAIN admitted
      BY <2>3
    <3>3. admitted[i].client = d /\ admitted[i].kept
      BY <3>1, <3>2, <1>7
    <3>4. i \in Bucket(d)
      BY <3>2, <3>3, Zenon DEF Bucket
    <3> QED
      BY <3>4
  <2>4. i = n+1 \/ i \in 1..n
    BY <2>1
  <2> QED
    BY <2>2, <2>3, <2>4
<1>4. ASSUME NEW d \in Clients PROVE Cardinality(Bucket(d)') <= RateMax
  <2>1. /\ IsFiniteSet(Bucket(d)) /\ Cardinality(Bucket(d)) \in Nat /\ Cardinality(Bucket(d)) <= RateMax
        /\ Bucket(d) \subseteq 1..n
    BY <1>4, BucketIsFinite DEF PilotInv, PilotTypes
  <2>2. CASE d # c
    <3>1. Bucket(d)' \subseteq Bucket(d)
      BY <1>3, <2>2
    <3>2. Cardinality(Bucket(d)') <= Cardinality(Bucket(d)) /\ IsFiniteSet(Bucket(d)')
      BY <2>1, <3>1, FS_Subset
    <3>3. Cardinality(Bucket(d)') \in Nat
      BY <3>2, FS_CardinalityType
    <3> QED
      BY <2>1, <3>2, <3>3
  <2>3. CASE d = c
    <3> PICK T : T = Bucket(d) \cup {n+1}
      OBVIOUS
    <3>1. n+1 \notin Bucket(d)
      BY <2>1
    <3>2. IsFiniteSet(T) /\ Cardinality(T) = Cardinality(Bucket(d)) + 1
      BY <2>1, <3>1, FS_AddElement
    <3>3. Bucket(d)' \subseteq T
      BY <1>3, <2>3
    <3>4. Cardinality(Bucket(d)') <= Cardinality(T) /\ IsFiniteSet(Bucket(d)')
      BY <3>2, <3>3, FS_Subset
    <3>5. Cardinality(Bucket(d)') \in Nat
      BY <3>4, FS_CardinalityType
    <3> QED
      BY <2>1, <2>3, <3>2, <3>4, <3>5
  <2> QED
    BY <2>2, <2>3
<1> QED
  BY <1>1, <1>4

LEMMA LimitHolds ==
  ASSUME PilotInv, NEW t \in Threads, Limit(t)
  PROVE  PilotInv'
<1> PICK p \in PilotCall : p = pilotCall[t]
  BY DEF PilotInv, PilotTypes
<1>0. PilotTypes /\ UNCHANGED <<application, receipts>> /\ p.at = "limit"
  BY DEF PilotInv, Limit
<1>1. p.client \in Clients /\ p.key \in PilotKeys /\ p.form \in Forms
  BY <1>0 DEF PilotTypes
<1> PICK c \in Clients : c = p.client
  BY <1>1
<1> PICK E : E = Evicted(c)
  OBVIOUS
<1>2. CASE Cardinality(Bucket(c)) >= RateMax
  <2>1. PilotDone(t) /\ admitted' = Without(E)
    BY <1>2 DEF Limit
  <2>2. admitted' \in Seq(Admission) /\ \A d \in Clients : Bucket(d)' \subseteq Bucket(d)
    BY <2>1, WithoutBuckets
  <2>3. \A d \in Clients : Cardinality(Bucket(d)') <= RateMax
    BY <2>2, SmallerBuckets
  <2>4. PilotTypes'
    BY <1>0, <2>1, <2>2, CallDone DEF PilotTypes
  <2> QED
    BY <1>0, <2>3, <2>4 DEF PilotInv
<1>3. CASE ~(Cardinality(Bucket(c)) >= RateMax)
  <2>1. /\ admitted' = Append(Without(E), [client |-> c, kept |-> TRUE])
        /\ PilotDone(t) \/ pilotCall' = [pilotCall EXCEPT ![t].at = "insert"]
    BY <1>3 DEF Limit
  <2>2. Cardinality(Bucket(c)) < RateMax
    BY <1>0, <1>3, BucketIsFinite DEF PilotTypes
  <2>3. admitted' \in Seq(Admission) /\ \A d \in Clients : Cardinality(Bucket(d)') <= RateMax
    BY <2>1, <2>2, BucketGrows
  <2> PICK q : q = [p EXCEPT !.at = "insert"]
    OBVIOUS
  <2>7. q \in PilotCall /\ q.client = p.client /\ q.key = p.key /\ q.form = p.form
    BY DEF PilotCall
  <2>4. PilotDone(t) \/ pilotCall' = [pilotCall EXCEPT ![t] = q]
    BY <2>1
  <2>5. /\ pilotCall' \in [Threads -> PilotCall]
        /\ \A u \in Threads : pilotCall'[u].at # "idle" =>
             pilotCall'[u].client \in Clients /\ pilotCall'[u].key \in PilotKeys /\ pilotCall'[u].form \in Forms
    BY <1>0, <1>1, <2>4, <2>7, CallDone, CallSet
  <2>6. PilotTypes'
    BY <1>0, <2>3, <2>5 DEF PilotTypes
  <2> QED
    BY <1>0, <2>3, <2>6 DEF PilotInv
<1> QED
  BY <1>2, <1>3

LEMMA InsertHolds ==
  ASSUME PilotInv, NEW t \in Threads, Insert(t)
  PROVE  PilotInv'
<1> PICK p \in PilotCall : p = pilotCall[t]
  BY DEF PilotInv, PilotTypes
<1>0. PilotTypes /\ UNCHANGED admitted /\ PilotDone(t) /\ p.at = "insert"
  BY DEF PilotInv, Insert
<1> PICK k \in PilotKeys, f \in Forms : k = p.key /\ f = p.form
  BY <1>0 DEF PilotTypes
<1> PICK saved \in Forms : saved = IF application[k] = None THEN f ELSE application[k]
  BY <1>0 DEF PilotTypes
<1>1. /\ application' = [application EXCEPT ![k] = saved]
      /\ receipts' = IF saved = f THEN [receipts EXCEPT ![k] = receipts[k] \cup {f}] ELSE receipts
  BY DEF Insert
<1>2. PilotTypes'
  BY <1>0, <1>1, CallDone DEF PilotTypes
<1>3. ASSUME NEW j \in PilotKeys, NEW g \in receipts'[j] PROVE application'[j] = g
  <2>1. g \in receipts[j] \/ (j = k /\ g = f /\ saved = f)
    BY <1>1, <1>3, <1>0 DEF PilotTypes
  <2>2. application'[k] = saved /\ (j # k => application'[j] = application[j])
    BY <1>1, <1>0 DEF PilotTypes
  <2>3. CASE g \in receipts[j]
    <3>1. application[j] = g /\ g \in Forms
      BY <2>3, <1>0 DEF PilotInv, PilotTypes
    <3> QED
      BY <3>1, <2>2
  <2> QED
    BY <2>1, <2>2, <2>3
<1> QED
  BY <1>0, <1>2, <1>3, SameBuckets DEF PilotInv

\* What is left of a bucket when the oldest admission leaves maps, one place
\* up, into the bucket as it was.
LEMMA OldestLeavesHolds ==
  ASSUME PilotInv, OldestLeaves
  PROVE  PilotInv'
<1>0. PilotTypes /\ UNCHANGED <<application, pilotCall, receipts>>
      /\ admitted \in Seq(Admission) /\ admitted # <<>> /\ admitted' = Tail(admitted)
  BY DEF PilotInv, PilotTypes, OldestLeaves
<1>1. /\ admitted' \in Seq(Admission) /\ Len(admitted) \in Nat \ {0} /\ Len(admitted') = Len(admitted) - 1
      /\ \A i \in 1..(Len(admitted) - 1) : admitted'[i] = admitted[i+1]
  BY <1>0
<1>2. PilotTypes'
  BY <1>0, <1>1 DEF PilotTypes
<1>3. ASSUME NEW c \in Clients PROVE Cardinality(Bucket(c)') <= RateMax
  <2> PICK S : S = Bucket(c)'
    OBVIOUS
  <2> PICK T : T = Bucket(c)
    OBVIOUS
  <2>1. IsFiniteSet(T) /\ Cardinality(T) \in Nat /\ Cardinality(T) <= RateMax
    BY <1>0, <1>3, BucketIsFinite DEF PilotInv
  <2>2. \A i \in S : i \in Nat /\ i+1 \in T
    <3> SUFFICES ASSUME NEW i \in S PROVE i \in Nat /\ i+1 \in T
      OBVIOUS
    <3>1. i \in 1..(Len(admitted) - 1) /\ admitted'[i].client = c /\ admitted'[i].kept
      BY <1>1 DEF Bucket
    <3>2. i + 1 \in 1..Len(admitted) /\ admitted[i+1].client = c /\ admitted[i+1].kept
      BY <1>1, <3>1
    <3>3. i + 1 \in DOMAIN admitted
      BY <1>0, <3>2
    <3> QED
      BY <3>1, <3>2, <3>3 DEF Bucket
  <2> DEFINE up == [i \in S |-> i + 1]
  <2>3. IsFiniteSet(T) /\ up \in Injection(S, T)
    <3>1. up \in [S -> T]
      BY <2>2
    <3>2. \A i, j \in S : up[i] = up[j] => i = j
      BY <2>2
    <3> QED
      BY <2>1, <3>1, <3>2 DEF Injection, IsInjective
  <2>5. Cardinality(S) <= Cardinality(T) /\ IsFiniteSet(S)
    <3> HIDE DEF up
    <3> QED
      BY <2>3, FS_Injection
  <2>6. Cardinality(S) \in Nat
    BY <2>5, FS_CardinalityType
  <2> QED
    BY <2>1, <2>5, <2>6
<1> QED
  BY <1>0, <1>2, <1>3 DEF PilotInv

LEMMA RestartPilotHolds ==
  ASSUME PilotInv, RestartPilot
  PROVE  PilotInv'
<1>0. UNCHANGED <<application, receipts>> /\ admitted' = Without(Clients) /\ PilotTypes
  BY DEF RestartPilot, PilotInv
<1>1. admitted' \in Seq(Admission) /\ \A d \in Clients : Bucket(d)' \subseteq Bucket(d)
  BY <1>0, WithoutBuckets
<1>2. \A d \in Clients : Cardinality(Bucket(d)') <= RateMax
  BY <1>1, SmallerBuckets
<1> PICK p \in PilotCall : p = NoPilotCall /\ p.at = "idle"
  BY NoPilotCallTyped
<1>3. pilotCall' = [t \in Threads |-> p]
  BY DEF RestartPilot
<1>4. PilotTypes'
  BY <1>0, <1>1, <1>3 DEF PilotTypes
<1> QED
  BY <1>0, <1>2, <1>4 DEF PilotInv

LEMMA PurgeApplicationHolds ==
  ASSUME PilotInv, NEW k \in PilotKeys, PurgeApplication(k)
  PROVE  PilotInv'
<1>1. /\ application' = [application EXCEPT ![k] = None] /\ receipts' = [receipts EXCEPT ![k] = {}]
      /\ UNCHANGED <<admitted, pilotCall>> /\ PilotTypes
  BY DEF PurgeApplication, PilotInv
<1>2. PilotTypes'
  BY <1>1 DEF PilotTypes
<1>3. ASSUME NEW j \in PilotKeys, NEW g \in receipts'[j] PROVE application'[j] = g
  <2>1. j # k /\ g \in receipts[j]
    BY <1>1, <1>3 DEF PilotTypes
  <2> QED
    BY <1>1, <2>1 DEF PilotInv, PilotTypes
<1> QED
  BY <1>1, <1>2, <1>3, SameBuckets DEF PilotInv

LEMMA PilotStepHolds == PilotInv /\ [PilotNext]_pilotVars => PilotInv'
<1> SUFFICES ASSUME PilotInv, [PilotNext]_pilotVars PROVE PilotInv'
  OBVIOUS
<1>1. CASE UNCHANGED pilotVars
  <2>1. UNCHANGED <<application, admitted, pilotCall, receipts>>
    BY <1>1 DEF pilotVars
  <2> QED
    BY <2>1, SameBuckets DEF PilotInv, PilotTypes
<1>2. CASE PilotNext
  BY <1>2, ApplyHolds, LimitHolds, InsertHolds, PurgeApplicationHolds, OldestLeavesHolds, RestartPilotHolds DEF PilotNext
<1> QED
  BY <1>1, <1>2

\* The requests, the applications and the buckets keep their types, every
\* receipt of a key names the application stored for it now, and no bucket holds
\* more times than the limit, at every reachable state.
THEOREM PilotInvariant == PilotSpec => []PilotInv
<1>1. PilotInit => PilotInv
  BY PilotInitHolds
<1>2. PilotInv /\ [PilotNext]_pilotVars => PilotInv'
  BY PilotStepHolds
<1> QED
  BY <1>1, <1>2, PTL DEF PilotSpec

\* Every reachable state of the pilot applications is typed.
THEOREM PilotTypesHold == PilotSpec => []PilotTypeOK
<1>1. PilotInv => PilotTypeOK
  BY DEF PilotInv, PilotTypes, PilotTypeOK
<1> QED
  BY <1>1, PilotInvariant, PTL

\* All receipts of a key are for the one stored form however requests of
\* create_pilot_application overlap, until a purge deletes it; and a client whose bucket was neither
\* evicted nor lost has no more applications taken in a window than the limit.
THEOREM PilotPromisesHold == PilotSpec => []PilotPromises
<1>1. PilotInv => PilotPromises
  <2> SUFFICES ASSUME PilotInv PROVE PilotPromises
    OBVIOUS
  <2>1. \A k \in PilotKeys : receipts[k] \subseteq {application[k]}
    BY DEF PilotInv
  <2>2. ASSUME NEW c \in Clients, NEW taken, taken = {i \in DOMAIN admitted : admitted[i].client = c},
               \A i \in taken : admitted[i].kept
        PROVE  Cardinality(taken) <= RateMax
    <3>1. taken = Bucket(c)
      BY <2>2 DEF Bucket
    <3> QED
      BY <3>1, <2>2 DEF PilotInv
  <2> QED
    BY <2>1, <2>2 DEF PilotPromises
<1> QED
  BY <1>1, PilotInvariant, PTL

-----------------------------------------------------------------------------
(* Credentials.                                                             *)

USE CredentialsAssumption

SettingsRequest == SettingsChange \cup KeyUse \cup {Look}
AccountCall(r) == <<"account", r>>
Whats == SettingsRequest \cup {AccountCall(r) : r \in AccountRequest}
Payloads == SUBSET SettingsChange

CredTypes ==
  /\ settings \in Payloads \cup {None}
  /\ settingsLock \in Threads \cup {None}
  /\ account \in Account \cup {None}
  /\ lapsed \subseteq AccountKeys
  /\ credCall \in [Threads -> [at : {"idle", "seed", "save"}, what : Whats,
                               read : Payloads \cup Account \cup {None}]]
  /\ answered \in Payloads
  /\ unlocked \in BOOLEAN /\ retired \in BOOLEAN /\ reissued \in BOOLEAN

Writing(t) == credCall[t].at # "idle" /\ credCall[t].what \in SettingsChange
Saving(t, r) == credCall[t].at = "save" /\ credCall[t].what = AccountCall(r)

\* What a call holds: a settings writer the lock, a call that is going to save
\* the record it saves from.
CredCallInv ==
  \A t \in Threads :
    /\ credCall[t].at = "seed" => credCall[t].what \in SettingsRequest
    /\ credCall[t].at = "save" /\ credCall[t].what \in SettingsRequest => credCall[t].read \in Payloads
    /\ Writing(t) => settingsLock = t

\* A writer has read all that was answered.
SettingsInv ==
  unlocked \/ ( /\ answered = {} \/ (settings # None /\ answered \subseteq settings)
                /\ \A t \in Threads : Writing(t) /\ credCall[t].at = "save" => answered \subseteq credCall[t].read )

AccountInv ==
  /\ \A t \in Threads, r \in AccountRequest : Saving(t, r) =>
       IF r = "create" THEN account = None /\ credCall[t].read = None
       ELSE /\ account \in Account /\ credCall[t].read \in Account
            /\ r \in {"rotate", "use"} => credCall[t].read.active
  /\ \A t, u \in Threads : Saving(t, "create") /\ Saving(u, "create") => t = u
  /\ reissued \/ ~retired \/ (account \in Account /\ ~account.active)

CredInv == CredTypes /\ CredCallInv /\ SettingsInv /\ AccountInv


-----------------------------------------------------------------------------
(* Requests on the settings and on the account are different requests.      *)
LEMMA Kinds ==
  /\ SettingsChange \cap KeyUse = {} /\ Look \notin SettingsChange
  /\ \A r : AccountCall(r) \notin SettingsRequest
  /\ \A r, s : AccountCall(r) = AccountCall(s) => r = s
  BY DEF SettingsRequest, SettingsChange, KeyUse, Look, AccountCall, Create, Revoke

LEMMA CredInitHolds == CredInit => CredInv
<1> SUFFICES ASSUME CredInit PROVE CredInv
  OBVIOUS
<1>1. NoCredCall \in [at : {"idle", "seed", "save"}, what : Whats, read : Payloads \cup Account \cup {None}]
  BY DEF NoCredCall, Whats, SettingsRequest
<1>2. CredTypes
  BY <1>1 DEF CredInit, CredTypes, Payloads
<1>3. CredCallInv /\ SettingsInv /\ AccountInv
  BY DEF CredInit, CredCallInv, SettingsInv, AccountInv, NoCredCall, Writing, Saving
<1> QED
  BY <1>2, <1>3 DEF CredInv

-----------------------------------------------------------------------------
(* The settings.                                                            *)

\* Steps on the settings leave the account's calls alone.
LEMMA AccountKept ==
  ASSUME CredInv, AccountUnchanged,
         NEW t \in Threads, credCall' = [credCall EXCEPT ![t] = credCall'[t]],
         credCall'[t].what \in SettingsRequest
  PROVE  AccountInv'
<1>1. \A u \in Threads, r \in AccountRequest : Saving(u, r)' => Saving(u, r) /\ u # t
  BY Kinds DEF CredInv, CredTypes, Saving
<1>2. \A u \in Threads : u # t => credCall'[u] = credCall[u]
  BY DEF CredInv, CredTypes
<1>3. "create" \in AccountRequest
  BY DEF AccountRequest
<1> QED
  BY <1>1, <1>2, <1>3 DEF CredInv, AccountInv, AccountUnchanged, Saving

LEMMA OpenSettingsKeeps ==
  ASSUME CredInv, NEW t \in Threads, NEW c \in SettingsRequest, OpenSettings(t, c)
  PROVE  CredInv'
<1> DEFINE call == [at |-> IF settings = None THEN "seed" ELSE "save", what |-> c, read |-> settings]
<1>1. credCall' = [credCall EXCEPT ![t] = call] /\ credCall'[t] = call
  BY DEF OpenSettings, CredInv, CredTypes
<1>2. CredTypes'
  <2>1. call \in [at : {"idle", "seed", "save"}, what : Whats, read : Payloads \cup Account \cup {None}]
    BY DEF CredInv, CredTypes, Whats
  <2> HIDE DEF call
  <2> QED
    BY <1>1, <2>1 DEF OpenSettings, CredInv, CredTypes, AccountUnchanged
<1>3. CredCallInv'
  BY <1>1 DEF OpenSettings, CredInv, CredTypes, CredCallInv, Writing, Locks
<1>4. SettingsInv'
  BY <1>1 DEF OpenSettings, CredInv, CredTypes, SettingsInv, Writing
<1>5. AccountInv'
  <2>1. credCall' = [credCall EXCEPT ![t] = credCall'[t]]
    <3> HIDE DEF call
    <3> QED BY <1>1
  <2>2. credCall'[t].what \in SettingsRequest
    BY <1>1
  <2> QED
    BY <2>1, <2>2, AccountKept DEF OpenSettings
<1> QED
  BY <1>2, <1>3, <1>4, <1>5 DEF CredInv

LEMMA SeedSettingsKeeps ==
  ASSUME CredInv, NEW t \in Threads, SeedSettings(t)
  PROVE  CredInv'
<1> DEFINE call == [credCall[t] EXCEPT !.at = "save", !.read = {}]
<1>1. credCall' = [credCall EXCEPT ![t] = call] /\ credCall'[t] = call
  BY DEF SeedSettings, CredInv, CredTypes
<1>2. {} \in Payloads
  BY DEF Payloads
<1>3. CredTypes'
  BY <1>2 DEF SeedSettings, CredInv, CredTypes, AccountUnchanged
<1>4. CredCallInv'
  BY <1>1, <1>2 DEF SeedSettings, CredInv, CredTypes, CredCallInv, Writing
<1>5. SettingsInv'
  BY <1>1 DEF SeedSettings, CredInv, CredTypes, SettingsInv, Writing
<1>6. AccountInv'
  <2>1. credCall' = [credCall EXCEPT ![t] = credCall'[t]]
    BY <1>1
  <2>2. credCall'[t].what \in SettingsRequest
    BY <1>1 DEF SeedSettings, CredInv, CredTypes, CredCallInv
  <2> QED
    BY <2>1, <2>2, AccountKept DEF SeedSettings
<1> QED
  BY <1>3, <1>4, <1>5, <1>6 DEF CredInv

LEMMA NoCallIsTyped ==
  NoCredCall \in [at : {"idle", "seed", "save"}, what : Whats, read : Payloads \cup Account \cup {None}]
  BY DEF NoCredCall, Whats, SettingsRequest

\* A call that ends.
LEMMA CredDoneCall ==
  ASSUME CredTypes, NEW t \in Threads, CredDone(t)
  PROVE  /\ credCall' = [credCall EXCEPT ![t] = credCall'[t]]
         /\ credCall'[t].at = "idle" /\ credCall'[t].what \in SettingsRequest
         /\ \A u \in Threads : u # t => credCall'[u] = credCall[u]
         /\ credCall' \in [Threads -> [at : {"idle", "seed", "save"}, what : Whats,
                                       read : Payloads \cup Account \cup {None}]]
<1>1. NoCredCall.at = "idle" /\ NoCredCall.what \in SettingsRequest
  BY DEF NoCredCall, SettingsRequest
<1> QED
  BY <1>1, NoCallIsTyped DEF CredDone, CredTypes

LEMMA SaveChangeKeeps ==
  ASSUME CredInv, NEW t \in Threads, SaveChange(t)
  PROVE  CredInv'
<1> DEFINE c == credCall[t].what
<1>1. CredTypes /\ CredDone(t) /\ settingsLock = t /\ c \in SettingsChange /\ credCall[t].at = "save"
  BY DEF SaveChange, CredInv, CredCallInv, Writing
<1>2. credCall[t].read \in Payloads
  BY <1>1 DEF CredInv, CredCallInv, SettingsRequest
<1>3. credCall[t].read \cup {c} \in Payloads /\ answered \cup {c} \in Payloads
  BY <1>1, <1>2 DEF Payloads, CredTypes
<1>4. \A u \in Threads : Writing(u)' => FALSE
  BY <1>1, CredDoneCall DEF CredInv, CredCallInv, Writing
<1>5. CredTypes'
  BY <1>1, <1>3, CredDoneCall DEF SaveChange, CredTypes, AccountUnchanged
<1>6. CredCallInv'
  BY <1>1, <1>4, CredDoneCall DEF CredInv, CredCallInv
<1>7. SettingsInv'
  <2>1. \/ settings' = settings /\ answered' = answered
        \/ settings' = credCall[t].read \cup {c} /\ answered' = answered \cup {c}
    BY DEF SaveChange
  <2>2. settings' = credCall[t].read \cup {c} => settings' # None
    BY <1>3 DEF Payloads
  <2>3. unlocked \/ answered \subseteq credCall[t].read
    BY <1>1 DEF CredInv, SettingsInv, Writing
  <2> QED
    BY <1>4, <2>1, <2>2, <2>3 DEF SaveChange, CredInv, SettingsInv
<1>8. AccountInv'
  BY <1>1, CredDoneCall, AccountKept DEF SaveChange
<1> QED
  BY <1>5, <1>6, <1>7, <1>8 DEF CredInv

LEMMA RecordKeyUseKeeps ==
  ASSUME CredInv, NEW t \in Threads, RecordKeyUse(t)
  PROVE  CredInv'
<1>1. CredTypes /\ CredDone(t) /\ credCall[t].at = "save" /\ credCall[t].what \in KeyUse
  BY DEF RecordKeyUse, CredInv
<1>2. credCall[t].read \in Payloads
  BY <1>1 DEF CredInv, CredCallInv, SettingsRequest
<1>3. CredTypes'
  BY <1>1, <1>2, CredDoneCall DEF RecordKeyUse, CredTypes, AccountUnchanged, Stale
<1>4. \A u \in Threads : Writing(u)' => Writing(u) /\ u # t /\ credCall'[u] = credCall[u]
  BY <1>1, CredDoneCall DEF Writing
<1>5. CredCallInv'
  BY <1>1, <1>4, CredDoneCall DEF CredInv, CredCallInv, RecordKeyUse
<1>6. SettingsInv'
  <2>1. unlocked' \/ (~unlocked /\ settings' = settings)
    BY DEF RecordKeyUse, Stale, CredInv, CredTypes
  <2> QED
    BY <1>4, <2>1 DEF CredInv, SettingsInv, RecordKeyUse
<1>7. AccountInv'
  BY <1>1, CredDoneCall, AccountKept DEF RecordKeyUse
<1> QED
  BY <1>3, <1>5, <1>6, <1>7 DEF CredInv

LEMMA ReadSettingsKeeps ==
  ASSUME CredInv, NEW t \in Threads, ReadSettings(t)
  PROVE  CredInv'
<1>1. CredTypes /\ CredDone(t)
  BY DEF ReadSettings, CredInv
<1>2. CredTypes'
  BY <1>1, CredDoneCall DEF ReadSettings, CredTypes, AccountUnchanged, SettingsUnchanged
<1>3. \A u \in Threads : Writing(u)' => Writing(u) /\ u # t /\ credCall'[u] = credCall[u]
  BY <1>1, CredDoneCall DEF Writing
<1>4. CredCallInv' /\ SettingsInv'
  BY <1>1, <1>3, CredDoneCall DEF CredInv, CredCallInv, SettingsInv, ReadSettings, SettingsUnchanged
<1>5. AccountInv'
  BY <1>1, CredDoneCall, AccountKept DEF ReadSettings
<1> QED
  BY <1>2, <1>4, <1>5 DEF CredInv

-----------------------------------------------------------------------------
(* The service account.                                                     *)

\* Steps on the account leave the settings' calls alone.
LEMMA SettingsKept ==
  ASSUME CredInv, SettingsUnchanged,
         \A u \in Threads : \/ credCall'[u] = credCall[u]
                            \/ credCall'[u].at = "idle"
                            \/ credCall'[u].at = "save" /\ credCall'[u].what \notin SettingsRequest
  PROVE  CredCallInv' /\ SettingsInv'
<1>1. \A u \in Threads : Writing(u)' => Writing(u) /\ credCall'[u] = credCall[u]
  BY DEF Writing, SettingsRequest
<1> QED
  BY <1>1 DEF CredInv, CredCallInv, SettingsInv, SettingsUnchanged

LEMMA OpenAccountKeeps ==
  ASSUME CredInv, NEW t \in Threads, NEW r \in AccountRequest, OpenAccount(t, r)
  PROVE  CredInv'
<1> DEFINE call == [at |-> "save", what |-> AccountCall(r), read |-> account]
<1>1. credCall' = [credCall EXCEPT ![t] = call] /\ credCall'[t] = call
  BY DEF OpenAccount, CredInv, CredTypes, AccountCall
<1>2. CredTypes'
  <2>1. call \in [at : {"idle", "seed", "save"}, what : Whats, read : Payloads \cup Account \cup {None}]
    BY DEF CredInv, CredTypes, Whats
  <2> HIDE DEF call
  <2> QED
    BY <1>1, <2>1 DEF OpenAccount, CredInv, CredTypes, AccountUnchanged, SettingsUnchanged
<1>3. \A u \in Threads : u # t => credCall'[u] = credCall[u]
  BY <1>1 DEF CredInv, CredTypes
<1>4. CredCallInv' /\ SettingsInv'
  BY <1>1, <1>3, Kinds, SettingsKept DEF OpenAccount
<1>5. AccountInv'
  <2>1. \A s \in AccountRequest : Saving(t, s)' => s = r
    BY <1>1, Kinds DEF Saving
  <2>2. \A u \in Threads : u # t => (\A s : Saving(u, s)' <=> Saving(u, s))
    BY <1>3 DEF Saving
  <2>3. r = "create" => account = None /\ \A u \in Threads : ~Saving(u, "create")
    BY DEF OpenAccount, Saving, AccountCall
  <2>4. r # "create" => account \in Account /\ (r \in {"rotate", "use"} => account.active)
    BY DEF OpenAccount, CredInv, CredTypes
  <2>5. credCall'[t].read = account /\ account' = account /\ retired' = retired /\ reissued' = reissued
    BY <1>1 DEF OpenAccount, AccountUnchanged
  <2>6. \A u \in Threads, s \in AccountRequest : Saving(u, s)' =>
          IF s = "create" THEN account' = None /\ credCall'[u].read = None
          ELSE /\ account' \in Account /\ credCall'[u].read \in Account
               /\ s \in {"rotate", "use"} => credCall'[u].read.active
    BY <1>3, <2>1, <2>2, <2>3, <2>4, <2>5 DEF CredInv, AccountInv
  <2>7. \A u, v \in Threads : Saving(u, "create")' /\ Saving(v, "create")' => u = v
    BY <2>1, <2>2, <2>3 DEF CredInv, AccountInv, AccountRequest
  <2> QED
    BY <2>5, <2>6, <2>7 DEF CredInv, AccountInv
<1> QED
  BY <1>2, <1>4, <1>5 DEF CredInv

LEMMA SaveAccountKeeps ==
  ASSUME CredInv, NEW t \in Threads, NEW r \in AccountRequest, SaveAccount(t, r)
  PROVE  CredInv'
<1> DEFINE read == credCall[t].read
           fresh == CHOOSE k \in AccountKeys : account = None \/ k \notin account.keys \cup read.keys
<1>1. CredTypes /\ CredDone(t) /\ Saving(t, r)
  BY DEF SaveAccount, CredInv, Saving, AccountCall
<1>2. IF r = "create" THEN account = None /\ read = None
      ELSE /\ account \in Account /\ read \in Account
           /\ r \in {"rotate", "use"} => read.active
  BY <1>1 DEF CredInv, AccountInv
<1>3. account' = CASE r = "create" -> [active |-> TRUE, keys |-> {fresh}]
                   [] r = "rotate" -> [read EXCEPT !.keys = @ \cup {fresh}]
                   [] r = "revoke" -> [active |-> FALSE, keys |-> {}]
                   [] r = "use" -> read
  BY DEF SaveAccount
<1>4. r \in {"create", "rotate"} => fresh \in AccountKeys
  <2>1. CASE r = "create"
    BY <1>2, <2>1
  <2>2. CASE r = "rotate"
    <3>1. account.keys \subseteq AccountKeys /\ read.keys \subseteq AccountKeys
      BY <1>2, <2>2 DEF Account
    <3>2. account.keys \cup read.keys # AccountKeys
      BY <2>2 DEF SaveAccount
    <3>3. \E k \in AccountKeys : k \notin account.keys \cup read.keys
      BY <3>1, <3>2
    <3> QED
      BY <3>3
  <2> QED
    BY <2>1, <2>2
<1>5. account' \in Account
  <2> HIDE DEF fresh, read
  <2>1. CASE r = "create"
    BY <1>3, <1>4, <2>1 DEF Account
  <2>2. CASE r = "rotate"
    BY <1>2, <1>3, <1>4, <2>2 DEF Account
  <2>3. CASE r = "revoke"
    BY <1>3, <2>3 DEF Account
  <2>4. CASE r = "use"
    BY <1>2, <1>3, <2>4 DEF Account
  <2> QED
    BY <2>1, <2>2, <2>3, <2>4 DEF AccountRequest
<1>6. CredTypes'
  BY <1>1, <1>5, CredDoneCall DEF SaveAccount, CredTypes, SettingsUnchanged, Stale
<1>7. CredCallInv' /\ SettingsInv'
  BY <1>1, CredDoneCall, SettingsKept DEF SaveAccount
<1>8. AccountInv'
  <2>1. \A u \in Threads, s \in AccountRequest : Saving(u, s)' => u # t /\ Saving(u, s) /\ credCall'[u] = credCall[u]
    BY <1>1, CredDoneCall DEF Saving
  <2>2. \A u \in Threads : Saving(u, "create")' => u # t /\ Saving(u, "create")
    BY <2>1 DEF AccountRequest
  <2>3. \A u \in Threads : ~Saving(u, "create")'
    <3> SUFFICES ASSUME NEW u \in Threads, Saving(u, "create")' PROVE FALSE
      OBVIOUS
    <3>1. u # t /\ Saving(u, "create")
      BY <2>2
    <3>2. account = None
      BY <3>1 DEF CredInv, AccountInv, AccountRequest
    <3>3. r = "create"
      BY <1>2, <3>2
    <3> QED
      BY <1>1, <3>1, <3>3 DEF CredInv, AccountInv
  <2>4. \A u \in Threads, s \in AccountRequest : Saving(u, s)' =>
          IF s = "create" THEN account' = None /\ credCall'[u].read = None
          ELSE /\ account' \in Account /\ credCall'[u].read \in Account
               /\ s \in {"rotate", "use"} => credCall'[u].read.active
    BY <1>5, <2>1, <2>3 DEF CredInv, AccountInv
  <2>5. reissued' \/ ~retired' \/ ~account'.active
    <3> SUFFICES ASSUME ~reissued', retired' PROVE ~account'.active
      OBVIOUS
    <3>1. ~reissued /\ account = read
      BY DEF SaveAccount, Stale, CredInv, CredTypes
    <3>2. CASE r = "revoke"
      BY <1>3, <3>2
    <3>3. CASE r # "revoke"
      <4>1. retired
        BY <3>3 DEF SaveAccount, CredInv, CredTypes
      <4>2. account \in Account /\ ~account.active
        BY <3>1, <4>1 DEF CredInv, AccountInv
      <4> QED
        BY <1>2, <3>1, <3>3, <4>2 DEF AccountRequest
    <3> QED
      BY <3>2, <3>3
  <2> QED
    BY <1>5, <2>3, <2>4, <2>5 DEF AccountInv
<1> QED
  BY <1>6, <1>7, <1>8 DEF CredInv

LEMMA LapseKeyKeeps ==
  ASSUME CredInv, NEW k \in AccountKeys, LapseKey(k)
  PROVE  CredInv'
<1>1. CredTypes'
  BY DEF LapseKey, CredInv, CredTypes, SettingsUnchanged
<1>2. CredCallInv' /\ SettingsInv'
  BY SettingsKept DEF LapseKey
<1>3. AccountInv'
  BY DEF LapseKey, CredInv, AccountInv, Saving
<1> QED
  BY <1>1, <1>2, <1>3 DEF CredInv

-----------------------------------------------------------------------------
LEMMA CredStep == CredInv /\ [CredNext]_credVars => CredInv'
<1> SUFFICES ASSUME CredInv, [CredNext]_credVars PROVE CredInv'
  OBVIOUS
<1>1. CASE SettingsNext
  BY <1>1, OpenSettingsKeeps, SeedSettingsKeeps, SaveChangeKeeps, RecordKeyUseKeeps, ReadSettingsKeeps
     DEF SettingsNext, SettingsRequest
<1>2. CASE AccountNext
  BY <1>2, OpenAccountKeeps, SaveAccountKeeps, LapseKeyKeeps DEF AccountNext
<1>3. CASE UNCHANGED credVars
  BY <1>3 DEF credVars, CredInv, CredTypes, CredCallInv, SettingsInv, AccountInv, Writing, Saving
<1> QED
  BY <1>1, <1>2, <1>3 DEF CredNext

LEMMA CredInvariant == CredSpec => []CredInv
<1>1. CredInit => CredInv
  BY CredInitHolds
<1>2. CredInv /\ [CredNext]_credVars => CredInv'
  BY CredStep
<1> QED
  BY <1>1, <1>2, PTL DEF CredSpec

\* The settings record, the account and the calls keep their types.
THEOREM CredentialTypes == CredSpec => []CredTypeOK
<1>1. CredInv => CredTypeOK
  BY DEF CredInv, CredTypes, CredTypeOK, Payloads
<1> QED
  BY <1>1, CredInvariant, PTL

\* An answered change of the settings, and the revocation of an account, stands
\* unless a save without the lock went over it.
THEOREM RevocationsStand == CredSpec => []AnsweredChangesStand
<1>1. CredInv => AnsweredChangesStand
  BY DEF CredInv, SettingsInv, AccountInv, AnsweredChangesStand
<1> QED
  BY <1>1, CredInvariant, PTL
===============================================================================
