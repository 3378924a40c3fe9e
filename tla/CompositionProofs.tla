--------------------------- MODULE CompositionProofs ---------------------------
(* Theorems about MCServices: a behavior of the services put together is a  *)
(* behavior of each of them, so what is proved of one holds of the whole.   *)
EXTENDS MCServices, DeliveryProofs, ServicesProofs, GatewayProofs, TLAPS

servicesVars == <<part, credVars, connVars, govVars, wsVars, provVars, gateVars,
                  guardVars, ingestVars, bootVars, pilotVars, releaseVars>>

\* The steps of the services, by the component that makes them.
ComponentSteps ==
  /\ [CredNext]_credVars
  /\ [ConnNext]_connVars
  /\ [GovNext]_govVars
  /\ [WsNext]_wsVars
  /\ [ProvNext]_provVars
  /\ [GateNext]_gateVars
  /\ [GuardNext]_guardVars
  /\ [IngestNext]_ingestVars
  /\ [BootNext]_bootVars
  /\ [PilotNext]_pilotVars
  /\ [ReleaseNext]_releaseVars

\* The part that moves makes a step of its component, and the others stay.
LEMMA PartStep ==
  ASSUME ServicesNext
  PROVE  ComponentSteps
<1>1. CASE SettingsPart
  BY <1>1 DEF ComponentSteps, SettingsPart, Only, Frame, CredNext
<1>2. CASE AccountPart
  BY <1>2 DEF ComponentSteps, AccountPart, Only, Frame, CredNext
<1>3. CASE AutomationPart
  BY <1>3 DEF ComponentSteps, AutomationPart, Only, Frame, ConnNext
<1>4. CASE DeliveryPart
  BY <1>4 DEF ComponentSteps, DeliveryPart, Only, Frame, ConnNext
<1>5. CASE GovernancePart
  BY <1>5 DEF ComponentSteps, GovernancePart, Only, Frame
<1>6. CASE WorkspacePart
  BY <1>6 DEF ComponentSteps, WorkspacePart, Only, Frame
<1>7. CASE ProvidersPart
  BY <1>7 DEF ComponentSteps, ProvidersPart, Only, Frame
<1>8. CASE SpendPart
  BY <1>8 DEF ComponentSteps, SpendPart, Only, Frame, SpendNext
<1>9. CASE RatePart
  BY <1>9 DEF ComponentSteps, RatePart, Only, Frame, RateNext
<1>10. CASE CachePart
  BY <1>10 DEF ComponentSteps, CachePart, Only, Frame, CacheNext
<1>11. CASE GuardPart
  BY <1>11 DEF ComponentSteps, GuardPart, Only, Frame
<1>12. CASE IngestPart
  BY <1>12 DEF ComponentSteps, IngestPart, Only, Frame
<1>13. CASE StartupPart
  BY <1>13 DEF ComponentSteps, StartupPart, Only, Frame
<1>14. CASE PilotPart
  BY <1>14 DEF ComponentSteps, PilotPart, Only, Frame
<1>15. CASE ReleasePart
  BY <1>15 DEF ComponentSteps, ReleasePart, Only, Frame
<1> QED
  BY <1>1, <1>2, <1>3, <1>4, <1>5, <1>6, <1>7, <1>8, <1>9, <1>10, <1>11, <1>12, <1>13, <1>14, <1>15 DEF ServicesNext

LEMMA ServicesStep == [ServicesNext]_servicesVars => ComponentSteps
<1>1. UNCHANGED servicesVars => ComponentSteps
  BY DEF servicesVars, ComponentSteps
<1> QED
  BY <1>1, PartStep

\* The services put together start, and step, as each of them does on its own,
\* so each one's specification holds of every behavior of the server.
THEOREM ServicesImplement ==
  ServicesSpec => CredSpec /\ ConnSpec /\ GovSpec /\ WsSpec /\ ProvSpec /\ GateSpec
                  /\ GuardSpec /\ IngestSpec /\ BootSpec /\ PilotSpec /\ ReleaseSpec
<1>1. ServicesInit => CredInit /\ ConnInit /\ GovInit /\ WsInit /\ ProvInit /\ GateInit /\ GuardInit /\ IngestInit /\ BootInit /\ PilotInit /\ ReleaseInit
  BY DEF ServicesInit
<1>2. [ServicesNext]_servicesVars => [CredNext]_credVars
  BY ServicesStep DEF ComponentSteps
<1>3. [ServicesNext]_servicesVars => [ConnNext]_connVars
  BY ServicesStep DEF ComponentSteps
<1>4. [ServicesNext]_servicesVars => [GovNext]_govVars
  BY ServicesStep DEF ComponentSteps
<1>5. [ServicesNext]_servicesVars => [WsNext]_wsVars
  BY ServicesStep DEF ComponentSteps
<1>6. [ServicesNext]_servicesVars => [ProvNext]_provVars
  BY ServicesStep DEF ComponentSteps
<1>7. [ServicesNext]_servicesVars => [GateNext]_gateVars
  BY ServicesStep DEF ComponentSteps
<1>8. [ServicesNext]_servicesVars => [GuardNext]_guardVars
  BY ServicesStep DEF ComponentSteps
<1>9. [ServicesNext]_servicesVars => [IngestNext]_ingestVars
  BY ServicesStep DEF ComponentSteps
<1>10. [ServicesNext]_servicesVars => [BootNext]_bootVars
  BY ServicesStep DEF ComponentSteps
<1>11. [ServicesNext]_servicesVars => [PilotNext]_pilotVars
  BY ServicesStep DEF ComponentSteps
<1>12. [ServicesNext]_servicesVars => [ReleaseNext]_releaseVars
  BY ServicesStep DEF ComponentSteps
<1> QED
  BY <1>1, <1>2, <1>3, <1>4, <1>5, <1>6, <1>7, <1>8, <1>9, <1>10, <1>11, <1>12, PTL
  DEF ServicesSpec, servicesVars, CredSpec, ConnSpec, GovSpec, WsSpec, ProvSpec, GateSpec, GuardSpec, IngestSpec, BootSpec, PilotSpec, ReleaseSpec

\* The part that moves never changes, so with the types of every component the
\* services are typed at every reachable state.
THEOREM ServicesTyped == ServicesSpec => []ServicesTypeOK
<1>1. ServicesInit => part \in Parts
  BY DEF ServicesInit
<1>2. part \in Parts /\ [ServicesNext]_servicesVars => (part \in Parts)'
  <2>1. UNCHANGED servicesVars => UNCHANGED part
    BY DEF servicesVars
  <2>2. ServicesNext => UNCHANGED part
    BY DEF ServicesNext, Only, SettingsPart, AccountPart, AutomationPart, DeliveryPart, GovernancePart, WorkspacePart, ProvidersPart, SpendPart, RatePart, CachePart, GuardPart, IngestPart, StartupPart, PilotPart, ReleasePart
  <2> QED
    BY <2>1, <2>2
<1>3. ServicesSpec => [](part \in Parts)
  BY <1>1, <1>2, PTL DEF ServicesSpec, servicesVars
<1>4. part \in Parts /\ CredTypeOK /\ ConnTypeOK /\ GovTypeOK /\ WsTypeOK /\ ProvTypeOK /\ GateTypeOK /\ GuardTypeOK /\ IngestTypeOK /\ BootTypeOK /\ PilotTypeOK /\ ReleaseTypeOK => ServicesTypeOK
  BY DEF ServicesTypeOK
<1> QED
  BY <1>3, <1>4, ServicesImplement, CredentialTypes, ConnTypesHold, GovernanceTypes, WorkspaceTypes, ProviderTypes, GatewayTypes, ToolTypesHold, IngestTypesHold, StartupTypes, PilotTypesHold, ReleaseTypesHold, PTL

\* What is promised of each component holds of the services put together.
THEOREM ServicesKeepPromises ==
  ServicesSpec =>
    /\ []AnsweredChangesStand
    /\ []CountedRunsHaveEvents
    /\ []DeliveredOnce
    /\ []PurgeSparesHeld
    /\ []InviteStaysSpent
    /\ []RoutedKeyIsVetted
    /\ []SpendIsCharged
    /\ []RateLimitHolds
    /\ []BlockedAnswerWithheld
    /\ []ToolRunsOnce
    /\ []TraceStoredOnce
    /\ []ReadyIsSeeded
    /\ []PilotPromises
    /\ []GateShowsNewestRun
    /\ ToolAsGranted
BY ServicesImplement, RevocationsStand, CountedRuns, DeliveredOnceHolds, PurgeSparesWhatItRead, SpentInvitesStaySpent, UsedKeyIsVetted, BudgetIsCharged, MinuteIsLimited, BlockedIsWithheld, GuardedToolRunsOnce, TracesStoredOnce, ReadyServersAreSeeded, PilotPromisesHold, NewestRunShown, ToolImplementsLeaseGrant, PTL
=============================================================================
