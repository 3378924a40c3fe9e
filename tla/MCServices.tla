------------------------------ MODULE MCServices ------------------------------
(***************************************************************************)
(* The services that share a server and a store, checked together: they    *)
(* touch different records, so an initial state chooses the part that      *)
(* moves, and the states checked are the sum of the parts, not the product.*)
(***************************************************************************)
EXTENDS Credentials, Connectors, Governance, Workspace, Providers, Gateway,
        GuardedTool, TraceIngest, Startup, Pilot, ReleaseGates

CONSTANT Parts     \* the parts an initial state chooses from

VARIABLE part

TLC == INSTANCE TLC

\* The variables of one module stay while another module's part moves.
Frame(ps, vs) == IF part \in ps THEN TRUE ELSE UNCHANGED vs

ServicesInit ==
  /\ part \in Parts
  /\ CredInit
  /\ ConnInit
  /\ GovInit
  /\ WsInit
  /\ ProvInit
  /\ GateInit
  /\ GuardInit
  /\ IngestInit
  /\ BootInit
  /\ PilotInit
  /\ ReleaseInit
  \* What does not move starts in one state.
  /\ part # "settings" => settings = None
  /\ part # "governance" => retention = 1 /\ \A r \in Records : governed[r].text = CHOOSE x \in Texts : TRUE
  /\ part # "cache" => mode = [f \in Findings |-> "monitor"]
  /\ part # "rate" => \A limit \in RateLimits : limit <= perMinute
  /\ part # "startup" => ~inBackground

\* Part p moves, the modules of the others stay.
Only(p) ==
  /\ part = p /\ UNCHANGED part
  /\ Frame({"settings", "account"}, credVars)
  /\ Frame({"automation", "delivery"}, connVars)
  /\ Frame({"governance"}, govVars)
  /\ Frame({"workspace"}, wsVars)
  /\ Frame({"providers"}, provVars)
  /\ Frame({"spend", "rate", "cache"}, gateVars)
  /\ Frame({"guard"}, guardVars)
  /\ Frame({"ingest"}, ingestVars)
  /\ Frame({"startup"}, bootVars)
  /\ Frame({"pilot"}, pilotVars)
  /\ Frame({"release"}, releaseVars)

SettingsPart == Only("settings") /\ SettingsNext
AccountPart == Only("account") /\ AccountNext
AutomationPart == Only("automation") /\ AutomationNext
DeliveryPart == Only("delivery") /\ DeliveryNext
GovernancePart == Only("governance") /\ GovNext
WorkspacePart == Only("workspace") /\ WsNext
ProvidersPart == Only("providers") /\ ProvNext
SpendPart == Only("spend") /\ SpendNext
RatePart == Only("rate") /\ RateNext
CachePart == Only("cache") /\ CacheNext
GuardPart == Only("guard") /\ GuardNext
IngestPart == Only("ingest") /\ IngestNext
StartupPart == Only("startup") /\ BootNext
PilotPart == Only("pilot") /\ PilotNext
ReleasePart == Only("release") /\ ReleaseNext

ServicesNext ==
  \/ SettingsPart \/ AccountPart \/ AutomationPart \/ DeliveryPart
  \/ GovernancePart \/ WorkspacePart \/ ProvidersPart \/ SpendPart
  \/ RatePart \/ CachePart \/ GuardPart \/ IngestPart \/ StartupPart
  \/ PilotPart \/ ReleasePart

ServicesSpec == ServicesInit /\ [][ServicesNext]_<<part, credVars, connVars, govVars, wsVars, provVars, gateVars, guardVars, ingestVars, bootVars, pilotVars, releaseVars>>

Symmetry == TLC!Permutations(Threads)

\* The type invariant of every module.
ServicesTypeOK ==
  /\ part \in Parts
  /\ CredTypeOK
  /\ ConnTypeOK
  /\ GovTypeOK
  /\ WsTypeOK
  /\ ProvTypeOK
  /\ GateTypeOK
  /\ GuardTypeOK
  /\ IngestTypeOK
  /\ BootTypeOK
  /\ PilotTypeOK
  /\ ReleaseTypeOK
===============================================================================
