\* Two boots over four configurations while two decisions are recorded, by the
\* served administrator or elsewhere; one emit.
SPECIFICATION SystemSpec
CONSTANTS
    Manifests <- MCManifests
    Offers <- MCOffers
    Configs <- MCConfigs
    FirstParty <- MCFirstParty
    Wants <- MCWants
    Sensitive <- MCSensitive
    NoJob = NoJob
    Idle = Idle
    MaxDecisions = 2
    MaxBoots = 2
    MaxEmits = 1
INVARIANTS
    HostsRestOnDecisions
    EmitWasStillConsented
PROPERTIES
    EveryHandlerRuns
CHECK_DEADLOCK FALSE
