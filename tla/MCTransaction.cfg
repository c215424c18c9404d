CONSTANT Configs <- MCConfigs
SPECIFICATION FairSpec
INVARIANTS
    DeniedStops
    EventsReported
    ResponseIntact
    StatusOfDenyingRule
    RunsAllPhases
    IgnoredChainSilent
PROPERTIES
    IgnoredStaysIgnored
    WalksChains
    Ends
