SPECIFICATION FairSpec
CONSTANTS
    None = None
    BadSelector = BadSelector
    Slots = {s1, s2}
    PolicyOf <- MCPolicyOf
    Values <- MCValues
    Users <- MCUsers
    Bindings <- MCBindings
    Manifests <- MCManifests
    ConfigMaps <- MCConfigMaps
    InitFilters <- MCInitFilters
    MaxRequests = 3
    MaxEvents = 1
INVARIANTS TypeOK Enforced AuditReported Generates
PROPERTIES FiltersFollow
CHECK_DEADLOCK FALSE
