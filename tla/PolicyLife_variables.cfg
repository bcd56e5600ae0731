SPECIFICATION Spec
CONSTANTS
    None = None
    BadSelector = BadSelector
    Meaning <- MCMeaning
    Text <- MCText
    Prefixed <- MCPrefixed
    AllLabels <- MCAllLabels
    Policies <- MCPolicies
    Later <- MCLater
    MaxSubmits = 2
    MaxRounds = 2
    Resources <- MCResources
    Requests <- MCRequests
    Cluster <- MCCluster
    Namespaces <- MCNamespaces
    Filters <- MCFilters
INVARIANT VerdictOfTheRequest
