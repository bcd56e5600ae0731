SPECIFICATION FairSpec
CONSTANTS
    Policies = {p1, p2}
    Pod = Pod
    Deployment = Deployment
    Kinds = {Pod, Deployment}
    star = star
    nsA = nsA
    nsB = nsB
    AllNs = star
    Namespaces = {nsA, nsB, star}
    Versions <- AllVersions
    None = None
    Requests = {r1}
    MaxEdits = 1
    MaxEvents = 1
INVARIANTS TypeOK IndexMatchesHandled
PROPERTIES ImplementsIndex EventuallyServed
CHECK_DEADLOCK FALSE
