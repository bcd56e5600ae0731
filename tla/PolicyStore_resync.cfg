SPECIFICATION Spec
CONSTANTS
    Policies = {p1}
    Pod = Pod
    Deployment = Deployment
    Kinds = {Pod, Deployment}
    star = star
    nsA = nsA
    nsB = nsB
    AllNs = star
    Namespaces = {nsA, nsB, star}
    Versions <- SimpleVersions
    None = None
    Requests = {}
    MaxEdits = 1
    MaxEvents = 1
INVARIANTS UnchangedPolicyStaysIndexed
CHECK_DEADLOCK FALSE
