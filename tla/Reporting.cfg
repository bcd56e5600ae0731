SPECIFICATION FairSpec
CONSTANTS
    None = None
    Handlers = {h1}
    Worker = w
    Policies = {"p", "q"}
    Enforce = {"q"}
    Results <- MCResults
    RetryLimit = 1
    MaxRequests = 2
    MaxScans = 1
    MaxEdits = 1
INVARIANTS TypeOK Conservation RemovedForGood
PROPERTIES Served EventsSettle
CHECK_DEADLOCK FALSE
