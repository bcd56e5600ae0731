SPECIFICATION FairSpec
CONSTANTS
    dataRule = dataRule
    badRule = badRule
    cloneRule = cloneRule
    Rules <- DataThenClone
    Clones = {cloneRule}
    Unparsable = {}
    IsNamespace = FALSE
    None = None
    MaxRetries = 5
    ChannelSize = 1
    MaxAdmissions = 1
    MaxEdits = 0
    MaxFaults = 0
PROPERTIES GeneratedForTrigger
CHECK_DEADLOCK FALSE
