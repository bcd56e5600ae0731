SPECIFICATION FairSpec
CONSTANTS
    dataRule = dataRule
    badRule = badRule
    cloneRule = cloneRule
    Rules <- BadBetween
    Clones = {cloneRule}
    Unparsable = {badRule}
    IsNamespace = TRUE
    None = None
    MaxRetries = 1
    ChannelSize = 1
    MaxAdmissions = 1
    MaxEdits = 1
    MaxFaults = 1
INVARIANTS TypeOK
PROPERTIES RequestEnds CompletedRequestCleaned
CHECK_DEADLOCK FALSE
