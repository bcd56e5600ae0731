SPECIFICATION FairSpec
CONSTANTS
    Targets = {t1}
    oneRule = oneRule
    otherRule = otherRule
    twoRules = twoRules
    Contents = {oneRule, otherRule, twoRules}
    NumRules <- RuleCount
    Producers = {a1, a2}
    None = None
    RetryLimit = 1
    MaxAdds = 3
    MaxPVs = 3
    MaxFaults = 2
    MaxDeletes = 1
INVARIANTS TypeOK NoStrandedInfo
PROPERTIES NoBlindUpdate ComesToRest RequestResolved
CHECK_DEADLOCK FALSE
