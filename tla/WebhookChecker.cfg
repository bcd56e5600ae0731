SPECIFICATION FairSpec
CONSTANTS
    MaxRetryCount = 3
    MaxFaults = 2
    MaxChanges = 3
INVARIANTS TypeOK
PROPERTIES OutageReported ActivityReported
