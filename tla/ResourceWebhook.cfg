SPECIFICATION FairSpec
CONSTANTS
    Policies = {p1, p2}
    Background = {p1}
    None = None
    MaxCreators = 2
    MaxEdits = 1
    MaxFaults = 1
    MaxStops = 1
INVARIANTS TypeOK PendingHasCreator
PROPERTIES BackgroundPolicyServed RoundRegisters
CHECK_DEADLOCK FALSE
