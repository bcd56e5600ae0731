SPECIFICATION FairSpec
CONSTANTS
    validating = validating
    mutating = mutating
    mixed = mixed
    foreground = foreground
    good = good
    bad = bad
    r1 = r1
    Policies = {p1}
    Resources = {r1}
    AutogenPods = {}
    Specs = {validating, mutating}
    Background = {validating, mutating}
    Selected <- Checked
    Contents = {good, bad}
    Verdict <- Verdicts
    None = None
    MaxRetries = 1
    MaxEdits = 1
    MaxFaults = 1
INVARIANTS TypeOK
PROPERTIES ViolationsConverge OrphansRemoved StatusShowsCount
CHECK_DEADLOCK FALSE
