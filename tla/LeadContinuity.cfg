CONSTANTS
    Lead = {l1, l2}
    Key = {k1, k2}
    Slot = {s1, s2}
    Cron = {c1, c2}
    LeaseTime = 1
    Interval <- Intervals
    MaxTime = 2
    MaxToken = 2
    MaxLog = 3
    MaxSchedule = 1
    InFlight = 2
    MaxRevoked = 1
    NoLead = none
SPECIFICATION Spec
INVARIANTS ContinuityInv NoSecondAppend
PROPERTIES OnlyTheHolderCommits WindowsAreAsked
SYMMETRY Symmetric
CHECK_DEADLOCK FALSE
