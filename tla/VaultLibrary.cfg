SPECIFICATION Spec
CONSTANTS
    Handler = {h1}
    Builder = builder
    Alarm = alarmHandler
    Profiles = {}
    Unsafe = {}
    Batches = 1
    MaxJobAttempts = 2
    RetryLimit = 2
    FaultIn = {"save", "record", "create", "alarm", "job"}
    MaxFaults = 1
    MaxCrashes = 1
    MaxState = 2
    MaxRevokes = 1
INVARIANTS LibraryInv NotStaleMeansCurrent
PROPERTIES CurrentNeverGoesBack
