SPECIFICATION FairSpec
CONSTANTS
    Handler = {h1}
    Builder = builder
    Alarm = alarmHandler
    Profiles = {1}
    Unsafe = {3}
    Batches = 1
    MaxJobAttempts = 2
    RetryLimit = 2
    FaultIn = {"job", "alarm"}
    MaxFaults = 1
    MaxCrashes = 0
    MaxState = 3
    MaxRevokes = 0
PROPERTIES StaleIsRebuilt JobsEnd
