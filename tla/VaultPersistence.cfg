SPECIFICATION FairSpec
CONSTANTS
    Struct = {s1, s2}
    Deletable = {s1}
    Caller = {c1, c2}
    FallbackDelta = 2
    FallbackAfterFailures = 2
    CompactMaxEntries = 1
    CompactMaxBytes = 2
    CaptureAttempts = 2
    MaxFailures = 2
    MaxJournal = 2
INVARIANTS ReceiptsDurable NotPendingMeansStored
PROPERTIES StoredOnlyGrows ImplementsDurableVault EveryCallAnswered
