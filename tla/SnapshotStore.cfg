SPECIFICATION SnapshotSpec
SYMMETRY MCSymmetry
CONSTANTS
    c1 = c1
    c2 = c2
    n1 = n1
    n2 = n2
    r1 = r1
    r2_ = r2_
    none = none
    None <- none
    Slot <- MCSlot
    Content <- MCContent
    Recipient <- MCRecipient
    Before <- MCBefore
    Frail <- MCFrail
    KeepReady = 2
    MaxSnapshots = 4
    MaxObjects = 4
    MaxDays = 1
    MaxTroubles = 1
    MaxCalls = 4
    MaxChoices = 1
INVARIANTS SnapshotInv NamedKept
PROPERTIES
    KnownGoodKept
CHECK_DEADLOCK FALSE
