SPECIFICATION Spec
SYMMETRY MCSymmetry
CONSTANTS
    Client = {c1}
    Slot = {s1, s2}
    Submission = {m1}
    Owner = owner
    Action = {"share", "accept", "quarantine"}
    MaxAgents = 3
    MaxGrants = 3
    MaxEpoch = 2
    MaxPackets = 3
    MaxVersions = 4
    MaxRows = 3
    MaxBodies = 3
    MaxTurns = 2
    MaxCalls = 3
    MaxLost = 1
INVARIANTS CollaborationInv SubmittedOnce AuthorityEnds SharedByOwner
PROPERTY RevocationFinal
CHECK_DEADLOCK FALSE
