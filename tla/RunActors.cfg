CONSTANTS
    Actor = {a1, a2, a3}
    Slot = {s1, s2}
    MaxActive = 2
    MaxRecords = 3
    MaxBatch = 2
    MinActors = 2
SPECIFICATION Spec
INVARIANTS ActorsInv NoCapacityLost
PROPERTIES NeverRevived
SYMMETRY Symmetric
CHECK_DEADLOCK FALSE
