CONSTANTS
    a1 = a1
    a2 = a2
    r1 = r1
    r2 = r2
    q1 = q1
    p1 = p1
    Actor = {a1, a2}
    Bundle = {r1, r2, q1, p1}
    Author <- MCAuthor
    Event <- MCEvent
    Entry = {e1}
    Eval = {v1}
    Finish = {f1}
    Slot = {s1, s2}
    MaxBundles = 3
    Limit = 3
    MaxBinding = 2
SPECIFICATION Spec
INVARIANTS RunInv ConflictsRecorded AccountsExact
PROPERTIES SoloConsentStands
SYMMETRY Symmetric
CHECK_DEADLOCK FALSE
