CONSTANTS
    r1 = r1
    r2 = r2
    g1 = g1
    d1 = d1
    t1 = t1
    t2 = t2
    Request = {r1, r2}
    Grant <- MCGrant
    Draft <- MCDraft
    Title <- MCTitle
    Policy = {p1, p2}
    Proposed = p1
    Slot = {s1, s2}
    None = None
    MaxClaims = 2
    MaxTroubles = 1
    MaxHandoffs = 1
SPECIFICATION CreationSpec
INVARIANTS CreationInv
PROPERTIES OutcomesFinal HandoffSpent
SYMMETRY Symmetric
CHECK_DEADLOCK FALSE
