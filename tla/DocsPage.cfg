SPECIFICATION Spec
CONSTANTS
    u1 = u1
    bad = bad
    r1 = r1
    Update = {u1, bad}
    Disallowed = {bad}
    Request = {r1}
    TicksPerMs = 2
    FaultBound = 1
INVARIANTS
    LossNeedsOverlap
    SaveIsFaithful
    AutosavesGrow
CHECK_DEADLOCK FALSE
