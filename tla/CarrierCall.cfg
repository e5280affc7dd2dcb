SPECIFICATION Spec
CONSTANTS
    Action = {1, 2}
    Estimate <- MCCost
    Cost <- MCCost
    Automated = {2}
    Cap = 2
    AutomationCap = 1
    Prior = {0, 1, 3}
    Recorded = {1}
    MustAnnounce = {1}
    w1 = w1
    w2 = w2
    Sweeper = {w1, w2}
    BATCH = 5
    MAX_ATTEMPTS = 2
    CrashBound = 1
CONSTRAINT OneMovesOn
SYMMETRY Symmetric
INVARIANTS
    OverspendIsOverlap
    LedgerFollowsCarrier
    RowFollowsCarrier
    StrandedNeedsDeath
PROPERTIES
    StoredIsKept
CHECK_DEADLOCK FALSE
