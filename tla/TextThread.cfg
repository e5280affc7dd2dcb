SPECIFICATION TextSpec
CONSTANTS
    Action = {1, 2}
    Estimate <- MCEstimate
    Cost <- MCCost
    Automated = {2}
    Cap = 2
    AutomationCap = 1
    Prior = {0, 1}
    Inbound <- MCInbound
    Says <- MCSays
    CrashBound = 1
CONSTRAINT OneMovesOn
INVARIANTS
    OptOutStands
    UnreadNeedsOverlap
    ThreadFollowsCarrier
CHECK_DEADLOCK FALSE
