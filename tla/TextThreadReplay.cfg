SPECIFICATION TextSpec
CONSTANTS
    Action = {1, 2}
    Estimate <- MCEstimate
    Cost <- MCCost
    Automated = {2}
    Cap = 2
    AutomationCap = 1
    Prior = {0}
    Inbound <- MCReplayInbound
    Says <- MCStartThenStop
    CrashBound = 1
CONSTRAINT OneMovesOn
PROPERTIES
    ReplayIsNoOp
CHECK_DEADLOCK FALSE
