SPECIFICATION Spec
CONSTANTS
    Base = 3
    Lowest <- MCLowest
    Highest = 0
    todo = todo
    doing = doing
    Card = {1, 2, 3, 4}
    Lists = {todo, doing}
    Boards <- MCBoards
    Mover = {m1, m2}
    MoveBound = 3
SYMMETRY Symmetry
INVARIANT
    TiesNeedOverlap
PROPERTIES
    LandsWhereDropped
    OnlyCrossingRepairsFail
CHECK_DEADLOCK FALSE
