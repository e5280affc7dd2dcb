SPECIFICATION MCSpec
CONSTANTS
    pro = pro
    s1 = s1
    business = business
    Paid = {pro, business}
    Price <- MCPrice
    Trial = trial
    Default = free
    Sub = {s1, s2}
    Caller = {c1}
    Handler = {h1, h2}
    None = None
    EventBound = 3
    RequestBound = 2
INVARIANTS
    NothingIsInvented
    AgreesWithProcessor
PROPERTIES
    PurchaseIsKept
    GraceIsHonoured
    DeadlinesAreMet
CHECK_DEADLOCK FALSE
