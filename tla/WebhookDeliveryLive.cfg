SPECIFICATION FairSpec
CONSTANTS
    h1 = h1
    w1 = w1
    w2 = w2
    Webhook = {h1}
    Delivery <- MCDelivery2
    HookOf <- MCHookOf2
    Worker = {w1}
    MAX_ATTEMPTS = 2
    DISABLE_AFTER_FAILURES = 1
    Batch = 2
    CrashBound = 1
PROPERTIES
    EventuallySettled
    EventuallyDisabled
CHECK_DEADLOCK FALSE
