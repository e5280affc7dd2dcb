SPECIFICATION Spec
CONSTANTS
    h1 = h1
    w1 = w1
    w2 = w2
    Webhook = {h1}
    Delivery <- MCDelivery2
    HookOf <- MCHookOf2
    Worker = {w1, w2}
    MAX_ATTEMPTS = 2
    DISABLE_AFTER_FAILURES = 2
    Batch = 1
    CrashBound = 1
SYMMETRY Symmetric
INVARIANTS
    AttemptsAreMadeOnce
    ChargedOnce
    NoEarlyDeath
CHECK_DEADLOCK FALSE
