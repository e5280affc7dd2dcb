SPECIFICATION FairSpec
CONSTANTS
    realtime = realtime
    automation = automation
    r1 = r1
    r2 = r2
    r3 = r3
    Event <- MCEvent2
    Mutation <- MCMutation
    Consumer = {realtime, automation}
    Relay <- MCRelayThree
    ConsumerOf <- MCConsumerOfThree
    Batch = 2
    Poison = {1}
    FailBound = 1
    CrashBound <- MCCrashFirst
INVARIANTS
    NothingMarkedUnsent
    SendsBounded
PROPERTIES
    EventuallyDispatched
