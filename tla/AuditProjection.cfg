SPECIFICATION FairSpec
CONSTANTS
    audit = audit
    p1 = p1
    p2 = p2
    Event <- MCEvent5
    Mutation <- MCMutation
    Consumer = {audit}
    Relay = {p1, p2}
    ConsumerOf <- MCConsumerOfAudit
    Batch = 2
    Org <- MCOrg
    OrgOf <- MCOrgOf
    NeverAudited = {5}
    CrashBound = 1
INVARIANTS
    RecordedIffDispatched
    ChainIntact
    WaitsClimb
PROPERTIES
    RecordKept
    EventuallyRecorded
