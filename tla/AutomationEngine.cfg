SPECIFICATION EngineFairSpec
CONSTANTS
    Event <- MCEvent12
    Mutation = {}
    Consumer = {"automation"}
    Relay = {g1}
    ConsumerOf <- MCConsumerOf
    Batch = 2
    Name <- ChainName
    HumanName <- ChainHuman
    Rule <- ChainRule
    Action <- ChainAction
    TriggerOf <- ChainTrigger
    ActionsOf <- ChainActions
    Conditional = {"onComment"}
    EVENTS_EMITTED_BY <- ChainEmits
    CarriesDepth <- ChainCarries
    MAX_DEPTH = 2
    HOURLY_EXECUTION_BUDGET = 2
    EmitBound = 1
    HumanBound = 1
    FaultBound = 1
INVARIANTS
    ChainsAreCapped
    RunsAreBounded
PROPERTY
    Drains
CHECK_DEADLOCK FALSE
