SPECIFICATION FairSpec
CONSTANTS
    s1 = s1
    s2 = s2
    Sessions = {s1, s2}
    None = None
    MaxFlows = 2
    MinEnvelope = 1
    MaxEnvelope = 2
    Total <- MCTotal
    StartupReserve <- MCStartupReserve
    StartupGrant <- MCStartupGrant
    SettlementTimeout = 1
    Capacities <- MCCapacities
    Credits <- MCCredits
    MaxCount = 4
    MaxTime = 2
INVARIANTS
    UsageIsSum
    PoolsRespected
    NextExpirationExact
    QueueCharged
    CheckpointRestorable
    LoneFlowRefillable
PROPERTIES
    RetirementIsFinal
    DirtyFlagComplete
    RetiredFlowsEnd
