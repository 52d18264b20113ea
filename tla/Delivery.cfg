SPECIFICATION Spec
CONSTANTS
    NSessions = 2
    MaxSessions = 2
    Capacity <- MCOne
    MinEnvelope = 1
    MaxEnvelope = 1
    MaxCount = 2
    None = None
    MaxFlows = 1
    Total <- MCThree
    StartupReserve <- MCOne
    StartupGrant <- MCOne
    SettlementTimeout = 1
    Credits <- MCCredits
    MaxTime = 1
    MaxNotices = 1
    Events = {"failure", "close"}
CHECK_DEADLOCK FALSE
INVARIANTS
    NeitherRefuses
    Conserved
    UsageExact
    SettlementCarried
    ClosedWorkersEnd
