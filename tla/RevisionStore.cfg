CONSTANTS
    f1 = f1
    f2 = f2
    a = a
    b = b
    t1 = t1
    t2 = t2
    None = None
    Files <- MCFiles
    Stores <- MCStores
    StoreOf <- MCStoreOf
    HandleBound <- MCBound
    Calls <- MCCalls
    Ids <- MCIds
    MaxAdmissions = 2
    ProcessLimit = 1
    ShareLimit = 1
    LeaseTTL = 1
    LeaseRenewWindow = 1
    MaxLeaseLifetime = 2
    RevisionResumeGrace = 1
    MaxTime = 2
    Events = {"mismatch", "panic", "unavailable", "close"}
SPECIFICATION Spec
INVARIANT SourceHeld
INVARIANT HandlesBounded
INVARIANT HandleUsageExact
SYMMETRY Symmetry
CHECK_DEADLOCK FALSE
