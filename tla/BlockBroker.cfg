SPECIFICATION Spec
CONSTANTS
    ra = ra
    rb = rb
    rg = rg
    mine = mine
    theirs = theirs
    None = None
    Accounts = {mine, theirs}
    Receiver = mine
    Readers = {ra, rb}
    Calls = {c1, c2, c3}
    Buffers = {b1}
    FirstBlock <- MCFirst
    LastBlock <- MCLast
    BlockLength <- MCLength
    AccountLimit <- MCLimits
    ProcessLimit = 4
    MaxConcurrentBlocks = 2
    MaximumSupplements = 1
    MaxDemandAttempts = 2
    MaxInvalidations = 0
    MaxOther = 1
    Events = {"fetch", "sink"}
INVARIANTS
    IndexFollowsCache
    AdmittedInOrder
    NoLostWakeup
    RangeNeverStarves
    ChargedToOwners
SYMMETRY Symmetry
CHECK_DEADLOCK FALSE
