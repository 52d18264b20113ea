SPECIFICATION Spec
CONSTANTS
    ra = ra
    rb = rb
    rg = rg
    mine = mine
    theirs = theirs
    None = None
    Accounts = {mine}
    Receiver = mine
    Readers = {ra, rb}
    Calls = {c1, c2}
    Buffers = {b1}
    FirstBlock <- MCFirst
    LastBlock <- MCShortLast
    BlockLength <- MCLength
    AccountLimit <- MCLimits
    ProcessLimit = 3
    MaxConcurrentBlocks = 2
    MaximumSupplements = 0
    MaxDemandAttempts = 1
    MaxInvalidations = 1
    MaxOther = 0
    Events = {"stop", "cancel"}
INVARIANTS
    CloseLeavesNothing
SYMMETRY Symmetry
CHECK_DEADLOCK FALSE
