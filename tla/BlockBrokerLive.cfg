SPECIFICATION LiveSpec
CONSTANTS
    ra = ra
    rb = rb
    rg = rg
    mine = mine
    theirs = theirs
    None = None
    Accounts = {mine}
    Receiver = mine
    Readers = {ra, rb}
    Calls = {c1, c2}
    Buffers = {b1}
    FirstBlock <- MCFirst
    LastBlock <- MCShortLast
    BlockLength <- MCLength
    AccountLimit <- MCLimits
    ProcessLimit = 4
    MaxConcurrentBlocks = 2
    MaximumSupplements = 0
    MaxDemandAttempts = 1
    MaxInvalidations = 0
    MaxOther = 0
    Events = {"stop", "cancel"}
PROPERTIES
    ReadsEnd
    StopCloses
CHECK_DEADLOCK FALSE
