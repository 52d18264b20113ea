SPECIFICATION Spec
CONSTANTS
    ra = ra
    rb = rb
    rg = rg
    mine = mine
    theirs = theirs
    None = None
    Accounts = {mine, theirs}
    Receiver = mine
    Readers = {ra, rb, rg}
    Calls = {c1, c2, c3}
    Buffers = {b1}
    FirstBlock <- MCWholeFirst
    LastBlock <- MCWholeLast
    BlockLength <- MCLength
    AccountLimit <- MCLimits
    ProcessLimit = 5
    MaxConcurrentBlocks = 3
    MaximumSupplements = 0
    MaxDemandAttempts = 1
    MaxInvalidations = 0
    MaxOther = 0
    Events = {}
INVARIANTS
    NotWedged
CONSTRAINT Schedule
SYMMETRY Symmetry
CHECK_DEADLOCK FALSE
