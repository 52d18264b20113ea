SPECIFICATION Spec
CONSTANTS
    c1 = c1
    c2 = c2
    Connections = {c1, c2}
    r1 = r1
    Registrations = {r1}
    s1 = s1
    StopIds = {s1}
    NoConnection = NoConnection
    Handshake = 1
    SenderGrace = 2
    MaxTime = 4
    MaxRestarts = 0
CHECK_DEADLOCK FALSE
INVARIANTS
    LapseLeavesNoRow
