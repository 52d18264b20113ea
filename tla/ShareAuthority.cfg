SPECIFICATION Spec
CONSTANTS
    c1 = c1
    c2 = c2
    c3 = c3
    Connections = {c1, c2, c3}
    r1 = r1
    r2 = r2
    Registrations = {r1, r2}
    s1 = s1
    s2 = s2
    StopIds = {s1, s2}
    NoConnection = NoConnection
    Handshake = 1
    SenderGrace = 1
    MaxTime = 2
    MaxRestarts = 1
SYMMETRY Symmetry
CHECK_DEADLOCK FALSE
INVARIANTS
    StoredIsCurrent
    OneOwner
    StopFences
    QueueEndsInState
PROPERTIES
    ImplementsRegister
