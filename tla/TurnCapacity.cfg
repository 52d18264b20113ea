SPECIFICATION Spec
CONSTANTS
    c1 = c1
    c2 = c2
    c3 = c3
    c4 = c4
    c5 = c5
    Calls = {c1, c2, c3, c4, c5}
    sender = sender
    receiver = receiver
    None = None
    Requests <- MCRequests
    MaximumConnections = 2
    MaximumSockets = 3
    MaximumPathSockets = 2
    MaximumHandoffEndpoints = 2
    MaximumQueuedRequests = 2
SYMMETRY Symmetry
CHECK_DEADLOCK FALSE
INVARIANTS
    Accounted
    OneHandoff
    NoLostGrant
