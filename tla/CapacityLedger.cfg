SPECIFICATION Spec
CONSTANTS
    process = process
    session = session
    scope = scope
    Ledgers = {process, session, scope}
    MaxHolds = 2
    Limits = {2, 3}
    Units = {0, 1, 2}
    MaxGeneration = 1
SYMMETRY Symmetry
INVARIANTS
    ChargedExactly
    WithinLimits
    LiveIsOwned
PROPERTIES
    VoidCopiesStayVoid
    ClosedOnlyDrains
