SPECIFICATION Spec
CONSTANTS
    Rules = {r1, r2}
    Handlers = {h1, h2}
    Boot = boot
    EarlyRequests = TRUE
    NoEntry = NoEntry
    MaxChanges = 2
    MaxFaults = 1
SYMMETRY LoaderSymmetry
INVARIANTS TypeOK OneSnapshot Repaired
PROPERTY Implements
CHECK_DEADLOCK FALSE
