SPECIFICATION Spec
CONSTANTS
    Evaluators = {p1, p2, p3}
    Keys = {k1}
    Threshold = 2
    Window = 1
    MaxEvents = 4
    MaxTime = 4
    MaxFaults = 2
INVARIANTS AlertEvidence OvershootBound LossExplained
PROPERTY WindowsEnd
CHECK_DEADLOCK FALSE
