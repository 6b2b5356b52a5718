SPECIFICATION Spec
CONSTANTS
    Evaluators = {p1, p2}
    Keys = {k1}
    Operators = {"sum", "max", "avg", "distinct_count"}
    Values = {1, 2}
    NoValue = NoValue
    Limit = 2
    Window = 1
    MaxEvents = 3
    MaxTime = 4
    MaxFaults = 1
INVARIANTS TypeOK ThresholdEvidence LostUpdateExplained
CHECK_DEADLOCK FALSE
