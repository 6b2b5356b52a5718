SPECIFICATION Spec
CONSTANTS
    Evaluators = {p1, p2}
    Keys = {k1}
    LastStep = 2
    Window = 1
    Matches <- OneStepEach
    InitKind = "sequence"
    MaxRetypes = 2
    MaxEvents = 4
    MaxTime = 4
    MaxFaults = 1
INVARIANTS TypeOK SequenceEvidence SerialAlerts
PROPERTY PoisonEnds
CHECK_DEADLOCK FALSE
