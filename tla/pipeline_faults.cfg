SPECIFICATION Spec
CONSTANTS
    Collectors = {c1, c2}
    ChanCap = 1
    OutCap = 1
    BatchSize = 2
    ServerBatch = 2
    NoLine = NoLine
    MaxLines = 2
    MaxFaults = 2
INVARIANTS TypeOK OrderKept AnswersExplained
PROPERTY LinesSettle
CHECK_DEADLOCK FALSE
