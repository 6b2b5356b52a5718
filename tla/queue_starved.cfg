SPECIFICATION Spec
CONSTANTS
    Agents = {a1}
    Reporting = {a1}
    Handlers = {h1}
    NoHandler = NoHandler
    Columns <- MigrationColumns
    CommandTypes = {"block_account"}
    PollLimit = 2
    ChanCap = 1
    MaxCommands = 3
    MaxRuns = 1
    MaxFaults = 0
PROPERTY EveryCommandRuns
CHECK_DEADLOCK FALSE
