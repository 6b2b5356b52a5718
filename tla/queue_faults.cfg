SPECIFICATION Spec
CONSTANTS
    Agents = {a1}
    Reporting = {a1}
    Handlers = {h1, h2}
    NoHandler = NoHandler
    Columns <- StatementColumns
    CommandTypes = {"block_account", "kill_process"}
    PollLimit = 1
    ChanCap = 1
    MaxCommands = 2
    MaxRuns = 2
    MaxFaults = 2
INVARIANTS TypeOK ResultIsReal
PROPERTIES HandOutsExplained EveryCommandFinishes
CHECK_DEADLOCK FALSE
