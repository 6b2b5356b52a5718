SPECIFICATION PageSpec
CONSTANTS
  Limit = 1
  MaxAlerts = 2
  Handled = {2}
  Closed = {"resolved"}
  Capacity = 1
  MaxGets = 2
  MaxUpdates = 2
  MaxFailures = 1
INVARIANT
  MissedExplained
PROPERTIES
  ResolutionExplained
  PageCatchesUp
