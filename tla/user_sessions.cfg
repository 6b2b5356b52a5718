SPECIFICATION SessionsSpec
CONSTANTS
  Tabs = {"first", "second"}
  Browsers = {"A", "B"}
  Layouts <- MCLayouts
  Names = {"ann", "bob"}
  Roles = {"admin", "viewer"}
  MaxFailedLists = 1
PROPERTIES
  AdminsExplained
  SessionLossExplained
  AccessEnds
