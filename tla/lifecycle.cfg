SPECIFICATION LifecycleSpec
CONSTANTS
  Agents = {"host"}
  Loops = {"agents", "states", "tokens"}
INVARIANTS
  TeardownExplained
  StatusTrue
PROPERTIES
  Settles
