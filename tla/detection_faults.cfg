SPECIFICATION Spec
CONSTANTS
  p = p
  q = q
  Evals = {p, q}
  Rules = {"failure", "linux", "anything", "lockout"}
  RuleOf <- MCRuleOf
  Feed <- MCFeed
  Configured = {"email"}
  MaxLogs = 1
  MaxFaults = 1
  MaxReloads = 1
  Lower <- MCLower
  Contains <- MCContains
  StartsWith <- MCStartsWith
  EndsWith <- MCStartsWith
  Matches <- MCMatches
  Number <- MCNumber
  Address <- MCNumber
  Network <- MCNumber
  NoNumber = "none"
  NoAddress = "none"
  NoNetwork = "none"
INVARIANTS
  VerdictsAgree
  ResponseTruth
  BlameExplained
PROPERTY
  DetectionResumes
CHECK_DEADLOCK FALSE
