SPECIFICATION Spec
CONSTANTS
  s1 = s1
  s2 = s2
  Sessions <- MCSessions
  Operations <- MCOperations
  Unsupported = "none"
  RiskReviewed <- MCRiskReviewed
  MaxSpent = 2
  MaxReviews = 0
  Crashes = FALSE
SYMMETRY Lanes
INVARIANTS
  LogReadable
CHECK_DEADLOCK FALSE
