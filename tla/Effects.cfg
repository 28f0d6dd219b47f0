SPECIFICATION Spec
CONSTANTS
  s1 = s1
  s2 = s2
  Sessions <- MCSessions
  Operations <- MCOperations
  Unsupported = "none"
  RiskReviewed <- MCRiskReviewed
  MaxSpent = 3
  MaxReviews = 1
  Crashes = TRUE
SYMMETRY Lanes
CONSTRAINT OwnStory
INVARIANTS
  EffectTypeOK
  OneOwnerPerResource
  DebtHasHeir
  OneShotAuthority
  TurnEndAsks
CHECK_DEADLOCK FALSE
