SPECIFICATION MCSpec
CONSTANTS
  Top = 7
  Nodes = {1, 2, 3}
  RF = 2
  Indexes = {0, 1}
  Bootstrap <- ThreeRanges
  FirstRange = 4
  FirstReplica = 7
  Controllers = {1, 2}
  RateScale = 120
  RangeIds = {1, 2, 3, 4, 5, 6, 7, 8, 9}
  Scenarios <- SomeScenarios
CHECK_DEADLOCK FALSE
INVARIANTS
  HistoryFollowsOperations
  WithinLimits
  PlanIsValid
  
  Settles
PROPERTIES
  CooldownHonoured
  ActionEnds
