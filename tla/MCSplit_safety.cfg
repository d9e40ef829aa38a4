SPECIFICATION MCSpec
CONSTANTS
  n1 = n1
  m1 = m1
  m2 = m2
  Top = 2
  Nodes = {n1}
  RF = 1
  Indexes = {1, 2}
  Bootstrap <- OneRange
  FirstRange = 2
  FirstReplica = 2
  Parent = 1
  SplitKey = 1
  TxnKey = 0
  RangeIds = {1, 2, 3}
  Managers = {m1, m2}
  Budgets <- Scenarios
  MaxTime = 6
SYMMETRY ManagerSymmetry
CHECK_DEADLOCK FALSE
INVARIANTS
  AcknowledgedWritesSurvive
  PartitionIsExact
  
  CatalogIsValid
PROPERTY AckedTimestampsGrow
