SPECIFICATION MCSpec
CONSTANTS
  Top = 1
  Nodes = {1, 2, 3, 4}
  RF = 3
  Indexes = {0, 1, 2, 3, 4, 5, 6, 7, 8, 9, 10}
  Bootstrap <- ThreeReplicas
  FirstRange = 2
  FirstReplica = 4
  Range = 1
  ReplicaIds = {1, 2, 3, 4, 5}
  Moves <- BothMoves
  Managers = {m1, m2}
  Budgets <- Scenarios
CHECK_DEADLOCK FALSE
INVARIANTS
  VoterHasTheBarrier
  PublishedMatchesGroup
  
  
PROPERTIES
  CommittedEntriesStay
  
  
