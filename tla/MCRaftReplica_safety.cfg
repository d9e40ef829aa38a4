SPECIFICATION MCSpec
CONSTANTS
  n1 = n1
  n2 = n2
  n3 = n3
  Nodes = {n1, n2, n3}
  None = none
  Commands = {x}
  NoCommand = nocommand
  InitialConfig <- Three
  Targets <- Growth
  Campaigning = {n1, n2, n3}
  Barriers = {n1, n2}
  Crashing = {n1, n2}
  Compacting = {n3}
  Transferring = {n3}
  MaxTerm = 3
  MaxLog = 3
  MaxNet = 2
  MaxWaiters = 1
SYMMETRY Symmetry
INVARIANTS
  RaftSafety
  ConfigurationIsApplied
  WaitersFollowTheLog
  LeaderSuccessIsFinal
PROPERTY
  NothingIsTakenBack
CHECK_DEADLOCK FALSE
