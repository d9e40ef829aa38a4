SPECIFICATION LedSpec
CONSTANTS
  n1 = n1
  n2 = n2
  n3 = n3
  n4 = n4
  Nodes = {n1, n2, n3, n4}
  None = none
  Commands = {}
  NoCommand = nocommand
  InitialConfig <- Learning
  Targets <- Migration
  Campaigning = {n1, n4}
  Barriers = {}
  Crashing = {}
  Compacting = {}
  Transferring = {n3}
  MaxTerm = 2
  MaxLog = 4
  MaxNet = 1
INVARIANT RaftSafety
CHECK_DEADLOCK FALSE
