SPECIFICATION ReelectedSpec
CONSTANTS
  n1 = n1
  n2 = n2
  n3 = n3
  n4 = n4
  Nodes = {n1, n2, n3, n4}
  None = none
  Commands = {}
  NoCommand = nocommand
  InitialConfig <- Learning
  Targets = {}
  Campaigning = {n1, n3}
  Barriers = {}
  Crashing = {}
  Compacting = {}
  Transferring = {}
  MaxTerm = 3
  MaxLog = 5
  MaxNet = 1
INVARIANT ElectionSafety
CHECK_DEADLOCK FALSE
