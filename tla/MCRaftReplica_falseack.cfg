SPECIFICATION AllSpec
CONSTANTS
  n1 = n1
  n2 = n2
  n3 = n3
  Nodes = {n1, n2, n3}
  None = none
  Commands = {x}
  NoCommand = nocommand
  InitialConfig <- Three
  Targets = {}
  Campaigning = {n1, n2}
  Barriers = {n2}
  Crashing = {}
  Compacting = {}
  Transferring = {}
  MaxTerm = 2
  MaxLog = 2
  MaxNet = 1
  MaxWaiters = 1
INVARIANT SuccessIsCommitted
CHECK_DEADLOCK FALSE
