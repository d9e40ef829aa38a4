CONSTANTS
  Keys = {1, 2}
  NoOp = NoOp
  Modes = {"standalone", "replicated"}
  Writer = w
  Flushers = {f}
  Readers = {r}
  Nobody = Nobody
  MemTableSize = 2
  MaxImmutables = 1
  L0Trigger = 1
  CacheCapacity = 1
  MaxSeq = 3
  MaxFile = 3
  MaxFaults = 0
  WalShapes <- Shapes
SPECIFICATION MCSpec
INVARIANT NoSpuriousDuplicate
CHECK_DEADLOCK FALSE
