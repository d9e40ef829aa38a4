CONSTANTS
  Keys = {1, 2}
  NoOp = NoOp
  Modes = {"standalone", "replicated"}
  Writer = w
  Flushers = {f}
  Readers = {r, r2}
  Nobody = Nobody
  MemTableSize = 2
  MaxImmutables = 1
  L0Trigger = 1
  CacheCapacity = 1
  MaxSeq = 3
  MaxFile = 3
  MaxFaults = 1
  WalShapes <- Shapes
SPECIFICATION MCSpec
INVARIANTS TypeOK TablesAreThePrefix ReadsAreRight NoFileInUseIsGone CacheIsStrict NoLostWakeup NoFrontierGap WalSurvivesCrash
PROPERTIES NumbersAreFresh ImplementsDurableStore
CHECK_DEADLOCK FALSE
