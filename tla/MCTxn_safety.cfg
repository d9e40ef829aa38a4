SPECIFICATION Spec
CONSTANTS
  NRanges = 2
  Home = 1
  Coord = coord
  Recoverers = {rv1}
  Nobody = nobody
  MaxCT = 1
  MaxEpoch = 2
  MaxHomeLog = 1
  MaxLog = 1
INVARIANTS
  CommitHasEveryWrite
  ResolutionFollowsRecord
  CommittedAnswerIsDurable
PROPERTY
  ImplementsAtomicCommit
CHECK_DEADLOCK FALSE
