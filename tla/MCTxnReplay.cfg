SPECIFICATION ReplaySpec
CONSTANTS
  NRanges = 2
  Home = 1
  Coord = coord
  Recoverers = {}
  Nobody = nobody
  MaxCT = 1
  MaxEpoch = 1
  MaxHomeLog = 1
  MaxLog = 1
INVARIANT CommitHasEveryWrite
CHECK_DEADLOCK FALSE
