SPECIFICATION FairSpec
CONSTANTS
  NRanges = 1
  Home = 1
  Coord = coord
  Recoverers = {rv1}
  Nobody = nobody
  MaxCT = 1
  MaxEpoch = 2
  MaxHomeLog = 2
  MaxLog = 1
PROPERTY RecoveryFinishes
CHECK_DEADLOCK FALSE
