SPECIFICATION FairSpec
CONSTANTS
  Tabs = {1, 2}
  MaxEvents = 2
  MaxFaults = 1
  Window = 2
  MaxQueue = 1
  Slow = {1}
  Abrupt = FALSE
INVARIANTS TypeOK NoHole
PROPERTIES Converges OneLeader
CHECK_DEADLOCK FALSE
