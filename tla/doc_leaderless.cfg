SPECIFICATION FairSpec
CONSTANTS
  Tabs = {1, 2}
  MaxEvents = 0
  MaxFaults = 0
  Window = 2
  MaxQueue = 1
  Slow = {1}
  Abrupt = TRUE
PROPERTY OneLeader
CHECK_DEADLOCK FALSE
