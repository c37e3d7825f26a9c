SPECIFICATION FairSpec
CONSTANTS
  Events = {1, 2, 3}
  Thoughts = {1}
  Ephemeral = {2}
  Own = {3}
  MaxBytes = 2
  BatchSize = 2
  MaxPerRequest = 2
  Turns = {1, 2}
  Handlers = {h1, h2}
  Nobody = Nobody
  Patching = {2}
  MaxFaults = 1
INVARIANTS TypeOK Scheduled LossExplained AtMostOnce  Bounded
PROPERTIES DeliveryKept Drains
CHECK_DEADLOCK FALSE
