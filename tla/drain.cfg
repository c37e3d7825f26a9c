SPECIFICATION FairSpec
CONSTANTS
  Sandboxes = {1}
  Turns = {t1}
  None = None
  StartRetries = 0
  ProvisionRetries = 1
  PublishRetries = 1
  OnPRBranch = FALSE
  Reconcilers = {r1}
  Handlers = {h1}
  Ops = {"archive", "faults", "fail"}
  MaxInbox = 2
PROPERTY DoneDrains
CHECK_DEADLOCK FALSE
