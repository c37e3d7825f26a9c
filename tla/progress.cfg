SPECIFICATION PassSpec
CONSTANTS
  Sandboxes = {1}
  Turns = {t1}
  None = None
  StartRetries = 1
  ProvisionRetries = 1
  PublishRetries = 1
  OnPRBranch = FALSE
  Reconcilers = {r1}
  Handlers = {h1}
  Ops = {"stop", "kill", "push"}
  MaxInbox = 2
PROPERTIES NeverStuck StopEnds
CHECK_DEADLOCK FALSE
