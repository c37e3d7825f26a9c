SPECIFICATION Spec
CONSTANTS
  Sandboxes = {1}
  Turns = {t1, t2}
  None = None
  StartRetries = 0
  ProvisionRetries = 1
  PublishRetries = 1
  OnPRBranch = FALSE
  Reconcilers = {r1}
  Handlers = {h1}
  Ops = {"restart", "startOver", "fail", "approve", "select", "archive", "prompt", "snapshot", "createPR", "push", "webhook"}
  MaxInbox = 1
SYMMETRY Symmetry
INVARIANTS QueuedClean Coherent
PROPERTY EndedForGood
CHECK_DEADLOCK FALSE
