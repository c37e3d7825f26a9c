SPECIFICATION Spec
CONSTANTS
  Sandboxes = {1}
  Turns = {t1, t2}
  None = None
  StartRetries = 0
  ProvisionRetries = 0
  PublishRetries = 0
  OnPRBranch = FALSE
  Reconcilers = {r1}
  Handlers = {h1, h2}
  Ops = {"prompt", "push", "lost", "turnError"}
  MaxInbox = 2
SYMMETRY Symmetry
INVARIANTS CurrentTurnDelivered NoTurnReopened RunnerOnCurrentTurn
CHECK_DEADLOCK FALSE
