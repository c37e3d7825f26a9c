SPECIFICATION Spec
CONSTANTS
  Sandboxes = {1, 2}
  Turns = {t1}
  None = None
  StartRetries = 1
  ProvisionRetries = 0
  PublishRetries = 0
  OnPRBranch = FALSE
  Reconcilers = {r1}
  Handlers = {h1}
  Ops = {"stop", "kill", "crash"}
  MaxInbox = 3
INVARIANTS TypeOK Coherent SandboxNamed  OneSandbox
PROPERTY StopKept
CHECK_DEADLOCK FALSE
