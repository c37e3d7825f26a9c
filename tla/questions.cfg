SPECIFICATION Spec
CONSTANTS
  Sandboxes = {1}
  Turns = {t1, t2, t3}
  None = None
  StartRetries = 0
  ProvisionRetries = 0
  PublishRetries = 0
  OnPRBranch = FALSE
  Reconcilers = {r1}
  Handlers = {h1}
  Ops = {"elicit", "prompt", "scope", "readOnly", "push", "lost"}
  MaxInbox = 3
SYMMETRY Symmetry
PROPERTIES DeliveredInOrder CompletionOfCurrent
CHECK_DEADLOCK FALSE
