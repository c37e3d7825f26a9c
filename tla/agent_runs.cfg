SPECIFICATION FairSpec
CONSTANTS
  Workers = {w1}
  Reconcilers = {r1}
  Cancellers = {c1}
  MaxAttempts = 2
  None = None
INVARIANTS TypeOK WriteMarked WritesOnce
PROPERTIES EndedForGood LetGo
CHECK_DEADLOCK FALSE
