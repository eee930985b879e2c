SPECIFICATION Spec
CONSTANTS
  Workflows = {w1}
  Workers = {k1}
  Triggers = {}
  MaxAttempts = 5
  StaleAfter = 4
  ScanInterval = 1
  BackoffBase = 1
  BackoffMax = 30
  NoWorkflow = none
INVARIANTS
  CrashedWorkIsReclaimable
