SPECIFICATION FairSpec
CONSTANTS
  Workflows = {w1, w2}
  Workers = {k1}
  Triggers = {}
  MaxAttempts = 2
  StaleAfter = 1
  ScanInterval = 1
  BackoffBase = 2
  BackoffMax = 3
  NoWorkflow = none
INVARIANTS
  TypeOK
PROPERTIES
  EveryWorkflowResolves
  FulfilsLifecycle
