SPECIFICATION Spec
CONSTANTS
  MaxAttempts = 3
  AttemptTimeout = 4
  BaseDelay = 1
CHECK_DEADLOCK FALSE
INVARIANTS
  TypeOK
  GuardrailHolds
  OnlyAgentsFailRuns
  WithinBudget
