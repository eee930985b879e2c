SPECIFICATION Spec
CONSTANTS
  Workflows = {w1}
  Workers = {k1, k2}
  Triggers = {t1}
  MaxAttempts = 1
  StaleAfter = 1
  ScanInterval = 1
  BackoffBase = 1
  BackoffMax = 2
  NoWorkflow = none
SYMMETRY Symmetry
INVARIANTS
  Fence
  ExecutionsDoNotInterleave
  OutcomeMatchesLog
  ClaimsAreAccounted
PROPERTIES
  NoEarlyReclaim
  HistoryIsAppendOnly
  OutcomeIsFinal
  ImplementsLifecycle
