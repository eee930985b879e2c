SPECIFICATION FairSpec
CONSTANTS
  Workflow = w1
  MaxAttempts = 1
  RestoreAfter = 2
  Intervals <- MCIntervals
  FlatInterval = 3
  MaxDuration = 5
  MaxDeferred = 2
INVARIANTS
  TypeOK
  NoDoubleSubmissionAtFirst
  ScenarioMatchesPrompt
  PollingIsOpen
  ApprovalFormShown
PROPERTIES
  DisplayNeverGoesBack
  ReloadSettles
  BusyEnds
  PollingEnds
