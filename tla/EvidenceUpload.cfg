SPECIFICATION FairSpec
CONSTANTS
  Workflows = {w1}
  MaxAttempts = 1
  Contents = {c1, c2, c3}
  MaximumFiles = 2
  Uploads = {u1, u2}
  NoWorkflow = none
INVARIANTS
  TypeOK
  NoDuplicateContent
  StoredInFull
  SerialUploadsKeepLimit
PROPERTIES
  TriggerWaitsForEvidence
  AnnouncedEvidenceDoesNotBlock
CHECK_DEADLOCK FALSE
