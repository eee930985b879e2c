SPECIFICATION Spec
CONSTANTS
  Workflows = {w1}
  Requests = {a1, a2}
  NoWorkflow = none
INVARIANTS
  RepetitionIsIdempotent
