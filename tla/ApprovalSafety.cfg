SPECIFICATION Spec
CONSTANTS
  Workflows = {w1}
  Requests = {a1, a2, a3}
  NoWorkflow = none
SYMMETRY Symmetry
INVARIANTS
  TypeOK
  DecisionRecordsAgree
  AnswersAreTrue
PROPERTIES
  DecisionIsFinal
  ImplementsLifecycle
