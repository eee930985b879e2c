-------------------------- MODULE MCWorkflowExecution --------------------------
(* Instances of WorkflowExecution for TLC.                                  *)
EXTENDS WorkflowExecution, TLC

\* Workers and trigger tasks are interchangeable in the safety properties.
Symmetry == Permutations(Workers) \cup Permutations(Triggers)
===============================================================================
