--------------------------- MODULE MCWorkflowEvidence ---------------------------
(* Instances of WorkflowEvidence for TLC: their constants are model values.  *)
EXTENDS WorkflowEvidence
===============================================================================
