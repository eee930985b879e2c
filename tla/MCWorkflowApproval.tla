--------------------------- MODULE MCWorkflowApproval ---------------------------
(* Instances of WorkflowApproval for TLC.                                   *)
EXTENDS WorkflowApproval, TLC

\* Requests differ in nothing but what they ask for.
Symmetry == Permutations(Requests)
===============================================================================
