--------------------------- MODULE WorkflowLifecycle ---------------------------
(***************************************************************************)
(* What the service promises of a workflow, without saying how: a single   *)
(* line of statuses, a bounded number of recovery attempts, at most one    *)
(* outcome and at most one decision on it, and an outcome in the end.      *)
(* There are no processes, copies, versions or clocks here.                *)
(***************************************************************************)
EXTENDS Naturals

CONSTANTS
  Workflows,   \* the workflow identifiers
  MaxAttempts  \* how often recovery may start a workflow over

VARIABLES
  status,    \* the public status of each workflow
  attempts,  \* the recovery attempts each workflow has used
  decision   \* the recorded approval decision of each workflow

vars == <<status, attempts, decision>>

Outcome  == {"WaitingForApproval", "Completed", "Failed"}
Statuses == {"Absent", "Draft", "Recovering", "Rejected"} \cup Outcome

TypeOK ==
  /\ status \in [Workflows -> Statuses]
  /\ attempts \in [Workflows -> 0..MaxAttempts]
  /\ decision \in [Workflows -> {"none", "approve", "reject"}]

Init ==
  /\ status = [w \in Workflows |-> "Absent"]
  /\ attempts = [w \in Workflows |-> 0]
  /\ decision = [w \in Workflows |-> "none"]

Submit(w) ==
  /\ status[w] = "Absent"
  /\ status' = [status EXCEPT ![w] = "Draft"]
  /\ UNCHANGED <<attempts, decision>>

\* The immediate pickup of a new workflow.
PickUp(w) ==
  /\ status[w] = "Draft"
  /\ status' = [status EXCEPT ![w] = "Recovering"]
  /\ UNCHANGED <<attempts, decision>>

\* A recovery attempt, the first or a further one.
Recover(w) ==
  /\ status[w] \in {"Draft", "Recovering"}
  /\ attempts[w] < MaxAttempts
  /\ status' = [status EXCEPT ![w] = "Recovering"]
  /\ attempts' = [attempts EXCEPT ![w] = @ + 1]
  /\ UNCHANGED decision

Finish(w) ==
  /\ status[w] = "Recovering"
  /\ \E s \in Outcome : status' = [status EXCEPT ![w] = s]
  /\ UNCHANGED <<attempts, decision>>

\* The decision on a workflow that waits for one, made once.
Decide(w) ==
  /\ status[w] = "WaitingForApproval"
  /\ \/ /\ status' = [status EXCEPT ![w] = "Completed"]
        /\ decision' = [decision EXCEPT ![w] = "approve"]
     \/ /\ status' = [status EXCEPT ![w] = "Rejected"]
        /\ decision' = [decision EXCEPT ![w] = "reject"]
  /\ UNCHANGED attempts

Next ==
  \E w \in Workflows :
    Submit(w) \/ PickUp(w) \/ Recover(w) \/ Finish(w) \/ Decide(w)

Safety == Init /\ [][Next]_vars

\* A submitted workflow is picked up and brought to an outcome.
Spec ==
  /\ Safety
  /\ \A w \in Workflows :
       /\ WF_vars(PickUp(w) \/ Recover(w))
       /\ WF_vars(Finish(w))
===============================================================================
