---------------------------- MODULE WorkflowApproval ----------------------------
(***************************************************************************)
(* How concurrent approval requests record one decision on a workflow.     *)
(*                                                                         *)
(* A request reads the workflow, looks for a recorded decision, compares   *)
(* versions, counts events, and writes the transition, the decision, the   *)
(* event, the action and the support case in one transaction; then it      *)
(* reads the workflow again for its answer.  All of them are round trips   *)
(* to the database, and other requests run in between.                     *)
(*                                                                         *)
(* What executes the workflow up to its outcome is WorkflowExecution; here *)
(* it is reduced to the three steps of WorkflowLifecycle it implements.    *)
(***************************************************************************)
EXTENDS Naturals, Sequences, FiniteSets

CONSTANTS
  Workflows,   \* the workflow identifiers
  Requests,    \* the concurrent approval requests, each with a scope of its own
  NoWorkflow   \* what an idle request is about

ASSUME WorkflowAssumption == NoWorkflow \notin Workflows

VARIABLES
  row,        \* the workflows and workflow_events tables
  disputes,   \* the workflows whose message WorkflowRoutingPolicy calls a dispute
  decisions,  \* the approval_decisions table, per workflow in insertion order
  cases,      \* the support_cases and action_executions rows, per workflow
  req         \* what each request holds in memory, and its answer

vars == <<row, disputes, decisions, cases, req>>

-------------------------------------------------------------------------------
Decision == {"approve", "reject"}

\* WorkflowStatus also has Approved, which nothing stores: a decision ends the
\* workflow at once.
Outcome  == {"WaitingForApproval", "Completed", "Failed"}
Status   == {"Absent", "Draft", "Recovering", "Rejected"} \cup Outcome

EventType == {"execution", "approval", "action_completed"}

Row == [status : Status, version : Nat, decision : Decision \cup {"none"},
        log : Seq(EventType)]

AbsentRow ==
  [status |-> "Absent", version |-> 0, decision |-> "none", log |-> <<>>]

\* Where a request is, or how it was answered: "ok" with a workflow, or with
\* one of the three exceptions the API maps to 409.
Answer == {"ok", "conflict", "stale", "invalid_transition"}
PC == {"idle", "find", "check", "count", "commit", "recheck", "read"} \cup Answer

\* tracked: the DbContext of the request still tracks the entity of its first
\* read, so that a second read returns that entity and not the stored row.
Request == [pc : PC, wf : Workflows \cup {NoWorkflow},
            want : Decision \cup {"none"}, snap : Row, tracked : BOOLEAN,
            count : Nat, reply : Row]

Idle == [pc |-> "idle", wf |-> NoWorkflow, want |-> "none", snap |-> AbsentRow,
         tracked |-> FALSE, count |-> 0, reply |-> AbsentRow]

Init ==
  /\ row       = [w \in Workflows |-> AbsentRow]
  /\ disputes \in SUBSET Workflows
  /\ decisions = [w \in Workflows |-> <<>>]
  /\ cases     = [w \in Workflows |-> 0]
  /\ req       = [a \in Requests |-> Idle]

-------------------------------------------------------------------------------
(* Execution, as the lifecycle has it.                                     *)

Executed(r, to) ==
  [r EXCEPT !.status = to, !.version = @ + 1, !.log = Append(@, "execution")]

Executes(w, from, to) ==
  /\ row[w].status = from
  /\ row' = [row EXCEPT ![w] = Executed(@, to)]
  /\ UNCHANGED <<disputes, decisions, cases, req>>

Execution(w) ==
  \/ Executes(w, "Absent", "Draft")
  \/ Executes(w, "Draft", "Recovering")
  \/ \E to \in Outcome : Executes(w, "Recovering", to)

-------------------------------------------------------------------------------
(* ApproveAsync up to its call of RecordDecisionAsync.                     *)

Waiting(a) == req[a].pc \in {"idle"} \cup Answer

\* The answer of a request that never reaches RecordDecisionAsync.
EarlyAnswer(w, d) ==
  IF row[w].decision # "none"
  THEN IF row[w].decision = d THEN "ok" ELSE "conflict"
  ELSE "invalid_transition"

\* A client posts a decision, perhaps not for the first time.  An already
\* recorded decision answers it, and so does a workflow that does not wait.
ApproveAsync(a, w, d) ==
  /\ Waiting(a)
  /\ row[w].status # "Absent"
  /\ req' = [req EXCEPT ![a] =
       IF row[w].decision = "none" /\ row[w].status = "WaitingForApproval"
       THEN [Idle EXCEPT !.pc = "find", !.wf = w, !.want = d, !.snap = row[w],
                         !.tracked = TRUE]
       ELSE [Idle EXCEPT !.pc = EarlyAnswer(w, d), !.wf = w, !.want = d,
                         !.reply = IF EarlyAnswer(w, d) = "ok" THEN row[w]
                                   ELSE AbsentRow]]
  /\ UNCHANGED <<row, disputes, decisions, cases>>

-------------------------------------------------------------------------------
(* RecordDecisionAsync.                                                    *)

Goto(a, pc) == req' = [req EXCEPT ![a].pc = pc]

Recorded(a) == decisions[req[a].wf]

\* The comparison both look-ups make with a decision that is there.
Compared(a) == IF Recorded(a)[1] = req[a].want THEN "read" ELSE "conflict"

\* The first look-up returns at once when the same decision is there, without
\* clearing the change tracker.
FindDecision(a) ==
  /\ req[a].pc = "find"
  /\ Goto(a, IF Recorded(a) = <<>> THEN "check" ELSE Compared(a))
  /\ UNCHANGED <<row, disputes, decisions, cases>>

CheckVersion(a) ==
  /\ req[a].pc = "check"
  /\ Goto(a, IF row[req[a].wf].version = req[a].snap.version THEN "count"
             ELSE "stale")
  /\ UNCHANGED <<row, disputes, decisions, cases>>

CountEvents(a) ==
  /\ req[a].pc = "count"
  /\ req' = [req EXCEPT ![a] =
       [@ EXCEPT !.pc = "commit", !.count = Len(row[req[a].wf].log)]]
  /\ UNCHANGED <<row, disputes, decisions, cases>>

\* Mutant: the transition is not conditional on the version.
VersionMatches_Unchecked(a) == row[req[a].wf].version >= req[a].snap.version

\* The version predicate of the conditional update.
VersionMatches(a) == row[req[a].wf].version = req[a].snap.version

\* Mutant: every approval opens a support case.
OpensCase_AnyApproval(a) == req[a].want = "approve"

\* CreateSupportCase and CreateActionExecution, for an approved dispute.
OpensCase(a) == req[a].want = "approve" /\ req[a].wf \in disputes

DecisionEvents(a) ==
  IF OpensCase(a) THEN <<"approval", "action_completed">> ELSE <<"approval">>

\* Mutant: an approval leaves the workflow in the status named after it.
DecidedStatus_Approved(d) == IF d = "approve" THEN "Approved" ELSE "Rejected"

\* Mutant: a rejection completes the workflow.
DecidedStatus_AlwaysCompleted(d) == IF d \in Decision THEN "Completed" ELSE d

DecidedStatus(d) == IF d = "approve" THEN "Completed" ELSE "Rejected"

\* The transaction: transition, events from the counted index on, decision,
\* action and case, all or nothing; the change tracker is cleared after it.
CommitDecision(a) ==
  LET w   == req[a].wf
      new == req[a].snap.log \o DecisionEvents(a)
  IN
  /\ req[a].pc = "commit"
  /\ VersionMatches(a)
  /\ row' = [row EXCEPT ![w] =
       [status   |-> DecidedStatus(req[a].want),
        version  |-> req[a].snap.version + 1,
        decision |-> req[a].want,
        log      |-> @.log \o SubSeq(new, req[a].count + 1, Len(new))]]
  /\ decisions' = [decisions EXCEPT ![w] = Append(@, req[a].want)]
  /\ cases' = [cases EXCEPT ![w] = IF OpensCase(a) THEN @ + 1 ELSE @]
  /\ req' = [req EXCEPT ![a] = [@ EXCEPT !.pc = "read", !.tracked = FALSE]]
  /\ UNCHANGED disputes

\* The conditional update affected no row: roll back and clear the tracker.
LoseRace(a) ==
  /\ req[a].pc = "commit"
  /\ ~VersionMatches(a)
  /\ req' = [req EXCEPT ![a] = [@ EXCEPT !.pc = "recheck", !.tracked = FALSE]]
  /\ UNCHANGED <<row, disputes, decisions, cases>>

\* Mutant: the loser of the race reports success without looking.
DecisionWasRecorded_Unchecked(a) ==
  /\ req[a].pc = "recheck"
  /\ Goto(a, "read")
  /\ UNCHANGED <<row, disputes, decisions, cases>>

\* DecisionWasRecordedAsync, after a lost race.
DecisionWasRecorded(a) ==
  /\ req[a].pc = "recheck"
  /\ Goto(a, IF Recorded(a) = <<>> THEN "stale" ELSE Compared(a))
  /\ UNCHANGED <<row, disputes, decisions, cases>>

-------------------------------------------------------------------------------
(* The answer.                                                             *)

\* GetWorkflowAsync once more.  EF Core's identity resolution keeps the column
\* values of an entity it already tracks; the events of the second query are
\* added to it.
ReadWorkflow(a) ==
  /\ req[a].pc = "read"
  /\ req' = [req EXCEPT ![a] =
       [@ EXCEPT !.pc = "ok",
                 !.reply = IF req[a].tracked
                           THEN [req[a].snap EXCEPT !.log = row[req[a].wf].log]
                           ELSE row[req[a].wf]]]
  /\ UNCHANGED <<row, disputes, decisions, cases>>

\* The request is cancelled, a database call throws, or the replica dies.
Abort(a) ==
  /\ ~Waiting(a)
  /\ req' = [req EXCEPT ![a] = Idle]
  /\ UNCHANGED <<row, disputes, decisions, cases>>

Step(a) ==
  \/ FindDecision(a)
  \/ CheckVersion(a)
  \/ CountEvents(a)
  \/ CommitDecision(a)
  \/ LoseRace(a)
  \/ DecisionWasRecorded(a)
  \/ ReadWorkflow(a)

Next ==
  \/ \E w \in Workflows : Execution(w)
  \/ \E a \in Requests, w \in Workflows, d \in Decision : ApproveAsync(a, w, d)
  \/ \E a \in Requests : Step(a)
  \/ \E a \in Requests : Abort(a)

Spec == Init /\ [][Next]_vars

-------------------------------------------------------------------------------
(* Properties.                                                             *)

\* The types; in particular a decided workflow is never left Approved.
TypeOK ==
  /\ row \in [Workflows -> Row]
  /\ disputes \subseteq Workflows
  /\ decisions \in [Workflows -> Seq(Decision)]
  /\ cases \in [Workflows -> Nat]
  /\ req \in [Requests -> Request]

\* The five places a decision leaves its mark always agree: the status and the
\* decision column of the workflow, the decisions table with at most one entry,
\* the event log, and the support case, which exists exactly for an approved
\* dispute and exactly once, whatever requests raced, were retried or aborted.
CountOf(type, log) == Cardinality({i \in DOMAIN log : log[i] = type})

DecidedAs(w, d) ==
  /\ row[w].status = DecidedStatus(d)
  /\ row[w].decision = d
  /\ decisions[w] = <<d>>
  /\ CountOf("approval", row[w].log) = 1
  /\ cases[w] = (IF d = "approve" /\ w \in disputes THEN 1 ELSE 0)
  /\ CountOf("action_completed", row[w].log) = cases[w]

Undecided(w) ==
  /\ row[w].status # "Rejected"
  /\ row[w].decision = "none"
  /\ decisions[w] = <<>>
  /\ CountOf("approval", row[w].log) = 0
  /\ CountOf("action_completed", row[w].log) = 0
  /\ cases[w] = 0

DecisionRecordsAgree ==
  \A w \in Workflows : Undecided(w) \/ \E d \in Decision : DecidedAs(w, d)

\* What an answer says of the decision table is so: "ok" only when the decision
\* asked for is the recorded one, "conflict" only when the other one is, and
\* "stale" only when some decision has been recorded.  That may be the one asked
\* for: SameDecisionSucceeds below is the promise that it is not.
AnswersAreTrue ==
  \A a \in Requests :
    /\ req[a].pc = "ok"       => decisions[req[a].wf] = <<req[a].want>>
    /\ req[a].pc = "conflict" => decisions[req[a].wf] \in
                                   {<<d>> : d \in Decision \ {req[a].want}}
    /\ req[a].pc = "stale"    => decisions[req[a].wf] # <<>>

\* "Same decision is a no-op; different decision returns 409": a request is not
\* refused when the decision it asks for is the one that was recorded, as a client
\* that repeats its request before the first one is answered would be.
SameDecisionSucceeds ==
  \A a \in Requests :
    req[a].pc \in {"conflict", "stale"} => decisions[req[a].wf] # <<req[a].want>>

\* A decision is never changed, repeated or undone, nor its workflow touched.
DecisionIsFinal ==
  [][\A w \in Workflows :
       decisions[w] # <<>> =>
         UNCHANGED <<row[w], decisions[w], cases[w]>>]_vars

\* "Re-submitting the same decision for an already-decided workflow returns
\* the current state": an ok answer shows the decided workflow.
OkShowsDecision ==
  \A a \in Requests :
    req[a].pc = "ok" =>
      /\ req[a].reply.decision = req[a].want
      /\ req[a].reply.status = DecidedStatus(req[a].want)

\* Both are what the documents mean by an idempotent approval: a request for the
\* decision that is recorded, by whomever, is answered ok with the decided workflow.
RepetitionIsIdempotent == SameDecisionSucceeds /\ OkShowsDecision

\* Approval, with the steps of execution, stays within the lifecycle.
Lifecycle == INSTANCE WorkflowLifecycle WITH
  MaxAttempts <- 1,
  status      <- [w \in Workflows |-> row[w].status],
  attempts    <- [w \in Workflows |-> 0],
  decision    <- [w \in Workflows |-> row[w].decision]

ImplementsLifecycle == Lifecycle!Safety
===============================================================================
