--------------------------- MODULE WorkflowExecution ---------------------------
(***************************************************************************)
(* How a submitted workflow is claimed, executed and recovered.            *)
(*                                                                         *)
(* The shared state is the workflow row and its event log in PostgreSQL.   *)
(* The processes are the WorkflowRecoveryWorker of each replica and the    *)
(* tasks WorkflowExecutionTrigger starts: each of them claims a row with a *)
(* compare-and-set on its version, reads it again, runs the agents, and    *)
(* persists the result in one to three versioned updates.  Every statement *)
(* sent to the database is a step of its own, since another process may    *)
(* run between any two of them; the statements of one transaction are one  *)
(* step, because no other connection sees them before the commit.          *)
(*                                                                         *)
(* Time is relative: age[w] is how long ago UpdatedAt was, wait[w] how far *)
(* ahead NextAttemptAt is, and a process carries in since how long ago it  *)
(* read the clock for the timestamp it is about to write.                  *)
(***************************************************************************)
EXTENDS Integers, Sequences, FiniteSets

CONSTANTS
  Workflows,     \* the workflow identifiers
  Workers,       \* one WorkflowRecoveryWorker per orchestrator replica
  Triggers,      \* the concurrent tasks started by TriggerImmediate
  MaxAttempts,   \* WorkflowRecoveryOptions.MaxAttempts
  StaleAfter,    \* WorkflowRecoveryOptions.StaleAfterSeconds, in ticks
  ScanInterval,  \* WorkflowRecoveryOptions.ScanIntervalSeconds, in ticks
  BackoffBase,   \* WorkflowRecoveryOptions.BackoffBaseSeconds, in ticks
  BackoffMax,    \* WorkflowRecoveryOptions.BackoffMaxSeconds, in ticks
  NoWorkflow     \* what an idle process is working on

Jobs == Workers \cup Triggers

\* WorkflowRecoveryOptions are validated to be positive, and a worker is never
\* a trigger task.
ASSUME ConfigAssumption ==
  /\ MaxAttempts \in Nat \ {0}
  /\ StaleAfter \in Nat \ {0}
  /\ ScanInterval \in Nat \ {0}
  /\ BackoffBase \in Nat \ {0}
  /\ BackoffMax \in Nat \ {0}
  /\ BackoffBase <= BackoffMax

ASSUME ProcessAssumption ==
  /\ Workers \cap Triggers = {}
  /\ NoWorkflow \notin Workflows
  /\ "caller" \notin Jobs

VARIABLES
  row,   \* the workflows and workflow_events tables
  age,   \* ticks since row[w].UpdatedAt, counted up to AgeLimit
  wait,  \* ticks until row[w].NextAttemptAt, 0 when it is null or past
  job    \* what each worker and trigger task holds in memory

vars == <<row, age, wait, job>>

-------------------------------------------------------------------------------
(* The tables.                                                             *)

Active  == {"Draft", "Recovering"}
Outcome == {"WaitingForApproval", "Completed", "Failed"}
Status  == {"Absent"} \cup Active \cup Outcome

\* What an execution reports: the event that closes the log of a workflow.
Closing == {"completed", "approval_required", "failed", "abandoned"}
EventType ==
  {"started", "recovery_claimed", "plan", "route", "specialist"} \cup Closing

\* An event carries, besides its type, the process that wrote it: the payloads
\* of two executions (timestamps, agent answers) are never the same.
Event == [type : EventType, by : Jobs \cup {"caller"}]

Row == [status : Status, version : Nat, attempts : Nat, log : Seq(Event)]

AbsentRow == [status |-> "Absent", version |-> 0, attempts |-> 0, log |-> <<>>]

By(p, types) == [i \in DOMAIN types |-> [type |-> types[i], by |-> p]]

LesserOf(a, b)  == IF a <= b THEN a ELSE b
GreaterOf(a, b) == IF a <= b THEN b ELSE a

\* Ages matter up to the staleness threshold plus one scan.
AgeLimit   == StaleAfter + ScanInterval
SinceLimit == GreaterOf(AgeLimit, BackoffMax)

\* CalculateNextAttemptAt: base * 2^(n-1), the exponent capped at 8 and the
\* delay at BackoffMax.
Doubling == <<1, 2, 4, 8, 16, 32, 64, 128, 256>>

\* Mutant: the delay is not capped.
BackoffDelay_Uncapped(n) == BackoffBase * Doubling[LesserOf(n, 9)]

BackoffDelay(n) == LesserOf(BackoffBase * Doubling[LesserOf(n, 9)], BackoffMax)

\* Mutant: the insertion starts one index too late.
AddNewEvents_OffByOne(log, events, existingCount) ==
  log \o SubSeq(events, existingCount + 2, Len(events))

\* AddNewEvents inserts the events of a snapshot from the counted index on.
AddNewEvents(log, events, existingCount) ==
  log \o SubSeq(events, existingCount + 1, Len(events))

-------------------------------------------------------------------------------
(* The processes.                                                          *)

PC == {"idle", "claim", "recover", "agents", "check", "count", "commit"}

\* One call of UpdateAsync that is still to be made: the events it appends and
\* the status it sets.
Update == [types : Seq(EventType), status : Status]

Job == [pc    : PC,
        wf    : Workflows \cup {NoWorkflow},
        cands : [Workflows -> Row],
        snap  : Row,
        todo  : Seq(Update),
        count : Nat,
        since : Nat]

\* The rows a scan returned, AbsentRow standing for one it did not return.
NoCandidates == [w \in Workflows |-> AbsentRow]

Idle == [pc |-> "idle", wf |-> NoWorkflow, cands |-> NoCandidates,
         snap |-> AbsentRow, todo |-> <<>>, count |-> 0, since |-> 0]

\* A job is dropped when its handler returns, when an exception ends it, and
\* when its process dies: nothing of it is left.
Drop(p) == job' = [job EXCEPT ![p] = Idle]

Init ==
  /\ row  = [w \in Workflows |-> AbsentRow]
  /\ age  = [w \in Workflows |-> 0]
  /\ wait = [w \in Workflows |-> 0]
  /\ job  = [p \in Jobs |-> Idle]

-------------------------------------------------------------------------------
(* Submission.                                                             *)

\* StartCoreAsync: the Draft is persisted before any agent is invoked.
Start(w) ==
  /\ row[w].status = "Absent"
  /\ row' = [row EXCEPT ![w] =
       [@ EXCEPT !.status = "Draft", !.log = By("caller", <<"started">>)]]
  /\ UNCHANGED <<age, wait, job>>

-------------------------------------------------------------------------------
(* Claiming.                                                               *)

\* Mutant: the scan forgets rows that no process has claimed yet.
Due_RecoveringOnly(w) ==
  /\ row[w].status = "Recovering"
  /\ age[w] >= StaleAfter
  /\ wait[w] = 0

Due(w) ==
  /\ row[w].status \in Active
  /\ age[w] >= StaleAfter
  /\ wait[w] = 0

Claiming(W) ==
  [Idle EXCEPT !.pc = "claim",
               !.cands = [w \in Workflows |-> IF w \in W THEN row[w]
                                              ELSE AbsentRow]]

\* RecoverBatchAsync calls ClaimNextAsync, which reads the due rows; with none
\* it returns null and the worker sleeps.
ScanForWork(p) ==
  /\ p \in Workers
  /\ job[p].pc = "idle"
  /\ \E w \in Workflows : Due(w)
  /\ job' = [job EXCEPT ![p] = Claiming({w \in Workflows : Due(w)})]
  /\ UNCHANGED <<row, age, wait>>

\* TriggerImmediate starts a task whose ClaimAsync reads its workflow if it is
\* a Draft.  The endpoints fire it after a submission and after an upload.
TriggerImmediate(p, w) ==
  /\ p \in Triggers
  /\ job[p].pc = "idle"
  /\ row[w].status = "Draft"
  /\ job' = [job EXCEPT ![p] = Claiming({w})]
  /\ UNCHANGED <<row, age, wait>>

\* Mutant: the claim is conditional on the status alone.
Unchanged_StatusOnly(w, candidate) == row[w].status = candidate.status

\* The WHERE clause of the conditional update both claim paths use.
Unchanged(w, candidate) ==
  /\ row[w].version = candidate.version
  /\ row[w].status = candidate.status

Candidates(p) == {w \in Workflows : job[p].cands[w].status # "Absent"}

IsCandidate(p, w) == job[p].pc = "claim" /\ w \in Candidates(p)

\* What ClaimNextAsync does with a candidate it does not get: try the next
\* one, and return null after the last.
NextCandidate(p, w) ==
  job' = [job EXCEPT ![p] =
    IF Candidates(p) = {w} THEN Idle ELSE [@ EXCEPT !.cands[w] = AbsentRow]]

\* Mutant: one attempt too many.
Exhausted_OffByOne(p, w) ==
  p \in Workers /\ job[p].cands[w].attempts > MaxAttempts

Exhausted(p, w) == p \in Workers /\ job[p].cands[w].attempts >= MaxAttempts

\* The row a claim of candidate c by p leaves: only a worker counts attempts.
ClaimedRow(p, w, c) ==
  [status   |-> "Recovering",
   version  |-> c.version + 1,
   attempts |-> IF p \in Workers THEN c.attempts + 1 ELSE c.attempts,
   log      |-> row[w].log \o By(p, <<"recovery_claimed">>)]

\* The row that giving up leaves.
AbandonedRow(p, w, c) ==
  [status   |-> "Failed",
   version  |-> c.version + 1,
   attempts |-> row[w].attempts,
   log      |-> row[w].log \o By(p, <<"abandoned">>)]

\* Ticks until a NextAttemptAt of delay after a clock read elapsed ticks ago.
RemainingWait(delay, elapsed) == IF delay > elapsed THEN delay - elapsed ELSE 0

\* ClaimCandidateAsync, when its update affects one row.
Claim(p, w) ==
  LET c == job[p].cands[w]
      t == job[p].since
  IN
  /\ IsCandidate(p, w)
  /\ ~Exhausted(p, w)
  /\ Unchanged(w, c)
  /\ row' = [row EXCEPT ![w] = ClaimedRow(p, w, c)]
  /\ age' = [age EXCEPT ![w] = LesserOf(t, AgeLimit)]
  /\ wait' = IF p \in Workers
             THEN [wait EXCEPT ![w] =
                     RemainingWait(BackoffDelay(c.attempts + 1), t)]
             ELSE wait
  /\ job' = [job EXCEPT ![p] = [Idle EXCEPT !.pc = "recover", !.wf = w]]

\* ExhaustRecoveryAttemptsAsync, when its update affects one row: the workflow
\* is given up and ClaimNextAsync goes on with the next candidate.
Abandon(p, w) ==
  LET c == job[p].cands[w] IN
  /\ IsCandidate(p, w)
  /\ Exhausted(p, w)
  /\ Unchanged(w, c)
  /\ row' = [row EXCEPT ![w] = AbandonedRow(p, w, c)]
  /\ age' = [age EXCEPT ![w] = LesserOf(job[p].since, AgeLimit)]
  /\ NextCandidate(p, w)
  /\ UNCHANGED wait

\* Both, when another process has changed the row: zero rows affected.
LoseCandidate(p, w) ==
  /\ IsCandidate(p, w)
  /\ ~Unchanged(w, job[p].cands[w])
  /\ NextCandidate(p, w)
  /\ UNCHANGED <<row, age, wait>>

-------------------------------------------------------------------------------
(* Executing.                                                              *)

\* RecoverAsync reads the row again, at whatever version it is by now, and
\* returns it as it is when it is no longer Draft or Recovering.
RecoverAsync(p) ==
  LET w == job[p].wf IN
  /\ job[p].pc = "recover"
  /\ IF row[w].status \in Active
     THEN job' = [job EXCEPT ![p] = [@ EXCEPT !.pc = "agents", !.snap = row[w]]]
     ELSE Drop(p)
  /\ UNCHANGED <<row, age, wait>>

\* The updates ExecuteRoutingAsync makes once the agents have run: plan and
\* route are persisted by AdvanceAndPersistAsync, the end by UpdateAsync or
\* PersistFailedAsync.  Its remaining failure branches re-parse results that
\* the orchestrator has already parsed with the same code and never run.
UpdatesFor(result, status) ==
  CASE result = "failed" ->
         <<[types |-> <<"failed">>, status |-> "Failed"]>>
    [] result = "completed" ->
         <<[types |-> <<"plan">>, status |-> status],
           [types |-> <<"route">>, status |-> status],
           [types |-> <<"specialist", "completed">>, status |-> "Completed"]>>
    [] result = "approval_required" ->
         <<[types |-> <<"plan">>, status |-> status],
           [types |-> <<"route">>, status |-> status],
           [types |-> <<"specialist", "approval_required">>,
            status |-> "WaitingForApproval"]>>

Persist(p, result) ==
  job' = [job EXCEPT ![p] =
    [@ EXCEPT !.pc = "check", !.todo = UpdatesFor(result, job[p].snap.status),
              !.since = 0]]

\* The agent pipeline: profile, planner, routing and specialist run without
\* writing to the database, and end in one of three ways.
RunAgents(p) ==
  /\ job[p].pc = "agents"
  /\ \E result \in {"completed", "approval_required", "failed"} :
       Persist(p, result)
  /\ UNCHANGED <<row, age, wait>>

\* The host stops while a worker awaits the agents: its token is cancelled and
\* ExecuteRoutingAsync persists a failure.  Trigger tasks are not cancelled.
CancelRun(p) ==
  /\ p \in Workers
  /\ job[p].pc = "agents"
  /\ Persist(p, "failed")
  /\ UNCHANGED <<row, age, wait>>

\* UpdateAsync compares the versions first; StaleVersionException ends the job.
CheckVersion(p) ==
  /\ job[p].pc = "check"
  /\ IF row[job[p].wf].version = job[p].snap.version
     THEN job' = [job EXCEPT ![p].pc = "count"]
     ELSE Drop(p)
  /\ UNCHANGED <<row, age, wait>>

\* UpdateAsync counts the stored events.
CountEvents(p) ==
  /\ job[p].pc = "count"
  /\ job' = [job EXCEPT ![p] =
       [@ EXCEPT !.pc = "commit", !.count = Len(row[job[p].wf].log)]]
  /\ UNCHANGED <<row, age, wait>>

\* Mutant: the next state keeps the version it was read at.
NextState_SameVersion(p) ==
  LET next == Head(job[p].todo) IN
  [status   |-> next.status,
   version  |-> job[p].snap.version,
   attempts |-> job[p].snap.attempts,
   log      |-> job[p].snap.log \o By(p, next.types)]

\* The state UpdateAsync is given: the snapshot with the next update applied.
NextState(p) ==
  LET next == Head(job[p].todo) IN
  [status   |-> next.status,
   version  |-> job[p].snap.version + 1,
   attempts |-> job[p].snap.attempts,
   log      |-> job[p].snap.log \o By(p, next.types)]

\* Mutant: the update is not conditional on the version.
VersionMatches_Unchecked(p) == row[job[p].wf].version \in Nat

\* The version predicate of the conditional update in UpdateAsync.
VersionMatches(p) == row[job[p].wf].version = job[p].snap.version

\* The transaction of UpdateAsync: every column comes from the snapshot, the
\* events from the counted index on; then the next update, if there is one.
CommitUpdate(p) ==
  LET w == job[p].wf
      s == NextState(p)
  IN
  /\ job[p].pc = "commit"
  /\ VersionMatches(p)
  /\ row' = [row EXCEPT ![w] =
       [s EXCEPT !.log = AddNewEvents(row[w].log, s.log, job[p].count)]]
  /\ age' = [age EXCEPT ![w] = LesserOf(job[p].since, AgeLimit)]
  /\ job' = [job EXCEPT ![p] =
       IF Len(job[p].todo) = 1 THEN Idle
       ELSE [@ EXCEPT !.pc = "check", !.snap = s, !.todo = Tail(job[p].todo),
                      !.count = 0, !.since = 0]]
  /\ UNCHANGED wait

\* The transaction of UpdateAsync when its update affects no row.
CommitStale(p) ==
  /\ job[p].pc = "commit"
  /\ ~VersionMatches(p)
  /\ Drop(p)
  /\ UNCHANGED <<row, age, wait>>

-------------------------------------------------------------------------------
(* Failures and time.                                                      *)

\* A database call throws, the host stops outside the agent phase, or the
\* process dies; the worker or a new task starts again from nothing.
Crash(p) ==
  /\ job[p].pc # "idle"
  /\ Drop(p)
  /\ UNCHANGED <<row, age, wait>>

\* Only rows that are still scanned age, and only jobs that hold a timestamp.
HoldsTimestamp(p) == job[p].pc \in {"claim", "check", "count", "commit"}

Tick ==
  /\ age' = [w \in Workflows |->
       IF row[w].status \in Active THEN LesserOf(age[w] + 1, AgeLimit)
       ELSE age[w]]
  /\ wait' = [w \in Workflows |-> IF wait[w] > 0 THEN wait[w] - 1 ELSE 0]
  /\ job' = [p \in Jobs |->
       IF HoldsTimestamp(p)
       THEN [job[p] EXCEPT !.since = LesserOf(@ + 1, SinceLimit)]
       ELSE job[p]]
  /\ UNCHANGED row

-------------------------------------------------------------------------------
Execute(p) ==
  \/ RecoverAsync(p)
  \/ RunAgents(p)
  \/ CheckVersion(p)
  \/ CountEvents(p)
  \/ CommitUpdate(p)
  \/ CommitStale(p)

TryCandidate(p) ==
  \E w \in Workflows : Claim(p, w) \/ Abandon(p, w) \/ LoseCandidate(p, w)

Next ==
  \/ \E w \in Workflows : Start(w)
  \/ \E p \in Workers : ScanForWork(p)
  \/ \E p \in Triggers, w \in Workflows : TriggerImmediate(p, w)
  \/ \E p \in Jobs : TryCandidate(p)
  \/ \E p \in Jobs : Execute(p)
  \/ \E p \in Workers : CancelRun(p)
  \/ \E p \in Jobs : Crash(p)
  \/ Tick

Spec == Init /\ [][Next]_vars

\* The timer of each worker fires and its calls return, since every agent call
\* has a timeout; the clock advances.  Crashes are not limited: all that is
\* assumed of them is that they do not hit a worker in each of its claims.
Fairness ==
  /\ WF_vars(Tick)
  /\ \A p \in Workers :
       /\ WF_vars(ScanForWork(p))
       /\ SF_vars(TryCandidate(p))
       /\ WF_vars(Execute(p))

FairSpec == Spec /\ Fairness
-------------------------------------------------------------------------------
(* Properties.                                                             *)

\* The types; a backoff never reaches further ahead than the configured maximum.
TypeOK ==
  /\ row \in [Workflows -> Row]
  /\ age \in [Workflows -> Nat]
  /\ wait \in [Workflows -> 0 .. BackoffMax]
  /\ job \in [Jobs -> Job]

\* The fence all writers rely on: a process whose copy of a row has the row's
\* version has an exact copy of it, and its event count is right when its
\* update is about to pass.  UpdateAsync writes every column from the snapshot
\* and numbers its events from the count, so anything else loses an update or
\* an event, however long the process slept between its statements.
InExecution(p) == job[p].pc \in {"agents", "check", "count", "commit"}

ExactCopy(copy, w) ==
  /\ copy.version <= row[w].version
  /\ copy.version = row[w].version => copy = row[w]

Fence ==
  \A p \in Jobs :
    /\ \A w \in Candidates(p) : ExactCopy(job[p].cands[w], w)
    /\ InExecution(p) => ExactCopy(job[p].snap, job[p].wf)
    /\ job[p].pc = "commit" /\ VersionMatches(p) =>
         job[p].count = Len(row[job[p].wf].log)

\* Two processes may run the agents for the same workflow at once (a slow run
\* goes stale and is claimed again), but their results never mix: a route in
\* the log follows directly the plan of the same execution, a specialist's
\* answer its route, and a successful end its specialist's answer.
Precedes == [route |-> "plan", specialist |-> "route",
             completed |-> "specialist", approval_required |-> "specialist"]

ExecutionsDoNotInterleave ==
  \A w \in Workflows : \A i \in DOMAIN row[w].log :
    LET e == row[w].log[i] IN
    e.type \in DOMAIN Precedes =>
      i > 1 /\ row[w].log[i - 1] = [type |-> Precedes[e.type], by |-> e.by]

\* A workflow ends once: its log holds a closing event only when the status is
\* an outcome, the one that event names, and as its last event.
ClosingFor(status) ==
  CASE status = "Completed"          -> {"completed"}
    [] status = "WaitingForApproval" -> {"approval_required"}
    [] status = "Failed"             -> {"failed", "abandoned"}
    [] OTHER                         -> EventType \ Closing

OutcomeMatchesLog ==
  \A w \in Workflows : row[w].status # "Absent" =>
    LET log == row[w].log IN
    /\ log[Len(log)].type \in ClosingFor(row[w].status)
    /\ \A i \in 1..(Len(log) - 1) : log[i].type \notin Closing

\* The attempt counter that bounds recovery agrees with the log: it is the
\* number of claims by workers and never passes MaxAttempts, a trigger claims
\* only the fresh Draft, and a workflow is abandoned after MaxAttempts claims.
ClaimsBy(w, P) ==
  {i \in DOMAIN row[w].log : /\ row[w].log[i].type = "recovery_claimed"
                             /\ row[w].log[i].by \in P}

ClaimsAreAccounted ==
  \A w \in Workflows :
    /\ row[w].attempts = Cardinality(ClaimsBy(w, Workers))
    /\ row[w].attempts <= MaxAttempts
    /\ ClaimsBy(w, Triggers) \subseteq {2}
    /\ \A i \in DOMAIN row[w].log :
         row[w].log[i].type = "abandoned" => row[w].attempts = MaxAttempts

\* Whoever changes a row moves its version on by exactly one and only appends
\* to its log: no stored event is lost, rewritten or written twice.
Extends(new, old) ==
  /\ Len(new) > Len(old)
  /\ SubSeq(new, 1, Len(old)) = old

AppendsOnly(w) ==
  row'[w] # row[w] /\ row[w].status # "Absent" =>
    /\ row'[w].version = row[w].version + 1
    /\ Extends(row'[w].log, row[w].log)

HistoryIsAppendOnly == [][\A w \in Workflows : AppendsOnly(w)]_vars

\* No late executor, claim or abandonment changes a workflow that has reached
\* its outcome: an abandoned workflow is not revived by the run that was too
\* slow, nor a completed one failed by it.
KeepsOutcome(w) == row[w].status \in Outcome => row'[w] = row[w]

OutcomeIsFinal == [][\A w \in Workflows : KeepsOutcome(w)]_vars

\* A worker takes a row over only when nothing has been written to it for the
\* whole staleness period and its backoff has elapsed, at the moment of the
\* claim and not merely when the candidates were read.
ReclaimsWhenRipe(w) ==
  row'[w].attempts # row[w].attempts => age[w] >= StaleAfter /\ wait[w] = 0

NoEarlyReclaim == [][\A w \in Workflows : ReclaimsWhenRipe(w)]_vars

\* "the periodic WorkflowRecoveryWorker guarantees delivery": a persisted Draft
\* reaches an outcome even when its trigger is lost and executions crash again
\* and again.
EveryWorkflowResolves ==
  \A w \in Workflows :
    row[w].status = "Draft" ~> row[w].status \in Outcome

\* The operations guide on the defaults: a workflow whose process crashed after
\* the claim can be claimed again after the staleness period plus one scan.
CrashedWorkIsReclaimable ==
  \A w \in Workflows :
    /\ row[w].status = "Recovering"
    /\ \A p \in Jobs : job[p].wf # w
    /\ age[w] >= AgeLimit
    => Due(w)

\* Seen from outside, the claims, fences and retries amount to the lifecycle:
\* every step of the database and of the processes is one lifecycle step or
\* none, and a workflow that was submitted is brought to an outcome.
Lifecycle == INSTANCE WorkflowLifecycle WITH
  status   <- [w \in Workflows |-> row[w].status],
  attempts <- [w \in Workflows |-> row[w].attempts],
  decision <- [w \in Workflows |-> "none"]

ImplementsLifecycle == Lifecycle!Safety
FulfilsLifecycle    == Lifecycle!Spec
===============================================================================
