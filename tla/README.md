# Verification of the banking agent orchestrator

TLA+ modules, TLC configurations and TLAPS proofs for this repository: how a
customer's request becomes a durable workflow, how it is claimed, executed by
agents, recovered after crashes and brought to one outcome, how an approval is
decided exactly once, how evidence files are attached, what the customer's page
shows of all that, and how the repository's own issues are triaged.  Code paths
below are relative to the repository; `WorkflowService.cs` and so on live under
`src/application`, `src/infrastructure`, `src/orchestrator`, `src/api`,
`src/webui` and `src/domain`.

## 1. The system

A browser talks to a Razor web UI, which calls the API of the orchestrator.
The orchestrator stores workflows in PostgreSQL and runs them in the background
by calling agents hosted in Azure AI Foundry over MCP.  Several replicas of the
orchestrator may run; they share nothing but the database.  Beside the system,
a heartbeat workflow triages the issues of the repository.

| Component | State | Operations | Interacts with |
| --- | --- | --- | --- |
| `WorkflowService` | none of its own; a copy of the workflow for the length of a call | start, recover/execute, approve | repositories, agent orchestrator |
| `EfWorkflowRepository` | tables `workflows`, `workflow_events` | add, versioned update, claim next, claim one, exhaust attempts | PostgreSQL, read committed |
| `WorkflowRecoveryWorker` (one per replica) | timer, current batch | scan every 30 s, claim stale rows, execute them one by one | repository, service |
| `WorkflowExecutionTrigger` | detached tasks | claim one Draft at once and execute it | repository, service |
| `EfWorkflowActionRepository` | `approval_decisions`, `action_executions`, `support_cases` | record a decision with everything it entails | PostgreSQL |
| `WorkflowEvidenceService`, `EfWorkflowEvidenceRepository` | `workflow_evidence` | add, list, get | PostgreSQL |
| API endpoints | none | submit, approve, read, upload | services, trigger |
| `AgentFrameworkWorkflowOrchestrator`, `WorkflowRoutingPolicy` | context of one run | profile, planner, route, specialist, terminal | MCP client |
| `FoundryMcpClient` | none | discover tools, call an agent with attempts, timeouts and delays | hosted agents |
| `McpToolValidationCache` | last verdict | probe, background refresh | MCP client |
| web UI (`Index.cshtml.cs`, `site.js`) | a page in the browser: busy forms, safety timers, a chain of polls | submit, approve, poll, reload | API |
| `ralph-triage.js`, `squad-heartbeat.yml` | labels and comments of issues | read documents, list issues, decide, label, comment | GitHub |
| hosted agents (Python), migrator, deployment, Terraform | none at run time | | |

What is hard here, and what the properties are aimed at:

* **No locks.**  Every writer reads a row, thinks (for minutes, when agents are
  called), and writes with a predicate on the version it read.  `UpdateAsync`
  needs three round trips, so other writers run between its version check, its
  event count and its commit.
* **Takeover by timeout.**  A run that takes longer than the staleness period
  looks exactly like a crashed one.  Two runs of one workflow are normal.
* **Crashes** between a committed claim and its result, and triggers that are
  lost without a trace.
* **Racing decisions**, repeated by clients that did not get an answer.
* **Check-then-insert** on evidence, and evidence that arrives late or never.
* **Two clocks**, staleness and backoff, that both delay a takeover.
* **Partial failure of a run**: some services may fail it and others must not,
  and what an agent demanded may be lost in the steps that follow.
* **Callbacks of a browser**: deferred busy states, safety timers, a
  back-forward cache that brings timers back, answers and reloads that cross.
* **Overlapping triage runs** on what they read before people, or each other,
  changed it.

`PROJECT.json` lists the hazards one by one at their lines, with the property
that would notice each of them going wrong.

## 2. The modules

| Module | Models | Builds on |
| --- | --- | --- |
| `WorkflowLifecycle` | what the service promises of a workflow: statuses, bounded attempts, one outcome, one decision, an outcome in the end | |
| `WorkflowExecution` | submission, claims, execution, recovery, exhaustion, time | refines `WorkflowLifecycle` |
| `WorkflowApproval` | concurrent approval requests | refines `WorkflowLifecycle` |
| `WorkflowEvidence` | submission with announced evidence, concurrent uploads, triggers | composes its own part with the actions of `WorkflowLifecycle` |
| `AgentRun` | one execution of the agent pipeline and the updates that persist it | opens the step `RunAgents` of `WorkflowExecution` |
| `WorkspacePage` | the customer's page: forms, timers, polling, what the server renders | composes its own part with the actions of `WorkflowLifecycle` |
| `TriageRules`, `IssueTriage` | whom an issue goes to; overlapping runs that apply it | |
| `*Proofs` | theorems about `WorkflowExecution`, `WorkflowApproval`, `WorkflowEvidence`, `AgentRun`, `WorkspacePage`, `IssueTriage` | extend their module; `WorkflowExecutionLogProofs` extends `WorkflowExecutionProofs` |
| `MC*` | symmetry sets and values for TLC | extend their module |

Definitions whose comment begins with "Mutant" are variants of the definition
that follows them, each with a plausible bug; no specification uses them, and
`PROJECT.json` names the property each of them breaks.

### WorkflowExecution

`row[w]` is the workflow with its event log, `age[w]` and `wait[w]` are the
ticks since `UpdatedAt` and until `NextAttemptAt`, and `job[p]` is what a worker
or a trigger task holds in memory: the candidates of its scan, the copy of the
row it executes on (`snap`), the updates still to be made (`todo`), its event
count and the age of the timestamp it is going to write (`since`).

| Action | Code |
| --- | --- |
| `Start` | `StartCoreAsync` |
| `ScanForWork` | `RecoverBatchAsync` up to the query of `ClaimNextAsync` |
| `TriggerImmediate` | the task up to the query of `ClaimAsync` |
| `Claim`, `LoseCandidate` | `ClaimCandidateAsync` with one or zero rows affected |
| `Abandon` | `ExhaustRecoveryAttemptsAsync` |
| `RecoverAsync` | the read and the status check of `RecoverAsync` |
| `RunAgents`, `CancelRun` | the agent pipeline ends in one of three ways, or the host stops |
| `CheckVersion`, `CountEvents`, `CommitUpdate`, `CommitStale` | the three round trips of `UpdateAsync` |
| `Crash` | an exception from a database call, a stop or the death of the process |
| `Tick` | a unit of time passes |

A transaction is one step: no other connection sees its statements before the
commit, and the row lock its first statement takes makes a rival wait and then
re-evaluate its predicate.  Everything else the code awaits separates two steps.

Data is abstracted to what the properties distinguish: an event is its type and
the process that wrote it, the events of one plan or route update are one event,
the answers of the agents are the ending they lead to.  `ExecuteRoutingAsync`
has failure branches that re-parse results the orchestrator has parsed with the
same code; they cannot run and are left out.  The SQLite branch of
`ClaimNextAsync` is only used by tests; its `Take(100)` limits nothing here,
because a claim removes the oldest rows first and the next scan sees the rest.

### AgentRun

One run between the claim and the outcome.  `pc` is the executor it is in,
`ctx` the `WorkflowExecutionContext` the executors hand on, `call` the agent
being called with its attempt and the time spent in attempts and delays, `row`
the status and the events this run appended.  `env` is history: the attempts
lost, the agents that gave a bad answer, whether the run was cancelled.

| Action | Code |
| --- | --- |
| `Recall`, `FailRecall` | the profile step, which swallows every failure but a cancellation |
| `SimulateFault` | the simulated fault of a demo scenario in `InvokeAgentAsync` |
| `Discover`, `FailDiscovery` | `DiscoverToolsAsync`, once before each call, over all agents |
| `AnswerPlan`, `AnswerRequest` | an attempt ends in an answer of planner or specialist |
| `LoseAttempt` | a timeout or HTTP error: a delay and another attempt, or an error result |
| `FailAttempt` | an answer or exception that is not tried again |
| `SelectRoute` | `ExecuteRoutingStepAsync` with `WorkflowRoutingPolicy.Decide` |
| `Cancel` | the token of the run is cancelled during an executor |
| `PersistPlan`, `PersistRoute`, `PersistOutcome`, `PersistFailed` | the updates of `ExecuteRoutingAsync` and `PersistFailedAsync` |
| `Abandon` | the process dies or an update is refused |

A message is told apart by what the routing policy finds in it, an answer by the
agent it names and the approval it demands.  A failure that a step catches
reports the context handed on so far; one that reaches `ExecuteAsync`, and a
cancellation, reports the initial context.  Discovery asks the endpoints of all
agents and fails when one of them does, whichever agent the call is for; it is
not tried again.

### WorkflowApproval

`row`, `decisions` and `cases` are the tables, `req[a]` a request: the workflow
it read, whether the `DbContext` still tracks that read, its event count and its
answer.  The steps are the round trips of `ApproveAsync` and
`RecordDecisionAsync`; the execution of the workflow up to its outcome is
reduced to the three lifecycle steps that `WorkflowExecution` is shown to
implement.  `Abort` is a cancelled request, a database error or the death of the
replica, at any point, so that a decision may be recorded whose answer is lost.

### WorkflowEvidence

`files[w]` is the evidence table, `triggers` the trigger tasks still to run,
`up[u]` an upload request, `overlap` (history) whether two of them were ever in
progress at once.  Status, attempts and decision belong to an instance of
`WorkflowLifecycle`, whose actions it conjoins with its own: submission
announces evidence or not, a trigger picks up a Draft, the worker recovers any
workflow at all.  `BeginUpload`, `ListEvidence`, `InsertEvidence` and
`TriggerAfterUpload` are the endpoint and `AddAsync` up to each round trip;
`Abort` ends a request at any of them.  Time is not modelled here; the worker
coming between any two steps stands for an upload slower than the staleness
period.

### WorkspacePage

`status`, `attempts`, `decision`, `planned` and `supportCase` are what the
server knows; the rest is in the browser.  `page` is what the document shows,
`request` the fields filled in, `busy` the forms with the class `is-loading`,
`deferred` the 0 ms callbacks of submit events in order, `restores` the safety
timers with the time they have left, `poll` the chain of `startPolling` (timer,
fetch, answers on their way, attempt, elapsed), `nav` the navigation under way
and `here` whether the page is shown or kept in the back-forward cache.

| Action | Code |
| --- | --- |
| `FollowLink`, `CompleteReload` | `OnGetAsync` and the rendering of `Index.cshtml` |
| `SelectScenario`, `EditMessage` | the listeners of the scenario buttons and of the message |
| `Submit`, `EnterBusy` | the submit listener and the callback it defers |
| `SafetyRestore` | the safety timer of a busy form |
| `CompletePost`, `LeaveByPost` | `OnPostAsync`, `OnPostApproveAsync`; the page that follows, or the one left in the cache |
| `PageShow` | the `pageshow` listener |
| `BlockNavigation` | a navigation is stopped (browser) |
| `StartPoll`, `AnswerPoll`, `FailPoll`, `ReceivePoll` | `poll`, `OnGetPollAsync`, the catch branch, the handling of an answer with `updateStages`, the reloads and `scheduleNext` |
| `Tick` | time of a shown page; timers due run first |

The browser itself, one navigation at a time with the later one taking over and
a cache that freezes timers, is modelled from how `site.js` depends on it.

### TriageRules and IssueTriage

`TriageRules` is the decision of `ralph-triage.js` as a pure function: parsing
the roster and the routing tables, then module owner, rule, role keywords and
lead, in that order.  A text is the set of the fragments that occur in it, so
that inclusion of strings is inclusion of sets.  The loops that select rows and
the best module are recursive functions, so that proofs can speak of them.
`Docs` names the versions of the documents, `Team` and `Routing` say what they
contain.  `IssueTriage` runs it:
`Start` and `StartElsewhere` check the documents out, `FetchPage` reads a page of issues (and
decides when it was the last), `AddLabel` and `CreateComment` are the two calls
the heartbeat makes for each result, `FailFetch` and `FailApply` their failures.
People open, edit, close, assign and unassign issues and commit documents in
between.  Since the workflow has no concurrency group, several `Runs` exist.

Which documents a run decides under depends on the ref it was started on.  The
schedule, the events of issues and a pull request merged into the default branch
start it there (`Start`); a pull request closed unmerged or merged into another
branch, and a manual dispatch, start it on a ref of their own, where the
documents may be any (`StartElsewhere`).  `versions` is history: what runs have
checked out, from wherever.  Two things are assumed of such a ref: that its
script, and for a dispatch its copy of the heartbeat, is the one that is
modelled; a ref without the script does nothing, and one without the documents
ends as `FailFetch`.  The token of a pull request from a fork may only read: its
calls fail as `FailApply` does.

## 3. The runs

| Run | Question | Result |
| --- | --- | --- |
| `execution_recovery` | two workers, a trigger, one attempt: do stale copies, slow runs and crashes ever corrupt log, counters or outcome? is a claim ever made on what has changed since? does it refine the lifecycle? | holds |
| `execution_liveness` | two drafts, no trigger, two attempts, unlimited crashes: is each brought to an outcome, and the liveness of the lifecycle fulfilled? is the backoff capped? | holds |
| `execution_reclaim_delay` | is crashed work reclaimable after staleness plus one scan, as the operations guide says? | violated |
| `agent_run` | one run with every answer, failure, lost attempt and cancellation: is an approval kept that policy, specialist or a planner whose route is taken demanded? who can fail a run? does a call keep its budget? | holds |
| `agent_escalation` | is an approval only ever escalated, also when the planner's route is replaced? | violated |
| `approval_safety` | three requests on a workflow, a dispute or not: one decision, consistent everywhere, answers that are true of what was recorded, lifecycle kept | holds |
| `approval_reply` | is a request for the recorded decision always answered with the decided workflow? | violated, in two ways |
| `evidence_upload` | two uploads side by side or one after the other, trigger and worker between any two steps: duplicates, partial batches, early triggers? is the limit kept while they do not overlap? does announced evidence that never comes block a workflow? | holds |
| `evidence_limit` | two concurrent uploads: is the limit kept? | violated |
| `page_polling` | the page with both forms, their callbacks and timers, cache and polling: can a submission be doubled? does the display go back or polling stop in silence? does the approval form come? do busy states, polling and reloads end? | holds |
| `page_stale_timer` | is a form ever enabled during a young request, also on a page that came back by Back? | violated |
| `issue_triage` | two overlapping runs, an edit, a commit or a run on another branch, a failing call: who owns an issue and why, are comments true, does every issue get an owner? | holds |

Two properties of `page_polling` exclude cases on purpose:
`NoDoubleSubmissionAtFirst` speaks of pages that did not come out of the
back-forward cache, because `page_stale_timer` shows that the others fail it,
and not of the gap between a submit event and its callback (section 5);
`ApprovalFormShown` excludes a page whose reload the customer stopped or
overrode.

### Bounds, and why they are enough

* *Processes.*  Every race in the code is between a writer and one that
  overtakes it; the third process (a trigger beside two workers, a third
  approval request) lets a loser be overtaken again.
* *Workflows.*  Rows are independent except through the candidate list of a
  scan; two workflows appear where a scan tries one candidate after another
  (`execution_liveness`).  Whether a workflow is a dispute is chosen in `Init`
  of `WorkflowApproval` and `WorkflowEvidence`, so one workflow covers both.
* *Attempts of a workflow.*  One attempt reaches exhaustion beside a run that is
  still going (two workers, a trigger and a second attempt exceed what TLC
  finishes in minutes); two, with one worker, exercise the counter, the growth
  of the backoff and its cap (base 2, maximum 3).  What is proved holds for every number.
* *Time.*  Ages are counted up to `AgeLimit`, the staleness period plus a scan,
  beyond which no guard distinguishes them, timestamps held in memory up to
  `SinceLimit`.  `Tick` of `WorkflowExecution` is never held up by a process:
  any step may take arbitrarily long.  `execution_reclaim_delay` uses the
  defaults in units of 30 seconds: staleness 4, scan 1, backoff from 1 to 30,
  five attempts.
* *Attempts of a call.*  Three attempts, the default, have a first, a middle and
  a last one; a timeout of four ticks and a delay of one make the doubling of
  the delay visible against the budget.
* *Uploads.*  Each is made once.  With a limit of two files and three contents
  every sum around the limit and every overlap of two batches occurs.
* *Page.*  `RestoreAfter` 2 lets a second submission be younger than the timer
  of the first.  The intervals 1, 2 have the growth and the repetition of the
  last one, with a total of 5 the give-up, and the flat interval 3 reaches it
  too.  Two submit events may precede their callbacks (`MaxDeferred`): a form
  sent twice and both forms.
* *Triage.*  Two runs, two issues on pages of one, so that a listing shifts
  between pages; one change by people or one run they start on another branch
  (`MaxTouches`), and one failing call
  (`MaxFaults`) at any point; two texts, and two versions of the documents that
  between them have a lead and none, both headings of the roster, a row that is
  too short, a name that is part of another and one that normalises to nothing.

The deadlock check is off for the two agent runs (a run ends) and for the evidence runs
(a system whose requests have all been made comes to rest); the others keep it.

### Fairness

`FairSpec` of `WorkflowExecution` assumes that time passes (the timer of
`ExecuteAsync` fires), that a worker whose scan would find work gets to scan
(the loop survives every exception but the stop of the host), that its calls
return (`Execute` is weakly fair), and that a worker which holds candidates
again and again finally tries one before it crashes (`TryCandidate`, strongly
fair: weak fairness would be void under repeated crashes).  Crashes are not
bounded, nor is anything assumed of trigger tasks: what delivers a workflow is
the worker alone, as the comment in `WorkflowExecutionTrigger.cs` claims.  A run
may crash each time; it is the exhaustion of attempts that then ends the
workflow.  That calls return has one gap in the code: attempts have a timeout,
but the discovery before them reads the body of its response outside the
timeout of `HttpClient`, so a body that stalls holds the execution and the
worker that runs it (section 5).

`FairSpec` of `WorkflowEvidence` assumes of the execution what
`FulfilsLifecycle` establishes, and nothing of clients or triggers.

`FairSpec` of `WorkspacePage` assumes that the callbacks and timers of a shown
page run and that a fetch ends, which its abort after 15 seconds ensures.  It
assumes nothing of the customer, the server or a navigation: polling ends though
the workflow may never do, and a form comes back though its request is lost.

`FairSpec` of `IssueTriage` assumes that the schedule starts runs and that the
calls of a run end; faults are bounded, as an API that always fails labels
nothing.  An issue without an owner is only promised one while the team has a
lead.

## 4. The theorems

All theorems hold for every value of the constants that satisfies the
assumptions named; the proofs are checked with SMT, Zenon and LS4.

### WorkflowExecutionProofs

For all sets of workflows, workers and triggers and all configurations that
satisfy `ConfigAssumption` (the ranges `WorkflowRecoveryWorker.Validate`
enforces, weakened to positive numbers) and `ProcessAssumption` (workers are not
triggers; placeholder values are no workflow and no process):

| Theorem | States |
| --- | --- |
| `InductiveInvariant` | `Spec => []IInv` |
| `TypeCorrect` | `Spec => []TypeOK`, with the cap of the backoff |
| `FenceHolds` | `Spec => []Fence` |
| `AppendOnlyHistory` | `Spec => HistoryIsAppendOnly` |
| `FinalOutcome` | `Spec => OutcomeIsFinal` |
| `RipeReclaim` | `Spec => NoEarlyReclaim` |
| `LifecycleRefined` | `Spec => ImplementsLifecycle` |

`Fence` alone is not inductive: that the event count of an update is right needs
to know that the copy it was made on is exact, that the updates to be made are
non-empty and end in an outcome only with the last one, and that a process which
has claimed works on a row that has been claimed; that an outcome is final needs
to know that a copy in use was active when read.  `IInv` adds these: `RowInv`
(what a row's status implies about it) and `JobInv` (what each phase of a job
implies about the row it works on), the one for each workflow, the other for
each process.  The argument is the same for every writer: its predicate on the
version makes its copy exact, so the row it replaces is the row it read; all
other copies fall behind by one version.  `OthersUndisturbed` states that once,
`WriteStep` and `LocalStep` turn it into the preservation of `IInv` by an action
that writes a row or only a job, and there is one step lemma per action.  The
action properties follow from `IInv` and four lemmas that say who changes a row
and how (`Writers`, `ClaimEffect`, `AbandonEffect`, `CommitEffect`); the
refinement maps these four kinds of change to the steps of the lifecycle and
everything else to a stutter.

### WorkflowExecutionLogProofs

Under the same assumptions, what the event log says:

| Theorem | States |
| --- | --- |
| `LogInvariant` | `Spec => []LogInv` |
| `RunsDoNotInterleave` | `Spec => []ExecutionsDoNotInterleave` |
| `OutcomeLogged` | `Spec => []OutcomeMatchesLog` |
| `ClaimsAccounted` | `Spec => []ClaimsAreAccounted` |

`IInv` makes every update land on the row its process read, but does not say
what the process had read.  `LogInv` adds, for each row, that its log is chained,
matches its status and agrees with the attempt counter (`RowLogInv`), and for
each process what is left of its execution (`Remaining`): a process that still
has a route to write holds a copy whose log ends in its own plan, one that still
has an answer to write a copy whose log ends in its own route.  The version
fence turns the copy into the row, so that what is appended follows the event it
has to follow.  A count of claims grows by one exactly when a worker claims
(`Cardinality` of the claims in a log that was appended to).

### WorkflowApprovalProofs

For all sets of workflows and requests, under `WorkflowAssumption`:

| Theorem | States |
| --- | --- |
| `InductiveInvariant` | `Spec => []IInv` |
| `TypeCorrect` | `Spec => []TypeOK` |
| `RecordsAgree` | `Spec => []DecisionRecordsAgree` |
| `AnswersTrue` | `Spec => []AnswersAreTrue` |
| `DecisionFinal` | `Spec => DecisionIsFinal` |
| `LifecycleRefined` | `Spec => ImplementsLifecycle` |

`IInv` says of a workflow that it bears no trace of a decision, or all the
traces of exactly one (`RowInv`), and of a request that its copy is the stored
row or a decision has been recorded since (`ReqInv`).  The second is what makes
the first inductive: a commit whose version matches acts on the row itself,
which is undecided, and its event count is right (`AppendedExactly`,
`DecisionCounts`); nothing but a decision changes a workflow that waits for one,
so every other request keeps its disjunct or moves to the second
(`OthersUndisturbed`).  What an answer says of the decisions table is in
`ReqInv` too, since a recorded decision stays.  `Committing` gathers what a
commit knows, for the final and the refinement theorem.

### WorkflowEvidenceProofs

For all sets of workflows, uploads and contents, under `EvidenceAssumption`:

| Theorem | States |
| --- | --- |
| `InductiveInvariant` | `Spec => []IInv` |
| `TypeCorrect` | `Spec => []TypeOK` |
| `ContentsDistinct` | `Spec => []NoDuplicateContent` |
| `BatchesWhole` | `Spec => []StoredInFull` |
| `SerialLimit` | `Spec => []SerialUploadsKeepLimit` |
| `TriggerWaits` | `Spec => TriggerWaitsForEvidence` |

`UploadInv` says what an upload at each place of its course has stored, and that
a batch that passed the check repeats no content, which the unique index then
needs; `TriggerInv`, that a trigger task of a workflow with announced evidence
implies stored files; `SerialInv`, that without an overlap at most one upload is
in progress and the sum it checked still holds when it inserts.
`InsertKeepsDistinct` and `InsertStores` are the step that matters, resting on
what concatenation does to a table of rows (`ConcatExtends`, `InsertedRows`).

### AgentRunProofs

For all `MaxAttempts`, `AttemptTimeout` and `BaseDelay` under
`OptionsAssumption`, the ranges `ValidateOptions` enforces:

| Theorem | States |
| --- | --- |
| `RunInvariant` | `Spec => []IInv` |
| `RunTypeCorrect` | `Spec => []TypeOK` |
| `Guardrail` | `Spec => []GuardrailHolds` |
| `FailuresExcused` | `Spec => []OnlyAgentsFailRuns` |
| `BudgetKept` | `Spec => []WithinBudget` |

`LoopInv` lets the attempt counter, the attempts lost and the time spent move
together: at the n-th attempt n - 1 are lost and at most n - 1 timeouts and the
delays after them are spent.  `FailInv` carries the reason of a failure from the
executor to the update that persists it.  `GuardInv` says how strict the context
is at each place: the route is as strict as the policy, and as the planner
unless it was replaced (`RouteIsStrict`), and the approval carried along is at
least as strict as the route until the specialist adds its own.

### WorkspacePageProofs

For every table of polling intervals, every timeout, duration and bound under
`PageAssumption` (they are positive, and there is an interval):

| Theorem | States |
| --- | --- |
| `PageInvariant` | `Spec => []IInv` |
| `TypeCorrect` | `Spec => []TypeOK` |
| `NoSecondSubmission` | `Spec => []NoDoubleSubmissionAtFirst` |
| `ScenarioOfThePrompt` | `Spec => []ScenarioMatchesPrompt` |
| `OnePollingChain` | `Spec => []PollingIsOpen` |
| `ApprovalIsOffered` | `Spec => []ApprovalFormShown` |
| `ReloadsSettle` | `Spec => ReloadSettles` |
| `DisplayKeepsUp` | `Spec => DisplayNeverGoesBack` |

The display rests on an order.  `PageInv` says that the page is never ahead of
the server, `AnswerInv` that an answer on its way lies between the two, and the
order is transitive (`NoLater`, `Behind`); so an answer that arrives moves the
display forward, and so does a reload, which shows what the server has.  That a
reload settles needs `ServerInv` besides: it is only asked for once the
execution has ended.  The forms rest on the safety timers.  `TimersInv` says
that every timer belongs to a busy form and that a form has at most one,
`UnderWayInv` that the timer of a submission under way has at least as much time
left as the submission is young; on a page that came out of the cache neither
holds, which is what `page_stale_timer` shows, and `FormsInv` excludes it as the
property does.

### IssueTriageProofs

For any number of runs and issues, any page size, all texts and all documents
under `TriageAssumption`: there is a text and a version of the documents, a
table is a sequence of rows, and what a cell says is finite.

| Theorem | States |
| --- | --- |
| `HistoryExplains` | `Spec => []IInv` |
| `TypeCorrect` | `Spec => []TypeOK` |
| `OwnersWereDecided` | `Spec => []OwnersAreDecided` |
| `CommentsAreTrue` | `Spec => []CommentsTellTheTruth` |
| `OwnerOfModule` | `Spec => []ModuleOwnerGetsIssue` |

A run acts on what it read some time ago, so nothing it holds need be true of
the issues any more; it stays explained by their history, which only grows
(`Grows`).  `RunInv` says so of each place: the documents were
checked out by a run, on whatever ref, every issue read so far had the text it was read with, every result
is the decision on such a text under such documents, and a comment is only due
for a label that was added.  `OwnersAreDecided` and `CommentsTellTheTruth` then
follow for the step that applies a result.  That a decision is the label of a
member (`DecisionIsLabel`), which the types need, and that the best module is the
most specific one (`BestModuleIsBest`, `OwnerIsDecided`) are facts about loops.
Their induction is carried out by the least length at which the claim would fail
(`LeastNumber`, from the well-founded order of the numbers): once for the
existence of the function that computes the loop, once for what it computes.

`ModuleOwnerGetsIssue` speaks of owners whose name normalisation neither empties
nor makes that of another member (`Recognised`).  Without that it is false:
`findMember` gives up on a name that is empty when normalised, and takes the
first of two members whose names normalise to the same.

### Only model-checked

The liveness properties (`EveryWorkflowResolves`, `FulfilsLifecycle`,
`AnnouncedEvidenceDoesNotBlock`, `BusyEnds`, `PollingEnds`,
`EveryIssueGetsOwner`), since reasoning about fairness is out of reach of the
installed provers.  Every safety property of a passing run is stated by a
theorem.

## 5. Where the code and its documents disagree

Shown by a run:

* `execution_reclaim_delay`: the operations guide (lines 351-353 and 1270)
  promises that crashed work is reclaimed within about 150 seconds.  After the
  fourth claim the backoff alone is 240 seconds, after the fifth 480.
* `approval_reply`: of two concurrent requests with the same decision, the one
  that does not record it may get neither the outcome nor the decided workflow.
  `RepetitionIsIdempotent` has a conjunct for each way; TLC stops at one of them,
  both take as many steps, and with either conjunct in its place the run is still
  violated.
  - `SameDecisionSucceeds`: when the decision is recorded between a request's
    look-up and its version check, the check (`EfWorkflowActionRepository.cs`,
    lines 46-47) refuses the request as stale, a 409, though the look-up made
    after a lost update would have answered it.  The functional specification
    (line 73) calls the same decision a no-op, the operations guide (lines 342
    and 381) idempotent, and `WorkflowApprovalConcurrencyTests.cs` (lines 10-26)
    expects the outcome for both.  `AnswersAreTrue` only says of such an answer
    that some decision has been recorded.
  - `OkShowsDecision`: when it is recorded between a request's first read and its
    look-up, the request answers 200 with `WaitingForApproval`, because the early
    return of `RecordDecisionAsync` leaves the first read in the change tracker
    (functional specification, line 102).
* `agent_escalation`: a planner that names no usable agent is replaced as a
  whole, its request for an approval included, and the workflow may be completed
  without one; the operations guide (lines 121-127), the description of the
  agents (lines 502-504) and the technical specification (line 34) say that
  approval can only be escalated.  `GuardrailHolds` states what the code keeps.
* `evidence_limit`: the limit of five files can be exceeded by concurrent
  uploads (operations guide, line 365).
* `page_stale_timer`: the `pageshow` listener (`site.js`, line 118) enables the
  forms of a page that comes out of the back-forward cache and leaves their
  safety timers set.  After Back and a second submission the timer of the first
  enables the form while the second request is younger than its timeout, which
  the comment in `site.js`, lines 68-70, says must not happen.

Seen while modelling, without a run:

* `AddAsync` never looks at the status of the workflow, so that evidence is
  accepted after its end, which the functional specification (lines 74 and 98)
  says is rejected; `BeginUpload` of `WorkflowEvidence` has no such guard either.
* The worker claims a stale Draft whether or not its evidence has arrived, which
  `Index.cshtml.cs`, lines 129-130, and `WorkflowEndpoints.cs`, lines 17-18, do
  not say; `WorkflowEvidence` has it as `RecoverByWorker`.
* The functional specification (line 98) says that evidence is visible to the
  specialist, the operations guide (lines 222-225) that it is not supplied to
  the agents; the code agrees with the guide.
* A failed run keeps only its profile events, and not even those when the
  failure reached `ExecuteAsync`, though a comment in `WorkflowService.cs`,
  lines 269-273, means to keep what the run accomplished: a plan that was made
  before the specialist failed is not in the log (`PersistFailed`).
* The operations guide (around lines 203-205) lists the HTTP codes that are
  retried; the MCP path retries every `HttpRequestException` and every timeout.
* With the defaults, the attempts of one call may take 90.75 seconds
  (`WithinBudget`), and a run makes two calls after a profile step that has no
  attempt timeout: longer than the 120 seconds after which the recovery worker
  takes a run for dead.  No property compares the two periods, since nothing in
  the repository says that a run is shorter; `WorkflowExecution` lets any run be
  overtaken and shows that this costs repeated work and no consistency.
* Discovery has no attempt timeout, and a response body that stalls is not under
  the timeout of `HttpClient` either, since only the headers are awaited there.
* Discovery asks all agents before each call and once: an agent that is down
  fails every workflow, whichever specialist it needs.
* The 90 seconds after which the page gives up (functional specification, line
  92) count the delays between polls and not the fetches, so that it gives up
  later by up to 15 seconds for each poll.
* Between a submit event and its callback a form of the page is still enabled
  (`site.js`, line 85), and a second submit event in that gap sends it twice.
  `NoDoubleSubmissionAtFirst` says nothing of the gap (`deferred = <<>>`).
* When the comment on a label fails, the label stays and no later run looks at
  the issue again: it has an owner whom nothing announced.  Only the reverse, a
  comment without its label, is excluded (`CommentsTellTheTruth`).
* The parser of `ralph-triage.js` knows no heading of the routing table in this
  repository's `routing.md` ("## Routing Table"), so that only role keywords and
  the lead decide here.  Keywords match inside words ("build" contains "ui"), a
  member whose name normalises to nothing matches every name that is looked up
  in part, and the separate `squad-triage.yml` labels issues by rules of its own.

## 6. Not modelled, and what is left

Not modelled:

* The readiness cache: one verdict, written by one background refresh at a time
  and read by the readiness probe alone; serving an expired verdict while a
  refresh runs is what its comment says it is for.
* The typed-envelope loop of `InvokeAsync` for agents without an MCP endpoint,
  the legacy discovery endpoint and the parsing of JSON-RPC.
* How the contact-channel policy reads a preference, and the tables of demo
  scenarios: text matching and constant data.
* Authorization, request validation and the endpoints that only read.
* In the web UI the list of chosen files, the texts of timeline and
  announcements, the profile page and identity.
  `jquery.validate.unobtrusive.js` is third-party code that the page includes.
* In the triage scripts the splitting of Markdown into cells, the git remote,
  the step that assigns @copilot, and `squad-triage.yml`.
* What has no behaviour to check at run time: the hosted agents (language models
  behind MCP: they answer, fail or time out), the migrator, the composition
  root, Terraform, deployment and smoke-test scripts.

Left of the plan, in this order:

1. `AgentRun` composed with `WorkflowExecution` in place of `RunAgents`, for two
   runs of one workflow with the detailed pipeline.
2. Approval and evidence beside the detailed execution in one state space.
