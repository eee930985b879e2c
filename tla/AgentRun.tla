-------------------------------- MODULE AgentRun --------------------------------
(***************************************************************************)
(* One execution of the agent pipeline, and what it leaves in the row.     *)
(*                                                                         *)
(* WorkflowExecution takes the agents as one step with three possible      *)
(* endings.  Here that step is opened: recalling the customer's profile,   *)
(* calling the planner, routing, calling the specialist, and persisting    *)
(* plan, route and outcome in updates of their own.  Each call discovers   *)
(* the tools of every agent first, once and without a time limit, and then *)
(* makes up to MaxAttempts attempts.  What the agents, their endpoints and *)
(* the profile service do is a free choice at every request; the token of  *)
(* the run may be cancelled, and the process may die, before any step.     *)
(*                                                                         *)
(* Time is counted while a call is in its attempts only: nothing else in   *)
(* the run has a limit to be compared with.                                *)
(***************************************************************************)
EXTENDS Integers, Sequences

CONSTANTS
  MaxAttempts,     \* FoundryMcpClientOptions.MaxAttempts
  AttemptTimeout,  \* FoundryMcpClientOptions.AttemptTimeoutSeconds, in ticks
  BaseDelay        \* FoundryMcpClientOptions.BaseDelayMilliseconds, in ticks

\* ValidateOptions.
ASSUME OptionsAssumption ==
  /\ MaxAttempts \in 1 .. 5
  /\ AttemptTimeout \in Nat \ {0}
  /\ BaseDelay \in Nat

VARIABLES
  pc,     \* where the run is
  input,  \* what it was started with: the request, its customer, a demo fault
  ctx,    \* the WorkflowExecutionContext the executors hand on
  call,   \* the agent being called, and the loop of InvokeMcpToolAsync
  env,    \* what the agents and their endpoints did to this run (history)
  row     \* the status of the workflow and the events this run appended

vars == <<pc, input, ctx, call, env, row>>

-------------------------------------------------------------------------------
(* Requests, routes and answers.                                           *)

\* A message is what WorkflowRoutingPolicy finds in it.
Requests    == {"dispute", "suspicious", "suspicious_action", "other"}
Specialists == {"transaction-explanation", "suspicious-activity", "dispute-planning"}

Route  == [agent : Specialists, approval : BOOLEAN]
\* The planner may name no agent, or one the orchestrator does not know.
Answer == [agent : Specialists \cup {"missing", "unknown"}, approval : BOOLEAN]

\* WorkflowRoutingPolicy.Decide.
Policy(request) ==
  CASE request = "dispute" ->
         [agent |-> "dispute-planning", approval |-> TRUE]
    [] request \in {"suspicious", "suspicious_action"} ->
         [agent    |-> "suspicious-activity",
          approval |-> request = "suspicious_action"]
    [] request = "other" ->
         [agent |-> "transaction-explanation", approval |-> FALSE]

IsFallback(plan) == plan.agent \notin Specialists

\* Mutant: a planner that names a valid agent decides about the approval too.
RouteOf_PlannerDecides(plan, policy) ==
  IF IsFallback(plan) THEN policy
                      ELSE [agent |-> plan.agent, approval |-> plan.approval]

\* The planner picks the agent, the policy can only add an approval; a planner
\* without a usable agent is replaced by the policy altogether.
RouteOf(plan, policy) ==
  IF IsFallback(plan)
    THEN policy
    ELSE [agent |-> plan.agent, approval |-> plan.approval \/ policy.approval]

\* What was recalled: nothing, preferences, or preferences that name a contact
\* channel this service does not offer.
Memories == {"nothing", "preferences", "unavailable_channel"}

Context == [recalled   : Memories,
            plan       : Answer,
            route      : Route,
            approval   : BOOLEAN,
            specialist : BOOLEAN]

\* The initial context.  Fields no executor has written yet hold a default that
\* is never read: a run fails before it reads them.
InitialContext ==
  [recalled   |-> "nothing",
   plan       |-> [agent |-> "missing", approval |-> FALSE],
   route      |-> Policy("other"),
   approval   |-> FALSE,
   specialist |-> FALSE]

-------------------------------------------------------------------------------
(* The attempts of a call.                                                 *)

Calls    == {"planner", "specialist"}
Doubling == <<1, 2, 4, 8, 16>>

\* Mutant: the first retry already waits twice the base.
Delay_Doubled(attempt) == BaseDelay * Doubling[attempt] * 2

\* DelayBeforeRetryAsync after the given attempt.
Delay(attempt) == BaseDelay * Doubling[attempt]

\* The longest the attempts of one call can take, with the delays between them.
CallBudget ==
  MaxAttempts * AttemptTimeout + BaseDelay * (Doubling[MaxAttempts] - 1)

\* Mutant: one attempt too many.
IsLast_OneMore(attempt) == attempt > MaxAttempts

IsLast(attempt) == attempt >= MaxAttempts

-------------------------------------------------------------------------------
(* The rows.                                                               *)

Status == {"Recovering", "WaitingForApproval", "Completed", "Failed"}
Event  == {"profile_recalled", "plan", "route_fallback", "route_disagreement",
           "route_selected", "contact_channel_unavailable", "specialist",
           "approval_required", "completed", "failed"}

When(condition, event) == IF condition THEN <<event>> ELSE <<>>

ProfileEvents == When(ctx.recalled # "nothing", "profile_recalled")

RouteEvents ==
  LET policy == Policy(input.request) IN
  IF IsFallback(ctx.plan)
    THEN <<"route_fallback", "route_selected">>
    ELSE When(ctx.plan # policy, "route_disagreement") \o <<"route_selected">>

ContactEvents ==
  When(ctx.recalled = "unavailable_channel", "contact_channel_unavailable")

Logged(event) == \E i \in DOMAIN row.log : row.log[i] = event

Write(events, status) ==
  row' = [status |-> status, log |-> row.log \o events]

-------------------------------------------------------------------------------

InAgents == {"profile", "discover", "attempt", "routing"}
Writing  == {"plan", "route", "outcome", "failing"}

TypeOK ==
  /\ pc \in InAgents \cup Writing \cup {"done"}
  /\ input \in [request : Requests, profile : BOOLEAN, fault : BOOLEAN]
  /\ ctx \in Context
  /\ call \in [of : Calls, attempt : 1 .. MaxAttempts, spent : Nat]
  /\ env \in [lost : [Calls -> 0 .. MaxAttempts], broken : SUBSET Calls,
              cancelled : BOOLEAN]
  /\ row \in [status : Status, log : Seq(Event)]

NewCall(c) == [of |-> c, attempt |-> 1, spent |-> 0]

Init ==
  /\ pc = "profile"
  /\ input \in [request : Requests, profile : BOOLEAN, fault : BOOLEAN]
  /\ ctx = InitialContext
  /\ call = NewCall("planner")
  /\ env = [lost |-> [c \in Calls |-> 0], broken |-> {}, cancelled |-> FALSE]
  /\ row = [status |-> "Recovering", log |-> <<>>]

\* The run is over for the executors, with the context that is reported: the
\* one handed on when a step caught the failure, the initial one otherwise.
Fail(context) ==
  /\ pc' = "failing"
  /\ ctx' = context

Broke == env' = [env EXCEPT !.broken = @ \cup {call.of}]

-------------------------------------------------------------------------------
(* The profile step: skipped without a customer or a configured client.    *)

BeginCall(c) ==
  /\ pc' = "discover"
  /\ call' = NewCall(c)

Recall ==
  /\ pc = "profile"
  /\ \E memory \in IF input.profile THEN Memories ELSE {"nothing"} :
       ctx' = [ctx EXCEPT !.recalled = memory]
  /\ BeginCall("planner")
  /\ UNCHANGED <<input, env, row>>

\* Mutant: the step reports its failure like the planner does.
AfterFailedRecall_Closed == Fail(ctx) /\ UNCHANGED call

\* Whatever the profile service throws is swallowed.
AfterFailedRecall == BeginCall("planner") /\ UNCHANGED ctx

FailRecall ==
  /\ pc = "profile"
  /\ input.profile
  /\ AfterFailedRecall
  /\ UNCHANGED <<input, env, row>>

-------------------------------------------------------------------------------
(* A call: InvokeAgentAsync, DiscoverToolsAsync, InvokeMcpToolAsync.       *)

\* A demo scenario may simulate an agent that fails or times out.
SimulateFault ==
  /\ pc = "discover"
  /\ input.fault
  /\ Fail(ctx)
  /\ UNCHANGED <<input, call, env, row>>

Discover ==
  /\ pc = "discover"
  /\ ~input.fault
  /\ pc' = "attempt"
  /\ UNCHANGED <<input, ctx, call, env, row>>

\* One endpoint that fails is enough, whichever agent is called.  An HTTP error
\* is caught by the step, anything else (a protocol error) by ExecuteAsync.
FailDiscovery ==
  /\ pc = "discover"
  /\ ~input.fault
  /\ \E context \in {ctx, InitialContext} : Fail(context)
  /\ Broke
  /\ UNCHANGED <<input, call, row>>

\* An attempt that ends after d ticks in the planner's answer.
AnswerPlan ==
  /\ pc = "attempt"
  /\ call.of = "planner"
  /\ \E d \in 0 .. AttemptTimeout : call' = [call EXCEPT !.spent = @ + d]
  /\ \E plan \in Answer :
       ctx' = [ctx EXCEPT !.plan = plan, !.approval = plan.approval]
  /\ pc' = "routing"
  /\ UNCHANGED <<input, env, row>>

\* ExecuteRoutingStepAsync, which the specialist's call follows.
SelectRoute ==
  /\ pc = "routing"
  /\ LET route == RouteOf(ctx.plan, Policy(input.request)) IN
       ctx' = [ctx EXCEPT !.route = route, !.approval = route.approval]
  /\ BeginCall("specialist")
  /\ UNCHANGED <<input, env, row>>

\* An answer of the specialist; the terminal step copies the context, and the
\* run has succeeded.
AnswerRequest ==
  /\ pc = "attempt"
  /\ call.of = "specialist"
  /\ \E d \in 0 .. AttemptTimeout : call' = [call EXCEPT !.spent = @ + d]
  /\ \E approval \in BOOLEAN :
       ctx' = [ctx EXCEPT !.specialist = approval,
                          !.approval = approval \/ @]
  /\ pc' = "plan"
  /\ UNCHANGED <<input, env, row>>

\* A timeout or an HTTP error: tried again after a delay, unless it was the last
\* attempt, which gives an error result.
LoseAttempt ==
  /\ pc = "attempt"
  /\ env' = [env EXCEPT !.lost[call.of] = @ + 1]
  /\ \E d \in 0 .. AttemptTimeout :
       IF IsLast(call.attempt)
         THEN /\ call' = [call EXCEPT !.spent = @ + d]
              /\ Fail(ctx)
         ELSE /\ call' = [call EXCEPT !.attempt = @ + 1,
                                      !.spent = @ + d + Delay(call.attempt)]
              /\ UNCHANGED <<pc, ctx>>
  /\ UNCHANGED <<input, row>>

\* A protocol error or an unusable answer is not tried again; an exception
\* neither the client nor the step expects (a malformed body, a token that is
\* refused) ends the execution with the initial context.
FailAttempt ==
  /\ pc = "attempt"
  /\ \E d \in 0 .. AttemptTimeout : call' = [call EXCEPT !.spent = @ + d]
  /\ \E context \in {ctx, InitialContext} : Fail(context)
  /\ Broke
  /\ UNCHANGED <<input, row>>

\* The token is cancelled while an executor runs: the failure is persisted
\* without it and without the context.
Cancel ==
  /\ pc \in InAgents
  /\ env' = [env EXCEPT !.cancelled = TRUE]
  /\ Fail(InitialContext)
  /\ UNCHANGED <<input, call, row>>

-------------------------------------------------------------------------------
(* Persisting the result: each action one versioned update.                *)

PersistPlan ==
  /\ pc = "plan"
  /\ Write(ProfileEvents \o <<"plan">>, "Recovering")
  /\ pc' = "route"
  /\ UNCHANGED <<input, ctx, call, env>>

PersistRoute ==
  /\ pc = "route"
  /\ Write(RouteEvents \o ContactEvents, "Recovering")
  /\ pc' = "outcome"
  /\ UNCHANGED <<input, ctx, call, env>>

PersistOutcome ==
  /\ pc = "outcome"
  /\ IF ctx.approval \/ ctx.route.approval
       THEN Write(<<"specialist", "approval_required">>, "WaitingForApproval")
       ELSE Write(<<"specialist", "completed">>, "Completed")
  /\ pc' = "done"
  /\ UNCHANGED <<input, ctx, call, env>>

PersistFailed ==
  /\ pc = "failing"
  /\ Write(ProfileEvents \o <<"failed">>, "Failed")
  /\ pc' = "done"
  /\ UNCHANGED <<input, ctx, call, env>>

\* The process dies, or an update is refused because another execution has
\* taken the workflow over, or is cancelled: the rest is not written.
Abandon ==
  /\ pc \in InAgents \cup Writing
  /\ pc' = "done"
  /\ UNCHANGED <<input, ctx, call, env, row>>

-------------------------------------------------------------------------------

AgentStep ==
  \/ Recall \/ FailRecall
  \/ SimulateFault \/ Discover \/ FailDiscovery
  \/ AnswerPlan \/ SelectRoute \/ AnswerRequest
  \/ LoseAttempt \/ FailAttempt
  \/ Cancel

Persist == PersistPlan \/ PersistRoute \/ PersistOutcome \/ PersistFailed

Next == AgentStep \/ Persist \/ Abandon

Spec == Init /\ [][Next]_vars

-------------------------------------------------------------------------------
(* Properties.                                                             *)

\* A workflow is completed without an approval only if the policy asks for none,
\* the specialist asked for none, and the planner, unless it was replaced by the
\* fallback, asked for none.  What the planner demanded on a route that was not
\* taken is lost, and the log says that there was a fallback; ApprovalOnlyEscalates
\* below is the promise without that exception.  (The routing and specialist steps
\* of AgentFrameworkWorkflowOrchestrator, the terminal status in WorkflowService.)
GuardrailHolds ==
  row.status = "Completed" =>
    /\ ~Policy(input.request).approval
    /\ ~ctx.specialist
    /\ ctx.plan.approval => Logged("route_fallback")

\* "WorkflowRoutingPolicy ... never de-escalates planner approval": a workflow is
\* completed without an approval only if none of policy, planner and specialist
\* asked for one, whatever became of the planner's route.  (The operations guide,
\* the technical specification and the description of the agents say so of the
\* routing step.)
ApprovalOnlyEscalates ==
  row.status = "Completed" =>
    ~Policy(input.request).approval /\ ~ctx.plan.approval /\ ~ctx.specialist

\* A run fails only for one of its agents, for a simulated fault, or because it
\* was cancelled: an agent endpoint or an answer was bad, or all attempts of one
\* call were lost.  The profile service never fails a run, and fewer lost
\* attempts than MaxAttempts never do.  (The fail-open profile step and the retry
\* loop of InvokeMcpToolAsync.)
OnlyAgentsFailRuns ==
  row.status = "Failed" =>
    \/ input.fault
    \/ env.cancelled
    \/ env.broken # {}
    \/ \E c \in Calls : env.lost[c] = MaxAttempts

\* The attempts of a call end within the budget the options give it, delays
\* included.  (AttemptTimeoutSeconds and DelayBeforeRetryAsync.  With the defaults
\* this is 90.75 seconds a call; the staleness period of the recovery worker is no
\* part of this module.)
WithinBudget == call.spent <= CallBudget
===============================================================================
