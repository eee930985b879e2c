---------------------------- MODULE AgentRunProofs ----------------------------
(***************************************************************************)
(* The properties of AgentRun for all options the client accepts.          *)
(*                                                                         *)
(* The guardrail needs what each phase knows of the approvals demanded so  *)
(* far; the other two need that the attempt counter, the attempts lost and *)
(* the time spent move together.                                           *)
(***************************************************************************)
EXTENDS AgentRun, TLAPS

\* The longest the attempts before the n-th can have taken.
SpentBefore(n) == (n - 1) * AttemptTimeout + BaseDelay * (Doubling[n] - 1)

\* The loop of a call: nothing is spent before it begins, and at its n-th
\* attempt n - 1 are lost.
LoopInv ==
  /\ pc \in {"profile", "discover"} => call = NewCall(call.of)
  /\ pc = "profile" => call.of = "planner"
  /\ pc \in {"profile", "discover", "attempt"} =>
       env.lost[call.of] = call.attempt - 1
  /\ call.of = "planner" => env.lost["specialist"] = 0
  /\ pc = "routing" => call.of = "planner"
  /\ pc = "attempt" => call.spent <= SpentBefore(call.attempt)

\* Why a run may fail.
Excused ==
  \/ input.fault
  \/ env.cancelled
  \/ env.broken # {}
  \/ \E c \in Calls : env.lost[c] = MaxAttempts

FailInv == pc = "failing" \/ row.status = "Failed" => Excused

\* The route is at least as strict as the policy, and as the planner unless it
\* was replaced.
RouteIsStrict ==
  /\ Policy(input.request).approval => ctx.route.approval
  /\ ctx.plan.approval => ctx.route.approval \/ IsFallback(ctx.plan)

GuardInv ==
  /\ pc \in {"discover", "attempt"} /\ call.of = "specialist" =>
       RouteIsStrict /\ (ctx.route.approval => ctx.approval)
  /\ pc \in {"plan", "route", "outcome"} =>
       RouteIsStrict /\ (ctx.specialist => ctx.approval)
  /\ pc = "outcome" /\ IsFallback(ctx.plan) => Logged("route_fallback")
  /\ pc # "done" => row.status = "Recovering"
  /\ GuardrailHolds

IInv == TypeOK /\ LoopInv /\ FailInv /\ WithinBudget /\ GuardInv

-------------------------------------------------------------------------------
(* The operators.                                                          *)

\* The policy always names a specialist.
LEMMA PolicyType ==
  ASSUME NEW request \in Requests
  PROVE  Policy(request) \in Route
BY DEF Policy, Requests, Route, Specialists

\* A route is at least as strict as the policy, and as the planner unless the
\* policy replaced it.
LEMMA RouteOfType ==
  ASSUME NEW plan \in Answer, NEW policy \in Route
  PROVE  /\ RouteOf(plan, policy) \in Route
         /\ policy.approval => RouteOf(plan, policy).approval
         /\ plan.approval => RouteOf(plan, policy).approval \/ IsFallback(plan)
BY DEF RouteOf, IsFallback, Answer, Route

\* The initial context is one.
LEMMA InitialContextType == InitialContext \in Context
<1>1. Policy("other") \in Route
  BY PolicyType DEF Requests
<1> QED
  BY <1>1 DEF InitialContext, Context, Memories, Answer

\* A delay is a number.
LEMMA DelayType ==
  ASSUME NEW n \in 1 .. MaxAttempts
  PROVE  Delay(n) \in Nat
<1>1. n \in {1, 2, 3, 4, 5}
  BY OptionsAssumption
<1> QED
  BY <1>1, OptionsAssumption DEF Delay, Doubling

\* The budget of a call is a number.
LEMMA BudgetType == CallBudget \in Int
<1>1. MaxAttempts \in {1, 2, 3, 4, 5}
  BY OptionsAssumption
<1> QED
  BY <1>1, OptionsAssumption DEF CallBudget, Doubling

\* And so is every bound of the loop.
LEMMA SpentType ==
  ASSUME NEW n \in 1 .. MaxAttempts
  PROVE  SpentBefore(n) \in Int
<1>1. n \in {1, 2, 3, 4, 5}
  BY OptionsAssumption
<1> QED
  BY <1>1, OptionsAssumption DEF SpentBefore, Doubling

\* One more lost attempt and its delay stay within what the next may find spent.
LEMMA NextAttemptSpent ==
  ASSUME NEW n \in 1 .. MaxAttempts, ~IsLast(n),
         NEW d \in 0 .. AttemptTimeout
  PROVE  SpentBefore(n) + d + Delay(n) <= SpentBefore(n + 1)
<1> USE OptionsAssumption DEF SpentBefore, Delay, Doubling, IsLast
<1>1. n \in {1, 2, 3, 4}
  OBVIOUS
<1>2. CASE n = 1
  BY <1>2
<1>3. CASE n = 2
  BY <1>3
<1>4. CASE n = 3
  BY <1>4
<1>5. CASE n = 4
  BY <1>5
<1> QED
  BY <1>1, <1>2, <1>3, <1>4, <1>5

\* An attempt that begins within its bound ends within the budget of the call.
LEMMA LastAttemptSpent ==
  ASSUME NEW n \in 1 .. MaxAttempts
  PROVE  SpentBefore(n) + AttemptTimeout <= CallBudget
<1> USE OptionsAssumption DEF SpentBefore, CallBudget, Doubling
<1>1. /\ n * AttemptTimeout <= MaxAttempts * AttemptTimeout
      /\ (n - 1) * AttemptTimeout + AttemptTimeout = n * AttemptTimeout
  <2>1. MaxAttempts \in {1, 2, 3, 4, 5} /\ n \in {1, 2, 3, 4, 5} /\ n <= MaxAttempts
    OBVIOUS
  <2> QED
    BY <2>1
<1>2. BaseDelay * (Doubling[n] - 1) <= BaseDelay * (Doubling[MaxAttempts] - 1)
  <2>1. MaxAttempts \in {1, 2, 3, 4, 5} /\ n \in {1, 2, 3, 4, 5} /\ n <= MaxAttempts
    OBVIOUS
  <2>2. Doubling[n] <= Doubling[MaxAttempts] /\ Doubling[n] \in Nat
        /\ Doubling[MaxAttempts] \in Nat
    BY <2>1
  <2>3. \A a, b, k \in Nat : a <= b => k * (a - 1) <= k * (b - 1)
    OBVIOUS
  <2> QED
    BY <2>2, <2>3
<1>3. /\ (n - 1) * AttemptTimeout \in Int
      /\ BaseDelay * (Doubling[n] - 1) \in Int
      /\ MaxAttempts * AttemptTimeout \in Int
      /\ BaseDelay * (Doubling[MaxAttempts] - 1) \in Int
      /\ n * AttemptTimeout \in Int
  <2>1. MaxAttempts \in {1, 2, 3, 4, 5} /\ n \in {1, 2, 3, 4, 5}
    OBVIOUS
  <2> QED
    BY <2>1
<1>4. \A p, q, r, s, t, u \in Int :
        q + t = r /\ r <= s /\ p <= u => q + p + t <= s + u
  OBVIOUS
<1> QED
  <2> DEFINE q == (n - 1) * AttemptTimeout
             p == BaseDelay * (Doubling[n] - 1)
             r == n * AttemptTimeout
             s == MaxAttempts * AttemptTimeout
             u == BaseDelay * (Doubling[MaxAttempts] - 1)
  <2>1. q + AttemptTimeout = r /\ r <= s /\ p <= u
    BY <1>1, <1>2
  <2>2. p \in Int /\ q \in Int /\ r \in Int /\ s \in Int /\ u \in Int
        /\ AttemptTimeout \in Int
    BY <1>3
  <2>3. SpentBefore(n) = q + p /\ CallBudget = s + u
    BY Zenon DEF SpentBefore, CallBudget
  <2> HIDE DEF p, q, r, s, u
  <2>4. q + p + AttemptTimeout <= s + u
    BY <1>4, <2>1, <2>2
  <2> QED
    BY <2>3, <2>4 DEF p

-------------------------------------------------------------------------------
(* The invariant holds at first.                                           *)

\* Every initial state satisfies the invariant.
LEMMA InitInvariant == Init => IInv
<1> SUFFICES ASSUME Init
             PROVE  IInv
  OBVIOUS
<1> USE OptionsAssumption DEF Init, Calls, NewCall
<1>1. TypeOK
  BY InitialContextType
     DEF TypeOK, InAgents, Status, Event
<1>2. LoopInv
  BY DEF LoopInv
<1>3. FailInv
  BY DEF FailInv
<1>4. WithinBudget
  <2>1. SpentBefore(1) = 0
    BY DEF SpentBefore, Doubling
  <2>2. SpentBefore(1) + AttemptTimeout <= CallBudget
    BY LastAttemptSpent
  <2>3. \A m, t, b \in Int : m = 0 /\ t >= 0 /\ m + t <= b => 0 <= b
    OBVIOUS
  <2>4. CallBudget \in Int
    BY BudgetType
  <2> QED
    BY <2>1, <2>2, <2>3, <2>4 DEF WithinBudget
<1>5. GuardInv
  BY DEF GuardInv, GuardrailHolds
<1> QED
  BY <1>1, <1>2, <1>3, <1>4, <1>5 DEF IInv

-------------------------------------------------------------------------------
(* Types.                                                                  *)

\* The events of an update are a sequence of events.
LEMMA EventsType ==
  /\ ProfileEvents \in Seq(Event)
  /\ RouteEvents \in Seq(Event)
  /\ ContactEvents \in Seq(Event)
<1>1. \A condition \in BOOLEAN : \A event \in Event :
        When(condition, event) \in Seq(Event)
  BY DEF When
<1>2. "route_fallback" \in Event /\ "route_selected" \in Event
      /\ "route_disagreement" \in Event /\ "profile_recalled" \in Event
      /\ "contact_channel_unavailable" \in Event
  BY DEF Event
<1>3. ProfileEvents \in Seq(Event) /\ ContactEvents \in Seq(Event)
  <2>1. (ctx.recalled # "nothing") \in BOOLEAN
        /\ (ctx.recalled = "unavailable_channel") \in BOOLEAN
    OBVIOUS
  <2> QED
    BY <1>1, <1>2, <2>1, Zenon DEF ProfileEvents, ContactEvents
<1>4. RouteEvents \in Seq(Event)
  <2> DEFINE policy == Policy(input.request)
             deviates == ctx.plan # policy
  <2>1. When(deviates, "route_disagreement") \in Seq(Event)
    BY <1>1, <1>2
  <2>2. <<"route_selected">> \in Seq(Event)
        /\ <<"route_fallback", "route_selected">> \in Seq(Event)
    BY <1>2
  <2>3. When(deviates, "route_disagreement") \o <<"route_selected">> \in Seq(Event)
    BY <2>1, <2>2
  <2>4. RouteEvents = IF IsFallback(ctx.plan)
                        THEN <<"route_fallback", "route_selected">>
                        ELSE When(deviates, "route_disagreement") \o <<"route_selected">>
    BY Zenon DEF RouteEvents
  <2> QED
    BY <2>2, <2>3, <2>4, Zenon
<1> QED
  BY <1>3, <1>4

\* An update leaves a well-typed row.
LEMMA WriteType ==
  ASSUME TypeOK, NEW events \in Seq(Event), NEW status \in Status,
         Write(events, status)
  PROVE  row' \in [status : Status, log : Seq(Event)]
<1>1. row.log \o events \in Seq(Event)
  BY DEF TypeOK
<1> QED
  BY <1>1 DEF Write

\* Every step keeps the types.
LEMMA TypeStep ==
  ASSUME TypeOK, LoopInv, [Next]_vars
  PROVE  TypeOK'
<1> USE OptionsAssumption DEF TypeOK, InAgents, Writing, Calls
<1>1. CASE Recall
  BY <1>1 DEF Recall, BeginCall, NewCall, Context, Memories
<1>2. CASE FailRecall
  BY <1>2 DEF FailRecall, AfterFailedRecall, BeginCall, NewCall
<1>3. CASE SimulateFault
  BY <1>3 DEF SimulateFault, Fail
<1>4. CASE Discover
  BY <1>4 DEF Discover
<1>5. CASE FailDiscovery
  BY <1>5, InitialContextType DEF FailDiscovery, Fail, Broke
<1>6. CASE AnswerPlan
  <2>1. call' \in [of : Calls, attempt : 1 .. MaxAttempts, spent : Nat]
    BY <1>6 DEF AnswerPlan
  <2>2. PICK plan \in Answer :
          ctx' = [ctx EXCEPT !.plan = plan, !.approval = plan.approval]
    BY <1>6 DEF AnswerPlan
  <2>3. plan.approval \in BOOLEAN
    BY DEF Answer
  <2>4. ctx' \in Context
    BY <2>2, <2>3 DEF Context
  <2> QED
    BY <1>6, <2>1, <2>4 DEF AnswerPlan
<1>7. CASE SelectRoute
  <2>1. Policy(input.request) \in Route
    BY PolicyType
  <2>2. RouteOf(ctx.plan, Policy(input.request)) \in Route
    BY <2>1, RouteOfType DEF Context
  <2>3. ctx' \in Context
    BY <1>7, <2>2 DEF SelectRoute, Context, Route
  <2> QED
    BY <1>7, <2>3 DEF SelectRoute, BeginCall, NewCall
<1>8. CASE AnswerRequest
  <2>1. call' \in [of : Calls, attempt : 1 .. MaxAttempts, spent : Nat]
    BY <1>8 DEF AnswerRequest
  <2>2. PICK approval \in BOOLEAN :
          ctx' = [ctx EXCEPT !.specialist = approval,
                             !.approval = approval \/ @]
    BY <1>8 DEF AnswerRequest
  <2>3. (approval \/ ctx.approval) \in BOOLEAN
    OBVIOUS
  <2>4. ctx' \in Context
    BY <2>2, <2>3 DEF Context
  <2> QED
    BY <1>8, <2>1, <2>4 DEF AnswerRequest
<1>9. CASE LoseAttempt
  <2>1. env' \in [lost : [Calls -> 0 .. MaxAttempts], broken : SUBSET Calls,
                  cancelled : BOOLEAN]
    <3>1. call.of \in Calls /\ env.lost[call.of] + 1 \in 0 .. MaxAttempts
      BY <1>9 DEF LoseAttempt, LoopInv
    <3>2. env' = [env EXCEPT !.lost[call.of] = @ + 1]
      BY <1>9 DEF LoseAttempt
    <3> QED
      BY <3>1, <3>2
  <2>2. Delay(call.attempt) \in Nat
    BY DelayType
  <2>3. PICK d \in 0 .. AttemptTimeout :
          IF IsLast(call.attempt)
            THEN /\ call' = [call EXCEPT !.spent = @ + d]
                 /\ Fail(ctx)
            ELSE /\ call' = [call EXCEPT !.attempt = @ + 1,
                                         !.spent = @ + d + Delay(call.attempt)]
                 /\ UNCHANGED <<pc, ctx>>
    BY <1>9 DEF LoseAttempt
  <2>4. call' \in [of : Calls, attempt : 1 .. MaxAttempts, spent : Nat]
    <3>1. CASE IsLast(call.attempt)
      BY <2>3, <3>1
    <3>2. CASE ~IsLast(call.attempt)
      <4>1. call' = [call EXCEPT !.attempt = @ + 1,
                                 !.spent = @ + d + Delay(call.attempt)]
        BY <2>3, <3>2
      <4>2. call.attempt + 1 \in 1 .. MaxAttempts
        BY <3>2 DEF IsLast
      <4>3. call.spent + d + Delay(call.attempt) \in Nat
        BY <2>2
      <4> QED
        BY <4>1, <4>2, <4>3
    <3> QED
      BY <3>1, <3>2
  <2>5. pc' \in {pc, "failing"} /\ ctx' = ctx
    BY <2>3 DEF Fail
  <2>6. UNCHANGED <<input, row>>
    BY <1>9 DEF LoseAttempt
  <2> QED
    BY <2>1, <2>4, <2>5, <2>6
<1>10. CASE FailAttempt
  <2>1. call' \in [of : Calls, attempt : 1 .. MaxAttempts, spent : Nat]
    BY <1>10 DEF FailAttempt
  <2>2. ctx' \in Context /\ pc' = "failing"
    BY <1>10, InitialContextType DEF FailAttempt, Fail
  <2> QED
    BY <1>10, <2>1, <2>2 DEF FailAttempt, Broke
<1>11. CASE Cancel
  <2>1. env' \in [lost : [Calls -> 0 .. MaxAttempts], broken : SUBSET Calls,
                  cancelled : BOOLEAN]
    BY <1>11 DEF Cancel
  <2>2. ctx' \in Context /\ pc' = "failing"
    BY <1>11, InitialContextType DEF Cancel, Fail
  <2> QED
    BY <1>11, <2>1, <2>2 DEF Cancel
<1>12. CASE PersistPlan
  <2>1. ProfileEvents \o <<"plan">> \in Seq(Event)
    BY EventsType DEF Event
  <2>2. row' \in [status : Status, log : Seq(Event)]
    BY <1>12, <2>1, WriteType DEF PersistPlan, Status
  <2> QED
    BY <1>12, <2>2 DEF PersistPlan
<1>13. CASE PersistRoute
  <2>1. RouteEvents \o ContactEvents \in Seq(Event)
    BY EventsType
  <2>2. row' \in [status : Status, log : Seq(Event)]
    BY <1>13, <2>1, WriteType DEF PersistRoute, Status
  <2> QED
    BY <1>13, <2>2 DEF PersistRoute
<1>14. CASE PersistOutcome
  <2>1. /\ <<"specialist", "approval_required">> \in Seq(Event)
        /\ <<"specialist", "completed">> \in Seq(Event)
    BY DEF Event
  <2>2. row' \in [status : Status, log : Seq(Event)]
    BY <1>14, <2>1, WriteType DEF PersistOutcome, Status
  <2> QED
    BY <1>14, <2>2 DEF PersistOutcome
<1>15. CASE PersistFailed
  <2>1. ProfileEvents \o <<"failed">> \in Seq(Event)
    BY EventsType DEF Event
  <2>2. row' \in [status : Status, log : Seq(Event)]
    BY <1>15, <2>1, WriteType DEF PersistFailed, Status
  <2> QED
    BY <1>15, <2>2 DEF PersistFailed
<1>16. CASE Abandon
  BY <1>16 DEF Abandon
<1>17. CASE UNCHANGED vars
  BY <1>17 DEF vars
<1> QED
  BY <1>1, <1>2, <1>3, <1>4, <1>5, <1>6, <1>7, <1>8, <1>9, <1>10, <1>11,
     <1>12, <1>13, <1>14, <1>15, <1>16, <1>17 DEF Next, AgentStep, Persist

-------------------------------------------------------------------------------
(* The loop, the reasons to fail, and the budget.                          *)

\* Every step keeps counter, lost attempts and time together.
LEMMA LoopStep ==
  ASSUME TypeOK, LoopInv, [Next]_vars
  PROVE  LoopInv'
<1> USE OptionsAssumption DEF TypeOK, LoopInv, NewCall, Calls
<1>1. SpentBefore(1) = 0
  BY DEF SpentBefore, Doubling
<1>2. CASE Recall \/ FailRecall
  BY <1>2 DEF Recall, FailRecall, AfterFailedRecall, BeginCall
<1>3. CASE SimulateFault \/ FailDiscovery \/ FailAttempt \/ Cancel
  BY <1>3 DEF SimulateFault, FailDiscovery, FailAttempt, Cancel, Fail, Broke
<1>4. CASE Discover
  BY <1>1, <1>4 DEF Discover
<1>5. CASE AnswerPlan \/ AnswerRequest
  BY <1>5 DEF AnswerPlan, AnswerRequest
<1>6. CASE SelectRoute
  BY <1>6 DEF SelectRoute, BeginCall
<1>7. CASE LoseAttempt
  <2>1. CASE IsLast(call.attempt)
    BY <1>7, <2>1 DEF LoseAttempt, Fail
  <2>2. CASE ~IsLast(call.attempt)
    <3>1. PICK d \in 0 .. AttemptTimeout :
            call' = [call EXCEPT !.attempt = @ + 1,
                                 !.spent = @ + d + Delay(call.attempt)]
      BY <1>7, <2>2 DEF LoseAttempt
    <3>2. call'.spent <= SpentBefore(call'.attempt)
      <4>1. SpentBefore(call.attempt) + d + Delay(call.attempt)
              <= SpentBefore(call.attempt + 1)
        BY <2>2, NextAttemptSpent
      <4>2. /\ SpentBefore(call.attempt) \in Int
            /\ SpentBefore(call.attempt + 1) \in Int
            /\ Delay(call.attempt) \in Int
        BY <2>2, SpentType, DelayType DEF IsLast
      <4>3. call.spent <= SpentBefore(call.attempt)
        BY <1>7 DEF LoseAttempt
      <4>4. /\ call'.spent = call.spent + d + Delay(call.attempt)
            /\ call'.attempt = call.attempt + 1
        BY <3>1
      <4> QED
        BY <4>1, <4>2, <4>3, <4>4
    <3>3. pc = "attempt" /\ pc' = "attempt" /\ call'.of = call.of
          /\ call'.attempt = call.attempt + 1
      BY <1>7, <2>2, <3>1 DEF LoseAttempt
    <3>4. env'.lost = [env.lost EXCEPT ![call.of] = @ + 1]
      BY <1>7 DEF LoseAttempt
    <3> QED
      BY <3>2, <3>3, <3>4
  <2> QED
    BY <2>1, <2>2
<1>8. CASE Persist
  BY <1>8 DEF Persist, PersistPlan, PersistRoute, PersistOutcome, PersistFailed
<1>9. CASE Abandon
  BY <1>9 DEF Abandon
<1>10. CASE UNCHANGED vars
  BY <1>10 DEF vars
<1> QED
  BY <1>2, <1>3, <1>4, <1>5, <1>6, <1>7, <1>8, <1>9, <1>10 DEF Next, AgentStep

\* What excuses a failure is never taken back.
LEMMA ExcuseStays ==
  ASSUME TypeOK, LoopInv, Excused, [Next]_vars
  PROVE  Excused'
<1> USE DEF Excused
<1>1. CASE FailDiscovery \/ FailAttempt \/ Cancel
  <2>1. CASE FailDiscovery
    BY <2>1 DEF TypeOK, FailDiscovery, Broke
  <2>2. CASE FailAttempt
    BY <2>2 DEF TypeOK, FailAttempt, Broke
  <2>3. CASE Cancel
    BY <2>3 DEF TypeOK, Cancel
  <2> QED
    BY <1>1, <2>1, <2>2, <2>3
<1>2. CASE LoseAttempt
  <2>1. UNCHANGED input /\ env'.cancelled = env.cancelled /\ env'.broken = env.broken
    BY <1>2 DEF TypeOK, LoseAttempt
  <2>2. \A c \in Calls : env.lost[c] = MaxAttempts => env'.lost[c] = MaxAttempts
    <3>1. env.lost[call.of] < MaxAttempts
      BY <1>2, OptionsAssumption DEF TypeOK, LoopInv, LoseAttempt
    <3>2. env'.lost = [env.lost EXCEPT ![call.of] = @ + 1]
      BY <1>2 DEF TypeOK, LoseAttempt
    <3> QED
      BY <3>1, <3>2 DEF TypeOK
  <2> QED
    BY <2>1, <2>2
<1>3. UNCHANGED <<input, env>> => Excused'
  OBVIOUS
<1> HIDE DEF Excused
<1>4. CASE \/ Recall \/ FailRecall \/ SimulateFault \/ Discover
           \/ AnswerPlan \/ SelectRoute \/ AnswerRequest
  <2>1. UNCHANGED <<input, env>>
    BY <1>4 DEF Recall, FailRecall, SimulateFault, Discover, AnswerPlan,
                SelectRoute, AnswerRequest
  <2> QED
    BY <1>3, <2>1
<1>5. CASE Persist \/ Abandon \/ UNCHANGED vars
  <2>1. UNCHANGED <<input, env>>
    BY <1>5 DEF Persist, PersistPlan, PersistRoute, PersistOutcome,
                PersistFailed, Abandon, vars
  <2> QED
    BY <1>3, <2>1
<1> QED
  BY <1>1, <1>2, <1>4, <1>5 DEF Next, AgentStep

\* Every step into a failure has an excuse.
LEMMA FailStep ==
  ASSUME TypeOK, LoopInv, FailInv, GuardInv, [Next]_vars
  PROVE  FailInv'
<1> SUFFICES ASSUME ~Excused
             PROVE  FailInv'
  BY ExcuseStays DEF FailInv
<1> USE DEF FailInv
<1>1. pc # "failing" /\ row.status # "Failed"
  OBVIOUS
<1>2. CASE SimulateFault
  BY <1>2 DEF SimulateFault, Excused
<1>3. CASE FailDiscovery \/ FailAttempt \/ Cancel
  <2>1. CASE FailDiscovery
    BY <2>1 DEF TypeOK, FailDiscovery, Broke, Excused
  <2>2. CASE FailAttempt
    BY <2>2 DEF TypeOK, FailAttempt, Broke, Excused
  <2>3. CASE Cancel
    BY <2>3 DEF TypeOK, Cancel, Excused
  <2> QED
    BY <1>3, <2>1, <2>2, <2>3
<1>4. CASE LoseAttempt
  <2>1. CASE IsLast(call.attempt)
    <3>1. env'.lost[call.of] = MaxAttempts
      <4>1. env'.lost = [env.lost EXCEPT ![call.of] = @ + 1]
        BY <1>4 DEF TypeOK, LoseAttempt
      <4>2. env.lost[call.of] = MaxAttempts - 1
        BY <1>4, <2>1, OptionsAssumption DEF TypeOK, LoopInv, LoseAttempt, IsLast
      <4> QED
        BY <4>1, <4>2, OptionsAssumption DEF TypeOK
    <3>2. call.of \in Calls
      BY DEF TypeOK
    <3>3. Excused'
      BY <3>1, <3>2 DEF Excused
    <3> QED
      BY <3>3
  <2>2. CASE ~IsLast(call.attempt)
    BY <1>1, <1>4, <2>2 DEF LoseAttempt
  <2> QED
    BY <2>1, <2>2
<1>5. CASE Recall \/ FailRecall \/ Discover \/ AnswerPlan \/ SelectRoute \/ AnswerRequest
  BY <1>1, <1>5 DEF Recall, FailRecall, AfterFailedRecall, BeginCall, Discover,
                    AnswerPlan, SelectRoute, AnswerRequest
<1>6. CASE Persist
  BY <1>1, <1>6 DEF TypeOK, Persist, PersistPlan, PersistRoute, PersistOutcome,
                    PersistFailed, Write
<1>7. CASE Abandon \/ UNCHANGED vars
  BY <1>1, <1>7 DEF Abandon, vars, Excused
<1> QED
  BY <1>2, <1>3, <1>4, <1>5, <1>6, <1>7 DEF Next, AgentStep

\* Every step stays within the budget.
LEMMA BudgetStep ==
  ASSUME TypeOK, LoopInv, WithinBudget, LoopInv', TypeOK', [Next]_vars
  PROVE  WithinBudget'
<1> USE DEF WithinBudget
<1>1. CallBudget \in Int /\ CallBudget >= 0
  <2>1. SpentBefore(1) + AttemptTimeout <= CallBudget
    BY LastAttemptSpent, OptionsAssumption
  <2>2. SpentBefore(1) = 0
    BY OptionsAssumption DEF SpentBefore, Doubling
  <2> QED
    BY <2>1, <2>2, BudgetType, OptionsAssumption
<1>2. CASE Recall \/ FailRecall \/ SelectRoute
  BY <1>1, <1>2 DEF Recall, FailRecall, AfterFailedRecall, SelectRoute, BeginCall, NewCall
<1>3. ASSUME pc = "attempt", NEW d \in 0 .. AttemptTimeout,
             call'.spent = call.spent + d
      PROVE  WithinBudget'
  <2>1. call.spent <= SpentBefore(call.attempt)
    BY <1>3 DEF LoopInv
  <2>2. SpentBefore(call.attempt) + AttemptTimeout <= CallBudget
    BY LastAttemptSpent DEF TypeOK
  <2>3. SpentBefore(call.attempt) \in Int
    BY SpentType DEF TypeOK
  <2> QED
    BY <1>1, <1>3, <2>1, <2>2, <2>3, OptionsAssumption DEF TypeOK
<1>4. CASE AnswerPlan \/ AnswerRequest \/ FailAttempt
  BY <1>3, <1>4 DEF AnswerPlan, AnswerRequest, FailAttempt, TypeOK
<1>5. CASE LoseAttempt
  <2>1. CASE IsLast(call.attempt)
    BY <1>3, <1>5, <2>1 DEF LoseAttempt, TypeOK
  <2>2. CASE ~IsLast(call.attempt)
    <3>1. pc' = "attempt"
      BY <1>5, <2>2 DEF LoseAttempt
    <3>2. call'.spent <= SpentBefore(call'.attempt)
      BY <3>1 DEF LoopInv
    <3>3. call'.attempt \in 1 .. MaxAttempts /\ call'.spent \in Nat
      BY DEF TypeOK
    <3>4. /\ SpentBefore(call'.attempt) + AttemptTimeout <= CallBudget
          /\ SpentBefore(call'.attempt) \in Int
      BY <3>3, LastAttemptSpent, SpentType
    <3> QED
      BY <1>1, <3>2, <3>3, <3>4, OptionsAssumption
  <2> QED
    BY <2>1, <2>2
<1>6. UNCHANGED call => WithinBudget'
  BY DEF CallBudget
<1> QED
  BY <1>2, <1>4, <1>5, <1>6
     DEF Next, AgentStep, Persist, vars, SimulateFault, Discover, FailDiscovery,
         Cancel, PersistPlan, PersistRoute, PersistOutcome, PersistFailed, Abandon

-------------------------------------------------------------------------------
(* The guardrail.                                                          *)

\* What was in the log is in it after an update, and so are the new events.
LEMMA WriteLogs ==
  ASSUME TypeOK, NEW events \in Seq(Event), NEW status, Write(events, status)
  PROVE  /\ row'.status = status
         /\ \A event : Logged(event) => Logged(event)'
         /\ \A i \in DOMAIN events : Logged(events[i])'
<1>1. row.log \in Seq(Event) /\ row'.log = row.log \o events
  BY DEF TypeOK, Write
<1>2. \A event : Logged(event) => Logged(event)'
  <2> SUFFICES ASSUME NEW event, Logged(event)
               PROVE  Logged(event)'
    OBVIOUS
  <2>1. PICK i \in DOMAIN row.log : row.log[i] = event
    BY DEF Logged
  <2>2. i \in DOMAIN row'.log /\ row'.log[i] = row.log[i]
    BY <1>1
  <2> QED
    BY <2>1, <2>2 DEF Logged
<1>3. ASSUME NEW i \in DOMAIN events
      PROVE  Logged(events[i])'
  <2>1. Len(row.log) + i \in DOMAIN row'.log
    BY <1>1
  <2>2. row'.log[Len(row.log) + i] = events[i]
    BY <1>1
  <2> QED
    BY <2>1, <2>2 DEF Logged
<1>4. row'.status = status
  BY DEF Write
<1> QED
  BY <1>2, <1>3, <1>4

\* Every step hands on the approvals demanded so far.
LEMMA GuardStep ==
  ASSUME TypeOK, LoopInv, GuardInv, [Next]_vars
  PROVE  GuardInv'
<1> USE DEF GuardInv
<1>1. ASSUME UNCHANGED row, pc # "done", pc' # "outcome"
      PROVE  /\ pc' # "done" => row'.status = "Recovering"
             /\ GuardrailHolds'
  BY <1>1 DEF GuardrailHolds
<1>2. CASE Recall \/ FailRecall
  <2>1. call'.of = "planner" /\ pc' = "discover" /\ UNCHANGED row /\ pc # "done"
    BY <1>2 DEF Recall, FailRecall, AfterFailedRecall, BeginCall, NewCall
  <2> QED
    BY <1>1, <2>1
<1>3. CASE SimulateFault \/ FailDiscovery \/ FailAttempt \/ Cancel
  <2>1. pc' = "failing" /\ UNCHANGED row /\ pc # "done"
    BY <1>3 DEF SimulateFault, FailDiscovery, FailAttempt, Cancel, Fail, InAgents
  <2> QED
    BY <1>1, <2>1
<1>4. CASE Discover
  <2>1. pc = "discover" /\ pc' = "attempt" /\ UNCHANGED <<input, ctx, call, row>>
    BY <1>4 DEF Discover
  <2> QED
    BY <1>1, <2>1 DEF RouteIsStrict
<1>5. CASE AnswerPlan
  <2>1. pc' = "routing" /\ UNCHANGED row /\ pc # "done"
    BY <1>5 DEF AnswerPlan
  <2> QED
    BY <1>1, <2>1
<1>6. CASE SelectRoute
  <2> DEFINE policy == Policy(input.request)
             route  == RouteOf(ctx.plan, policy)
  <2>1. pc = "routing" /\ pc' = "discover" /\ UNCHANGED <<input, row>>
    BY <1>6 DEF SelectRoute, BeginCall
  <2>2. ctx' = [ctx EXCEPT !.route = route, !.approval = route.approval]
    BY <1>6 DEF SelectRoute
  <2>3. policy \in Route
    BY PolicyType DEF TypeOK
  <2>4. ctx.plan \in Answer
    BY DEF TypeOK, Context
  <2>5. /\ policy.approval => route.approval
        /\ ctx.plan.approval => route.approval \/ IsFallback(ctx.plan)
    BY <2>3, <2>4, RouteOfType
  <2>6. ctx'.route = route /\ ctx'.approval = route.approval /\ ctx'.plan = ctx.plan
    BY <2>2 DEF TypeOK, Context
  <2>7. RouteIsStrict' /\ (ctx'.route.approval => ctx'.approval)
    BY <2>1, <2>5, <2>6 DEF RouteIsStrict, IsFallback
  <2> QED
    BY <1>1, <2>1, <2>7
<1>7. CASE AnswerRequest
  <2>1. pc' = "plan" /\ UNCHANGED <<input, row>> /\ pc = "attempt"
        /\ call.of = "specialist"
    BY <1>7 DEF AnswerRequest
  <2>2. ctx'.plan = ctx.plan /\ ctx'.route = ctx.route
        /\ (ctx'.specialist => ctx'.approval)
    BY <1>7 DEF AnswerRequest, TypeOK, Context
  <2>3. RouteIsStrict'
    BY <2>1, <2>2 DEF RouteIsStrict, IsFallback
  <2> QED
    BY <1>1, <2>1, <2>2, <2>3
<1>8. CASE LoseAttempt
  <2>1. UNCHANGED <<input, ctx, row>> /\ pc = "attempt" /\ pc' \in {"attempt", "failing"}
        /\ call'.of = call.of
    BY <1>8 DEF LoseAttempt, Fail, TypeOK
  <2> QED
    BY <1>1, <2>1 DEF RouteIsStrict
<1>9. CASE PersistPlan
  <2>1. pc = "plan" /\ pc' = "route" /\ row'.status = "Recovering" /\ UNCHANGED <<input, ctx>>
    BY <1>9 DEF PersistPlan, Write
  <2> QED
    BY <2>1 DEF RouteIsStrict, GuardrailHolds
<1>10. CASE PersistRoute
  <2>1. pc = "route" /\ pc' = "outcome" /\ row'.status = "Recovering" /\ UNCHANGED <<input, ctx>>
    BY <1>10 DEF PersistRoute, Write
  <2>2. IsFallback(ctx.plan) => Logged("route_fallback")'
    <3> SUFFICES ASSUME IsFallback(ctx.plan)
                 PROVE  Logged("route_fallback")'
      OBVIOUS
    <3> DEFINE events == RouteEvents \o ContactEvents
    <3>1. RouteEvents = <<"route_fallback", "route_selected">>
      BY DEF RouteEvents
    <3>2. events \in Seq(Event) /\ ContactEvents \in Seq(Event)
      BY EventsType
    <3>3. 1 \in DOMAIN events /\ events[1] = "route_fallback"
      BY <3>1, <3>2
    <3>4. Write(events, "Recovering")
      BY <1>10 DEF PersistRoute
    <3> HIDE DEF events
    <3> QED
      BY <3>2, <3>3, <3>4, WriteLogs
  <2> QED
    BY <2>1, <2>2 DEF RouteIsStrict, GuardrailHolds
<1>11. CASE PersistOutcome
  <2>1. pc = "outcome" /\ pc' = "done" /\ UNCHANGED <<input, ctx>>
    BY <1>11 DEF PersistOutcome
  <2>2. GuardrailHolds'
    <3> SUFFICES ASSUME row'.status = "Completed"
                 PROVE  GuardrailHolds'
      BY DEF GuardrailHolds
    <3>1. ~ctx.approval /\ ~ctx.route.approval
      BY <1>11 DEF PersistOutcome, Write
    <3>2. PICK events \in Seq(Event) : Write(events, "Completed")
      <4>1. <<"specialist", "completed">> \in Seq(Event)
        BY DEF Event
      <4> QED
        BY <1>11, <3>1, <4>1 DEF PersistOutcome
    <3>3. Logged("route_fallback") => Logged("route_fallback")'
      BY <3>2, WriteLogs
    <3> QED
      BY <2>1, <3>1, <3>3 DEF GuardrailHolds, RouteIsStrict
  <2> QED
    BY <2>1, <2>2
<1>12. CASE PersistFailed
  <2>1. pc' = "done" /\ row'.status = "Failed"
    BY <1>12 DEF PersistFailed, Write
  <2> QED
    BY <2>1 DEF GuardrailHolds
<1>13. CASE Abandon
  <2>1. pc' = "done" /\ pc # "done" /\ UNCHANGED row
    BY <1>13 DEF Abandon, InAgents, Writing
  <2> QED
    BY <1>1, <2>1
<1>14. CASE UNCHANGED vars
  BY <1>14 DEF vars, RouteIsStrict, GuardrailHolds, Logged
<1> QED
  BY <1>2, <1>3, <1>4, <1>5, <1>6, <1>7, <1>8, <1>9, <1>10, <1>11, <1>12,
     <1>13, <1>14 DEF Next, AgentStep, Persist

-------------------------------------------------------------------------------
(* The theorems.                                                           *)

\* The inductive invariant holds in every reachable state.
THEOREM RunInvariant == Spec => []IInv
<1>1. IInv /\ [Next]_vars => IInv'
  <2> SUFFICES ASSUME IInv, [Next]_vars
               PROVE  IInv'
    OBVIOUS
  <2> USE DEF IInv
  <2>1. TypeOK' /\ LoopInv'
    BY TypeStep, LoopStep
  <2>2. FailInv' /\ GuardInv'
    BY FailStep, GuardStep
  <2>3. WithinBudget'
    BY <2>1, BudgetStep
  <2> QED
    BY <2>1, <2>2, <2>3
<1> QED
  BY InitInvariant, <1>1, PTL DEF Spec

\* Every reachable state of a run is well typed; the attempt counter never
\* leaves its range.
THEOREM RunTypeCorrect == Spec => []TypeOK
<1>1. IInv => TypeOK
  BY DEF IInv
<1> QED
  BY RunInvariant, <1>1, PTL

\* No run completes past an approval that the policy, the specialist or a planner
\* whose route was taken demanded.
THEOREM Guardrail == Spec => []GuardrailHolds
<1>1. IInv => GuardrailHolds
  BY DEF IInv, GuardInv
<1> QED
  BY RunInvariant, <1>1, PTL

\* The profile service and fewer than MaxAttempts lost attempts fail no run.
THEOREM FailuresExcused == Spec => []OnlyAgentsFailRuns
<1>1. IInv => OnlyAgentsFailRuns
  BY DEF IInv, FailInv, Excused, OnlyAgentsFailRuns
<1> QED
  BY RunInvariant, <1>1, PTL

\* The attempts of a call end within the budget, for all options the client
\* accepts.
THEOREM BudgetKept == Spec => []WithinBudget
<1>1. IInv => WithinBudget
  BY DEF IInv
<1> QED
  BY RunInvariant, <1>1, PTL
===============================================================================
