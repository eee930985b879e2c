----------------------------- MODULE WorkspacePage -----------------------------
(***************************************************************************)
(* The workspace page in the customer's browser: its two forms, which a    *)
(* submission disables and a timer or a return to the page enables again,  *)
(* and the polling of a workflow's status until it settles.                *)
(*                                                                         *)
(* The browser has one navigation under way at most, and a later one, be   *)
(* it a submission or a reload, takes the place of an earlier one.  When a *)
(* submission is answered the model follows either the page that comes     *)
(* next or the one that was left, which Back may bring out of the browser's*)
(* back-forward cache with its timers still set.                           *)
(***************************************************************************)
EXTENDS Naturals, Sequences

CONSTANTS
  Workflow,      \* the workflow the page shows, once it has been submitted
  MaxAttempts,   \* WorkflowRecoveryOptions.MaxAttempts
  RestoreAfter,  \* LOADING_SAFETY_RESTORE_MS, in steps of the clock
  Intervals,     \* INTERVALS of the polling, in seconds
  FlatInterval,  \* the interval when the customer prefers reduced motion
  MaxDuration,   \* MAX_DURATION_MS, in seconds
  MaxDeferred    \* bound: submissions before a timer of 0 ms runs

ASSUME PageAssumption ==
  /\ MaxAttempts \in Nat \ {0}
  /\ RestoreAfter \in Nat \ {0}
  /\ Intervals \in Seq(Nat \ {0}) /\ Intervals # <<>>
  /\ FlatInterval \in Nat \ {0}
  /\ MaxDuration \in Nat \ {0}
  /\ MaxDeferred \in Nat \ {0}

VARIABLES
  status, attempts, decision,  \* the workflow, as WorkflowLifecycle has it
  planned,        \* the log has the event "workflow.plan"
  supportCase,    \* the workflow has a support case
  reducedMotion,  \* the customer's preference
  here,      \* the page is shown, not kept in the back-forward cache
  page,      \* what it shows
  request,   \* the message and the demo scenario filled in
  poll,      \* the polling: closures of startPolling
  busy,      \* the forms with the class is-loading
  deferred,  \* the 0 ms callbacks of submit events, in order
  restores,  \* the safety timers set, with the time they have left
  nav        \* the navigation under way

execution == <<status, attempts, decision>>
server    == <<execution, planned, supportCase>>
forms     == <<busy, deferred, restores>>
vars == <<server, reducedMotion, here, page, request, poll, forms, nav>>

Lifecycle == INSTANCE WorkflowLifecycle WITH Workflows <- {Workflow}

-------------------------------------------------------------------------------
Forms == {"request", "approval"}

\* The demo scenario of a message: its own, or none when it was typed.
Texts == {"typed", "prompt"}
ScenarioOf(text) == IF text = "prompt" THEN "demo" ELSE "none"
NoRequest == [text |-> "typed", scenario |-> "none"]

TERMINAL == {"Completed", "Failed", "Rejected", "WaitingForApproval"}

Snapshot ==
  [status : Lifecycle!Statuses, plan : BOOLEAN, case : BOOLEAN]

Marks == {"none", "active", "done"}
Track == Marks \X Marks \X Marks

Page ==
  [panel : BOOLEAN,         \* there is a workflow panel
   shown : Lifecycle!Statuses,
   track : Track,           \* the marks of Plan, Investigate and Decide
   approvalForm : BOOLEAN,
   supportCard : BOOLEAN,
   notice : BOOLEAN,        \* the timeout notice is visible
   interrupted : BOOLEAN,   \* a reload it began did not come to pass
   restored : BOOLEAN]      \* it came out of the back-forward cache

Poll ==
  [live : BOOLEAN,             \* not cancelled
   timer : BOOLEAN,            \* a call of poll is scheduled
   asked : BOOLEAN,            \* a fetch the server has not read for yet
   answers : SUBSET Snapshot,  \* what it has read, still to be received
   attempt : Nat,
   elapsed : Nat]

Nav == [kind : {"none", "post", "reload"},
        form : Forms \cup {"none"}, age : 0..RestoreAfter]
NoNav == [kind |-> "none", form |-> "none", age |-> 0]

-------------------------------------------------------------------------------
(* The page as the server renders it.                                      *)

\* The events that mark the end of an execution are written with its status.
HasTerminalEvent(s) == s \in TERMINAL

\* Mutant: a workflow that waits for its approval is rendered as processing.
IsProcessing_UntilEnd(s) == s \in {"Draft", "Recovering", "WaitingForApproval"}

IsProcessing(s) == s \in {"Draft", "Recovering"}

RenderedTrack(s, plan) ==
  <<IF plan THEN "done" ELSE "active",
    IF ~plan THEN "none"
    ELSE IF HasTerminalEvent(s) THEN "done" ELSE "active",
    IF ~HasTerminalEvent(s) THEN "none"
    ELSE IF s = "WaitingForApproval" THEN "active" ELSE "done">>

\* The page without a workflow, also what a failed load or an error leaves.
StartPage ==
  [panel |-> FALSE, shown |-> "Absent", track |-> <<"none", "none", "none">>,
   approvalForm |-> FALSE, supportCard |-> FALSE, notice |-> FALSE,
   interrupted |-> FALSE, restored |-> FALSE]

WorkflowPage(s, plan, case) ==
  [StartPage EXCEPT
     !.panel = TRUE, !.shown = s, !.track = RenderedTrack(s, plan),
     !.approvalForm = (s = "WaitingForApproval"), !.supportCard = case]

NoPoll == [live |-> FALSE, timer |-> FALSE, asked |-> FALSE, answers |-> {},
           attempt |-> 0, elapsed |-> 0]

\* The polling a page starts with: the first poll is scheduled.
InitialPoll(p) ==
  IF p.panel /\ IsProcessing(p.shown)
  THEN [NoPoll EXCEPT !.live = TRUE, !.timer = TRUE] ELSE NoPoll

Init ==
  /\ Lifecycle!Init
  /\ planned = FALSE /\ supportCase = FALSE
  /\ reducedMotion \in BOOLEAN
  /\ here = TRUE
  /\ page = StartPage
  /\ request = NoRequest
  /\ poll = NoPoll
  /\ busy = {} /\ deferred = <<>> /\ restores = {}
  /\ nav = NoNav

-------------------------------------------------------------------------------
(* The server.                                                             *)

PersistPlan ==
  /\ status[Workflow] = "Recovering" /\ ~planned
  /\ planned' = TRUE
  /\ UNCHANGED <<execution, supportCase>>

\* An execution that failed may have persisted no plan; the others have.
Finish ==
  /\ Lifecycle!Finish(Workflow)
  /\ planned \/ status'[Workflow] = "Failed"
  /\ UNCHANGED <<planned, supportCase>>

\* Approving a dispute creates its support case.
Decide ==
  /\ Lifecycle!Decide(Workflow)
  /\ supportCase' \in {FALSE, decision'[Workflow] = "approve"}
  /\ UNCHANGED planned

PickUp ==
  /\ Lifecycle!PickUp(Workflow) \/ Lifecycle!Recover(Workflow)
  /\ UNCHANGED <<planned, supportCase>>

ServerStep ==
  /\ PickUp \/ PersistPlan \/ Finish \/ Decide
  /\ UNCHANGED <<reducedMotion, here, page, request, poll, forms, nav>>

-------------------------------------------------------------------------------
(* Loading a page.                                                         *)

\* A document that is loaded has nothing of the one before it.
Show(p) ==
  /\ page' = p
  /\ poll' = InitialPoll(p)
  /\ busy' = {} /\ deferred' = <<>> /\ restores' = {}
  /\ nav' = NoNav
  /\ UNCHANGED here

\* OnGetAsync: the workflow's page, or one without it when the API fails.
Load ==
  /\ \/ Show(StartPage)
     \/ /\ status[Workflow] # "Absent"
        /\ Show(WorkflowPage(status[Workflow], planned, supportCase))
  /\ request' = NoRequest

\* The customer follows a link, Refresh or Reset workspace, or comes back to the
\* workflow by its address.
FollowLink ==
  /\ here
  /\ Load
  /\ UNCHANGED <<server, reducedMotion>>

CompleteReload ==
  /\ here /\ nav.kind = "reload"
  /\ Load
  /\ UNCHANGED <<server, reducedMotion>>

-------------------------------------------------------------------------------
(* The forms.                                                              *)

\* A click on a demo scenario fills in the message and the scenario.
SelectScenario ==
  /\ here /\ "request" \notin busy
  /\ request.scenario = "none"
  /\ request' = [text |-> "prompt", scenario |-> "demo"]
  /\ UNCHANGED <<server, reducedMotion, here, page, poll, forms, nav>>

\* Mutant: there is no listener for input.
EditMessage_KeepScenario ==
  /\ here /\ "request" \notin busy
  /\ request.text = "prompt"
  /\ request' = [request EXCEPT !.text = "typed"]
  /\ UNCHANGED <<server, reducedMotion, here, page, poll, forms, nav>>

\* Input of the customer's own takes the scenario away.
EditMessage ==
  /\ here /\ "request" \notin busy
  /\ request.text = "prompt"
  /\ request' = NoRequest
  /\ UNCHANGED <<server, reducedMotion, here, page, poll, forms, nav>>

Interactive(f) ==
  /\ here /\ f \notin busy
  /\ f = "approval" => page.approvalForm

\* What becomes of the page when another navigation takes over.
Overridden ==
  IF nav.kind = "reload" THEN [page EXCEPT !.interrupted = TRUE] ELSE page

\* A submit event of a form found valid: the busy state is left to a callback,
\* because a listener registered later may still cancel the submission.  An
\* invalid form is left as it is.
Submit(f, cancelled) ==
  /\ Interactive(f)
  /\ Len(deferred) < MaxDeferred
  /\ deferred' = Append(deferred, [form |-> f, cancelled |-> cancelled])
  /\ IF cancelled THEN UNCHANGED <<nav, page>>
     ELSE /\ nav' = [kind |-> "post", form |-> f, age |-> 0]
          /\ page' = Overridden
  /\ UNCHANGED <<server, reducedMotion, here, request, poll, busy, restores>>

\* Mutant: no safety timer is set.
EnterBusy_NoTimer ==
  /\ here /\ deferred # <<>>
  /\ deferred' = Tail(deferred)
  /\ busy' = IF Head(deferred).cancelled THEN busy
             ELSE busy \cup {Head(deferred).form}
  /\ UNCHANGED <<server, reducedMotion, here, page, request, poll, restores, nav>>

\* The callback of a submit event: unless it was cancelled, the form's
\* controls are disabled and the safety timer is set.
EnterBusy ==
  /\ here /\ deferred # <<>>
  /\ deferred' = Tail(deferred)
  /\ LET f == Head(deferred).form IN
     IF Head(deferred).cancelled THEN UNCHANGED <<busy, restores>>
     ELSE /\ busy' = busy \cup {f}
          /\ restores' = restores \cup {[form |-> f, left |-> RestoreAfter]}
  /\ UNCHANGED <<server, reducedMotion, here, page, request, poll, nav>>

\* The safety timer: the form is enabled again if it still is disabled.
SafetyRestore(r) ==
  /\ here /\ r \in restores /\ r.left = 0
  /\ restores' = restores \ {r}
  /\ busy' = busy \ {r.form}
  /\ UNCHANGED <<server, reducedMotion, here, page, request, poll, deferred, nav>>

\* Mutant: the safety timer is shorter than the timeout of the request.
Elapse_TwiceAsFast(r) ==
  [r EXCEPT !.left = IF @ > 1 THEN @ - 2 ELSE 0]

Elapse(r) == [r EXCEPT !.left = @ - 1]

\* Time passes for the page that is shown; what is due is done before.
Tick ==
  /\ here /\ deferred = <<>>
  /\ \A r \in restores : r.left > 0
  /\ restores # {} \/ (nav.kind = "post" /\ nav.age < RestoreAfter)
  /\ restores' = {Elapse(r) : r \in restores}
  /\ nav' = IF nav.kind = "post" /\ nav.age < RestoreAfter
            THEN [nav EXCEPT !.age = @ + 1] ELSE nav
  /\ UNCHANGED <<server, reducedMotion, here, page, request, poll, busy, deferred>>

\* A submission is answered.  That of a request may have created the workflow;
\* an approval may have been recorded by then (Decide).
Handled ==
  \/ /\ nav.form = "request"
     /\ Lifecycle!Submit(Workflow)
     /\ UNCHANGED <<planned, supportCase>>
  \/ UNCHANGED server

\* What OnPostAsync and OnPostApproveAsync answer with: the workflow's page or,
\* when they fail, a page with an error that keeps the request it was sent.
CompletePost ==
  /\ here /\ nav.kind = "post" /\ deferred = <<>>
  /\ Handled
  /\ \/ /\ nav.form = "approval" \/ status # status'
        /\ Show(WorkflowPage(status'[Workflow], planned, supportCase))
        /\ request' = NoRequest
     \/ /\ Show(StartPage)
        /\ request' = IF nav.form = "request" THEN request ELSE NoRequest
  /\ UNCHANGED reducedMotion

\* As before, with the page that is left kept in the back-forward cache: it is
\* not when a fetch of it is under way.
LeaveByPost ==
  /\ here /\ nav.kind = "post" /\ deferred = <<>>
  /\ ~poll.asked /\ poll.answers = {}
  /\ Handled
  /\ here' = FALSE
  /\ nav' = NoNav
  /\ UNCHANGED <<reducedMotion, page, request, poll, forms>>

\* Back: pageshow with persisted set enables every form, and leaves the safety
\* timers set.
PageShow ==
  /\ ~here
  /\ here' = TRUE
  /\ busy' = {}
  /\ page' = [page EXCEPT !.restored = TRUE]
  /\ UNCHANGED <<server, reducedMotion, request, poll, deferred, restores, nav>>

\* The navigation comes to nothing and the page stays: it was stopped.
BlockNavigation ==
  /\ here /\ nav.kind # "none" /\ deferred = <<>>
  /\ nav' = NoNav
  /\ page' = Overridden
  /\ UNCHANGED <<server, reducedMotion, here, request, poll, forms>>

-------------------------------------------------------------------------------
(* Polling.                                                                *)

PollInterval(n) ==
  IF reducedMotion THEN FlatInterval
  ELSE Intervals[IF n < Len(Intervals) THEN n + 1 ELSE Len(Intervals)]

\* Mutant: the last call of scheduleNext does not show the notice.
ScheduleNext_Silently(p, q) ==
  LET elapsed == q.elapsed + PollInterval(q.attempt)
      next    == [q EXCEPT !.elapsed = elapsed, !.attempt = @ + 1] IN
  /\ poll' = [next EXCEPT !.live = elapsed < MaxDuration,
                          !.timer = elapsed < MaxDuration]
  /\ page' = p

\* Mutant: the time polled for is not limited.
ScheduleNext_Forever(p, q) ==
  /\ poll' = [q EXCEPT !.timer = TRUE]
  /\ page' = p

\* scheduleNext: only the delays between polls count as elapsed.
ScheduleNext(p, q) ==
  LET elapsed == q.elapsed + PollInterval(q.attempt)
      next    == [q EXCEPT !.elapsed = elapsed, !.attempt = @ + 1] IN
  IF elapsed >= MaxDuration
  THEN /\ poll' = [next EXCEPT !.live = FALSE]
       /\ page' = [p EXCEPT !.notice = TRUE]
  ELSE /\ poll' = [next EXCEPT !.timer = TRUE]
       /\ page' = p

\* Mutant: the polls follow each other without waiting for an answer.
StartPoll_KeepTimer ==
  /\ here /\ poll.timer /\ poll.live
  /\ poll' = [poll EXCEPT !.asked = TRUE]
  /\ UNCHANGED <<server, reducedMotion, here, page, request, forms, nav>>

\* The timer runs poll, which fetches the status.
StartPoll ==
  /\ here /\ poll.timer /\ poll.live
  /\ poll' = [poll EXCEPT !.timer = FALSE, !.asked = TRUE]
  /\ UNCHANGED <<server, reducedMotion, here, page, request, forms, nav>>

\* OnGetPollAsync reads the workflow; the answer is on its way.
AnswerPoll ==
  /\ here /\ poll.asked
  /\ poll' = [poll EXCEPT !.asked = FALSE, !.answers = @ \cup
       {[status |-> status[Workflow], plan |-> planned, case |-> supportCase]}]
  /\ UNCHANGED <<server, reducedMotion, here, page, request, forms, nav>>

\* The fetch fails, times out, or is answered with an error or no status.
FailPoll ==
  /\ here /\ poll.asked
  /\ ScheduleNext(page, [poll EXCEPT !.asked = FALSE])
  /\ UNCHANGED <<server, reducedMotion, here, request, forms, nav>>

\* Mutant: a failed workflow gets a mark that the page does not know.
StageTrack_MarkFailure(data) ==
  IF data.status = "Failed" THEN <<"done", "done", "failed">>
  ELSE RenderedTrack(data.status, data.plan)

\* updateStages: nothing past the plan is marked before the plan is there.
StageTrack(data) ==
  IF ~data.plan THEN <<"active", "none", "none">>
  ELSE IF ~HasTerminalEvent(data.status) THEN <<"done", "active", "none">>
  ELSE <<"done", "done",
         IF data.status = "WaitingForApproval" THEN "active" ELSE "done">>

\* Mutant: the reload that brings the approval form is forgotten.
Reloads_OnFailure(data) ==
  data.status = "Failed" \/ (data.case /\ ~page.supportCard)

\* What a page cannot show without being loaded again: the approval form, the
\* failure card and the card of a support case.
Reloads(data) ==
  \/ data.status \in {"WaitingForApproval", "Failed"}
  \/ data.case /\ ~page.supportCard

\* A reload takes the place of a submission whose answer is awaited.
ReceivePoll(data) ==
  LET display == [page EXCEPT !.shown = data.status,
                              !.track = StageTrack(data)]
      rest    == [poll EXCEPT !.answers = @ \ {data}] IN
  /\ here /\ data \in poll.answers
  /\ nav' = IF Reloads(data)
            THEN [kind |-> "reload", form |-> "none", age |-> 0] ELSE nav
  /\ IF data.status \in TERMINAL
     THEN /\ poll' = [rest EXCEPT !.live = FALSE, !.timer = FALSE]
          /\ page' = display
     ELSE ScheduleNext(display, rest)
  /\ UNCHANGED <<server, reducedMotion, here, request, forms>>

-------------------------------------------------------------------------------
Customer ==
  \/ SelectScenario
  \/ EditMessage
  \/ \E f \in Forms, cancelled \in BOOLEAN : Submit(f, cancelled)
  \/ FollowLink
  \/ PageShow

Browser ==
  \/ EnterBusy
  \/ \E r \in restores : SafetyRestore(r)
  \/ Tick
  \/ CompletePost
  \/ LeaveByPost
  \/ CompleteReload
  \/ BlockNavigation

Polling ==
  \/ StartPoll
  \/ AnswerPoll
  \/ FailPoll
  \/ \E data \in poll.answers : ReceivePoll(data)

Next == Customer \/ Browser \/ Polling \/ ServerStep

Spec == Init /\ [][Next]_vars

\* Callbacks and timers of a shown page run, a fetch ends (it is aborted after
\* 15 s) and what it brings is received.  Nothing is assumed of the customer, the
\* server or a navigation.
FairSpec ==
  /\ Spec
  /\ WF_vars(EnterBusy)
  /\ WF_vars(\E r \in restores : SafetyRestore(r))
  /\ WF_vars(Tick)
  /\ WF_vars(StartPoll)
  /\ WF_vars(AnswerPoll \/ FailPoll)
  /\ WF_vars(\E data \in poll.answers : ReceivePoll(data))

-------------------------------------------------------------------------------
(* Properties.                                                             *)

TypeOK ==
  /\ Lifecycle!TypeOK
  /\ planned \in BOOLEAN /\ supportCase \in BOOLEAN /\ reducedMotion \in BOOLEAN
  /\ here \in BOOLEAN
  /\ page \in Page
  /\ request \in [text : Texts, scenario : {"none", "demo"}]
  /\ poll \in Poll
  /\ busy \subseteq Forms
  /\ deferred \in Seq([form : Forms, cancelled : BOOLEAN])
  /\ restores \subseteq [form : Forms, left : 0..RestoreAfter]
  /\ nav \in Nav

\* A form cannot be sent again while its submission is under way and younger
\* than the timeout of the request (site.js:68).  Between a submit event and its
\* callback the form is still enabled (site.js:85): nothing is said of that gap.
SubmissionUnderWay(f) ==
  /\ here /\ deferred = <<>>
  /\ nav.kind = "post" /\ nav.form = f /\ nav.age < RestoreAfter

NoDoubleSubmission == \A f \in Forms : SubmissionUnderWay(f) => f \in busy

\* As above, for a page that was not brought back from the back-forward cache:
\* whichever order submissions, their callbacks, reloads and timers come in.
NoDoubleSubmissionAtFirst == ~page.restored => NoDoubleSubmission

\* The demo scenario sent with a message is the one of that message, also after
\* an error page has been answered with the fields filled in.
ScenarioMatchesPrompt == request.scenario = ScenarioOf(request.text)

\* The status line and the stages never fall behind what they showed before,
\* though answers travel and pages are reloaded.
StatusRank(s) ==
  CASE s = "Absent" -> 0
    [] s = "Draft" -> 1
    [] s = "Recovering" -> 2
    [] s = "WaitingForApproval" -> 3
    [] OTHER -> 4

MarkRank(m) == IF m = "none" THEN 0 ELSE IF m = "active" THEN 1 ELSE 2

NeverBehind(p, q) ==
  /\ \/ p.shown = q.shown
     \/ StatusRank(p.shown) < StatusRank(q.shown)
  /\ \A i \in 1..3 : MarkRank(p.track[i]) <= MarkRank(q.track[i])

DisplayNeverGoesBack ==
  [][page.panel /\ page'.panel => NeverBehind(page, page')]_vars

\* A page polls by one chain of timers and fetches, and does not give up without
\* saying so: it shows a status that lasts or the timeout notice.
PollingIsOpen ==
  /\ poll.live =>
       \/ poll.timer /\ ~poll.asked /\ poll.answers = {}
       \/ ~poll.timer /\ (poll.asked \/ poll.answers # {})
  /\ page.panel /\ ~poll.live => page.shown \in TERMINAL \/ page.notice

\* A page that says an approval is waited for has the form for it or is being
\* reloaded, unless the customer's own navigation stopped the reload.
ApprovalFormShown ==
  page.panel /\ page.shown = "WaitingForApproval" =>
    page.approvalForm \/ nav.kind = "reload" \/ page.interrupted

\* The page that a reload brings does not poll, so that it cannot reload again.
ReloadSettles == [][CompleteReload => ~poll'.live]_vars

\* A disabled form is enabled again, or its page left, whatever becomes of its
\* submission and unless the customer sends the other one without end.
Submitting == \E f \in Forms, cancelled \in BOOLEAN : Submit(f, cancelled)

BusyEnds ==
  \A f \in Forms :
    []<><<Submitting>>_vars \/ (f \in busy ~> (f \notin busy \/ ~here))

\* Polling ends, whether or not the workflow does, unless the customer loads the
\* page over and over.
PollingEnds ==
  []<><<FollowLink>>_vars \/ (poll.live ~> (~poll.live \/ ~here))
===============================================================================
