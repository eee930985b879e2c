-------------------------- MODULE WorkspacePageProofs --------------------------
(***************************************************************************)
(* The safety of the workspace page for every table of polling intervals,  *)
(* every duration and every timeout.                                       *)
(*                                                                         *)
(* That the display never goes back rests on an order: what the page shows *)
(* is never ahead of what an answer under way has read, nor that of the    *)
(* server, and none of the three moves back.  That a form is not sent      *)
(* twice rests on its safety timers: they are set with the form's busy     *)
(* state, so that the youngest submission has as much time left as all of  *)
(* them.                                                                   *)
(***************************************************************************)
EXTENDS WorkspacePage, TLAPS, SequenceTheorems

-------------------------------------------------------------------------------
(* The display.                                                            *)

\* One status comes no later than another in the life of a workflow.
NoLater(s, t) == s = t \/ StatusRank(s) < StatusRank(t)

\* NeverBehind, of what is displayed alone.
Behind(s, track, t, other) ==
  /\ NoLater(s, t)
  /\ \A i \in 1..3 : MarkRank(track[i]) <= MarkRank(other[i])

\* The status the server has.
Current == status[Workflow]

\* What the page shows of a workflow, the server has.
PageInv ==
  page.panel =>
    /\ Current # "Absent"
    /\ Behind(page.shown, page.track, Current, RenderedTrack(Current, planned))

\* What an answer has read is between the two.
AnswerInv(data) ==
  /\ data.status # "Absent"
  /\ NoLater(data.status, Current)
  /\ data.plan => planned
  /\ data.case => supportCase
  /\ Behind(page.shown, page.track, data.status, StageTrack(data))

\* A page that polls shows a workflow under way, and one chain of a timer, a
\* fetch and an answer polls for it.
LiveInv ==
  /\ poll.live => /\ page.panel
                  /\ IsProcessing(page.shown)
                  /\ page.track[3] = "none"
  /\ poll.live <=> poll.timer \/ poll.asked \/ poll.answers # {}
  /\ poll.timer => ~poll.asked
  /\ poll.timer \/ poll.asked => poll.answers = {}
  /\ \A a, b \in poll.answers : a = b
  /\ page.panel /\ ~poll.live => page.shown \in TERMINAL \/ page.notice

\* A support case is only found once a workflow is completed, a reload once its
\* execution has ended, an approval once it has been submitted.
ServerInv ==
  /\ supportCase => Current = "Completed"
  /\ nav.kind = "reload" => Current \in TERMINAL
  /\ page.approvalForm => page.panel
  /\ nav.kind = "post" /\ nav.form = "approval" => Current # "Absent"

DisplayInv ==
  /\ ApprovalFormShown
  /\ PageInv
  /\ \A data \in poll.answers : AnswerInv(data)
  /\ LiveInv
  /\ ServerInv

-------------------------------------------------------------------------------
(* The forms.                                                              *)

\* A submission whose callback has not run yet.
PendingForm(f) ==
  \E i \in 1..Len(deferred) : deferred[i] = [form |-> f, cancelled |-> FALSE]

TimersInv ==
  /\ \A r \in restores : r.form \in busy
  /\ \A r, s \in restores : r.form = s.form => r = s
  /\ \A r \in restores : PendingForm(r.form) => r.left = RestoreAfter

UnderWayInv ==
  nav.kind = "post" /\ nav.age < RestoreAfter /\ ~PendingForm(nav.form) =>
    /\ nav.form \in busy
    /\ \A r \in restores :
         r.form = nav.form => r.left + nav.age >= RestoreAfter

FormsInv == ~page.restored => TimersInv /\ UnderWayInv

IInv ==
  /\ TypeOK
  /\ ScenarioMatchesPrompt
  /\ DisplayInv
  /\ FormsInv

-------------------------------------------------------------------------------
(* Statuses and stages.                                                    *)

\* The ranks tell under way from ended, and order all but the three ends.
LEMMA Ranks ==
  ASSUME NEW s \in Lifecycle!Statuses
  PROVE  /\ StatusRank(s) \in 0..4
         /\ s = "Absent" <=> StatusRank(s) = 0
         /\ s = "WaitingForApproval" <=> StatusRank(s) = 3
         /\ s \in TERMINAL <=> StatusRank(s) >= 3
         /\ HasTerminalEvent(s) <=> StatusRank(s) >= 3
         /\ IsProcessing(s) <=> StatusRank(s) \in {1, 2}
BY DEF StatusRank, TERMINAL, HasTerminalEvent, IsProcessing,
       Lifecycle!Statuses, Lifecycle!Outcome

\* Being no later is transitive.
LEMMA NoLaterTransitive ==
  ASSUME NEW s \in Lifecycle!Statuses, NEW t \in Lifecycle!Statuses,
         NEW u \in Lifecycle!Statuses, NoLater(s, t), NoLater(t, u)
  PROVE  NoLater(s, u)
<1>1. StatusRank(s) \in 0..4 /\ StatusRank(t) \in 0..4 /\ StatusRank(u) \in 0..4
  BY Ranks
<1>2. QED
  BY <1>1 DEF NoLater

\* A status that is no later has the lower rank.
LEMMA NoLaterRank ==
  ASSUME NEW s \in Lifecycle!Statuses, NEW t \in Lifecycle!Statuses,
         NoLater(s, t)
  PROVE  /\ StatusRank(s) \in 0..4
         /\ StatusRank(t) \in 0..4
         /\ StatusRank(s) <= StatusRank(t)
<1>1. StatusRank(s) \in 0..4 /\ StatusRank(t) \in 0..4
  BY Ranks
<1>2. QED
  BY <1>1 DEF NoLater

\* The marks of the server's stages, by rank of the status.
LEMMA RenderedMarks ==
  ASSUME NEW s \in Lifecycle!Statuses, NEW plan \in BOOLEAN
  PROVE  LET n == StatusRank(s)
             track == RenderedTrack(s, plan)
         IN  /\ track \in Track
             /\ MarkRank(track[1]) = IF plan THEN 2 ELSE 1
             /\ MarkRank(track[2]) = IF ~plan THEN 0 ELSE IF n >= 3 THEN 2 ELSE 1
             /\ MarkRank(track[3]) = IF n < 3 THEN 0 ELSE IF n = 3 THEN 1 ELSE 2
             /\ n < 3 => track[3] = "none"
<1>1. /\ StatusRank(s) \in 0..4
      /\ s = "WaitingForApproval" <=> StatusRank(s) = 3
      /\ HasTerminalEvent(s) <=> StatusRank(s) >= 3
  BY Ranks
<1> HIDE DEF Track
<1>2. RenderedTrack(s, plan) \in Track
  BY DEF RenderedTrack, Track, Marks
<1>3. QED
  BY <1>1, <1>2 DEF RenderedTrack, MarkRank

\* The marks of the stages the script shows for an answer.
LEMMA StageMarks ==
  ASSUME NEW data \in Snapshot
  PROVE  LET n == StatusRank(data.status)
             track == StageTrack(data)
         IN  /\ track \in Track
             /\ MarkRank(track[1]) = IF data.plan THEN 2 ELSE 1
             /\ MarkRank(track[2]) =
                  IF ~data.plan THEN 0 ELSE IF n >= 3 THEN 2 ELSE 1
             /\ MarkRank(track[3]) =
                  IF ~data.plan \/ n < 3 THEN 0 ELSE IF n = 3 THEN 1 ELSE 2
             /\ n < 3 => track[3] = "none"
<1>1. data.status \in Lifecycle!Statuses /\ data.plan \in BOOLEAN
  BY DEF Snapshot
<1>2. /\ StatusRank(data.status) \in 0..4
      /\ data.status = "WaitingForApproval" <=> StatusRank(data.status) = 3
      /\ HasTerminalEvent(data.status) <=> StatusRank(data.status) >= 3
  BY <1>1, Ranks
<1>3. StageTrack(data) \in Track
  BY DEF StageTrack, Track, Marks
<1>4. QED
  BY <1>1, <1>2, <1>3 DEF StageTrack, MarkRank

\* The marks of any track are ordered.
LEMMA TrackMarks ==
  ASSUME NEW track \in Track
  PROVE  \A i \in 1..3 : MarkRank(track[i]) \in 0..2
<1>1. track[1] \in Marks /\ track[2] \in Marks /\ track[3] \in Marks
  BY DEF Track
<1>2. QED
  BY <1>1 DEF MarkRank, Marks

\* What was rendered before falls behind what is rendered now.
LEMMA RenderedGrows ==
  ASSUME NEW s \in Lifecycle!Statuses, NEW plan \in BOOLEAN,
         NEW t \in Lifecycle!Statuses, NEW later \in BOOLEAN,
         NoLater(s, t), plan => later
  PROVE  Behind(s, RenderedTrack(s, plan), t, RenderedTrack(t, later))
<1> DEFINE a == RenderedTrack(s, plan)
           b == RenderedTrack(t, later)
<1>1. /\ StatusRank(s) \in 0..4
      /\ StatusRank(t) \in 0..4
      /\ StatusRank(s) <= StatusRank(t)
  BY NoLaterRank
<1>2. /\ MarkRank(a[1]) = IF plan THEN 2 ELSE 1
      /\ MarkRank(a[2]) =
           IF ~plan THEN 0 ELSE IF StatusRank(s) >= 3 THEN 2 ELSE 1
      /\ MarkRank(a[3]) =
           IF StatusRank(s) < 3 THEN 0 ELSE IF StatusRank(s) = 3 THEN 1 ELSE 2
  BY RenderedMarks
<1>3. /\ MarkRank(b[1]) = IF later THEN 2 ELSE 1
      /\ MarkRank(b[2]) =
           IF ~later THEN 0 ELSE IF StatusRank(t) >= 3 THEN 2 ELSE 1
      /\ MarkRank(b[3]) =
           IF StatusRank(t) < 3 THEN 0 ELSE IF StatusRank(t) = 3 THEN 1 ELSE 2
  BY RenderedMarks
<1> HIDE DEF a, b
<1>4. /\ MarkRank(a[1]) <= MarkRank(b[1])
      /\ MarkRank(a[2]) <= MarkRank(b[2])
      /\ MarkRank(a[3]) <= MarkRank(b[3])
  BY <1>1, <1>2, <1>3
<1>5. \A i \in 1..3 : MarkRank(a[i]) <= MarkRank(b[i])
  BY <1>4
<1>6. QED
  BY <1>5 DEF Behind, a, b

\* What an answer shows falls behind what is rendered now.
LEMMA StagesBehindRendered ==
  ASSUME NEW data \in Snapshot,
         NEW t \in Lifecycle!Statuses, NEW later \in BOOLEAN,
         NoLater(data.status, t), data.plan => later
  PROVE  Behind(data.status, StageTrack(data), t, RenderedTrack(t, later))
<1> DEFINE a == StageTrack(data)
           b == RenderedTrack(t, later)
           n == StatusRank(data.status)
<1>1. data.status \in Lifecycle!Statuses /\ data.plan \in BOOLEAN
  BY DEF Snapshot
<1>2. n \in 0..4 /\ StatusRank(t) \in 0..4 /\ n <= StatusRank(t)
  BY <1>1, NoLaterRank
<1>3. /\ MarkRank(a[1]) = IF data.plan THEN 2 ELSE 1
      /\ MarkRank(a[2]) = IF ~data.plan THEN 0 ELSE IF n >= 3 THEN 2 ELSE 1
      /\ MarkRank(a[3]) =
           IF ~data.plan \/ n < 3 THEN 0 ELSE IF n = 3 THEN 1 ELSE 2
  BY StageMarks
<1>4. /\ MarkRank(b[1]) = IF later THEN 2 ELSE 1
      /\ MarkRank(b[2]) =
           IF ~later THEN 0 ELSE IF StatusRank(t) >= 3 THEN 2 ELSE 1
      /\ MarkRank(b[3]) =
           IF StatusRank(t) < 3 THEN 0 ELSE IF StatusRank(t) = 3 THEN 1 ELSE 2
  BY RenderedMarks
<1> HIDE DEF a, b, n
<1>5. /\ MarkRank(a[1]) <= MarkRank(b[1])
      /\ MarkRank(a[2]) <= MarkRank(b[2])
      /\ MarkRank(a[3]) <= MarkRank(b[3])
  BY <1>1, <1>2, <1>3, <1>4
<1>6. \A i \in 1..3 : MarkRank(a[i]) <= MarkRank(b[i])
  BY <1>5
<1>7. QED
  BY <1>6 DEF Behind, a, b

\* What is behind something is behind whatever that is behind.
LEMMA BehindTransitive ==
  ASSUME NEW s \in Lifecycle!Statuses, NEW a \in Track,
         NEW t \in Lifecycle!Statuses, NEW b \in Track,
         NEW u \in Lifecycle!Statuses, NEW c \in Track,
         Behind(s, a, t, b), Behind(t, b, u, c)
  PROVE  Behind(s, a, u, c)
<1>1. NoLater(s, u)
  BY NoLaterTransitive DEF Behind
<1>2. ASSUME NEW i \in 1..3 PROVE MarkRank(a[i]) <= MarkRank(c[i])
  <2>1. /\ MarkRank(a[i]) \in 0..2
        /\ MarkRank(b[i]) \in 0..2
        /\ MarkRank(c[i]) \in 0..2
    BY TrackMarks
  <2>2. MarkRank(a[i]) <= MarkRank(b[i]) /\ MarkRank(b[i]) <= MarkRank(c[i])
    BY DEF Behind
  <2>3. QED
    BY <2>1, <2>2
<1>3. QED
  BY <1>1, <1>2 DEF Behind

-------------------------------------------------------------------------------
(* The server.                                                             *)

\* The workflow moves on: no step of the server, and no submission, takes back
\* a status, a plan or a support case.
ServerMovesOn ==
  /\ Lifecycle!TypeOK'
  /\ planned' \in BOOLEAN
  /\ supportCase' \in BOOLEAN
  /\ NoLater(Current, Current')
  /\ Current # "Absent" => Current' # "Absent"
  /\ Current \in TERMINAL => Current' \in TERMINAL
  /\ planned => planned'
  /\ supportCase => supportCase'
  /\ supportCase' => Current' = "Completed"

\* The types of what the server keeps.
LEMMA ServerTypes ==
  ASSUME TypeOK
  PROVE  /\ status \in [{Workflow} -> Lifecycle!Statuses]
         /\ attempts \in [{Workflow} -> 0..MaxAttempts]
         /\ decision \in [{Workflow} -> {"none", "approve", "reject"}]
         /\ Current \in Lifecycle!Statuses
         /\ planned \in BOOLEAN
         /\ supportCase \in BOOLEAN
<1>1. Lifecycle!TypeOK /\ planned \in BOOLEAN /\ supportCase \in BOOLEAN
  BY DEF TypeOK
<1>2. status \in [{Workflow} -> Lifecycle!Statuses]
  BY <1>1 DEF Lifecycle!TypeOK
<1>3. Current \in Lifecycle!Statuses
  BY <1>2 DEF Current
<1>4. QED
  BY <1>1, <1>2, <1>3 DEF Lifecycle!TypeOK

\* Where the server takes no step, it takes nothing back.
LEMMA ServerUnchanged ==
  ASSUME TypeOK, ServerInv, UNCHANGED server
  PROVE  ServerMovesOn
BY DEF ServerInv, TypeOK, server, execution, ServerMovesOn, Lifecycle!TypeOK, NoLater,
       Current

\* A step of the lifecycle leads to a later status, and from none that lasts
\* back to one under way.
LEMMA LifecycleMovesOn ==
  ASSUME TypeOK,
         \/ Lifecycle!Submit(Workflow)
         \/ Lifecycle!PickUp(Workflow)
         \/ Lifecycle!Recover(Workflow)
         \/ Lifecycle!Finish(Workflow)
         \/ Lifecycle!Decide(Workflow)
  PROVE  /\ Lifecycle!TypeOK'
         /\ NoLater(Current, Current')
         /\ Current # "Absent" => Current' # "Absent"
         /\ Current \in TERMINAL => Current' \in TERMINAL
         /\ Current = "Completed" => Current' = "Completed"
<1>1. /\ status \in [{Workflow} -> Lifecycle!Statuses]
      /\ attempts \in [{Workflow} -> 0..MaxAttempts]
      /\ decision \in [{Workflow} -> {"none", "approve", "reject"}]
  BY ServerTypes
<1>2. CASE Lifecycle!Submit(Workflow)
  BY <1>1, <1>2 DEF Lifecycle!Submit, Lifecycle!TypeOK, Lifecycle!Statuses,
     NoLater, StatusRank, Current, TERMINAL
<1>3. CASE Lifecycle!PickUp(Workflow)
  BY <1>1, <1>3 DEF Lifecycle!PickUp, Lifecycle!TypeOK, Lifecycle!Statuses,
     NoLater, StatusRank, Current, TERMINAL
<1>4. CASE Lifecycle!Recover(Workflow)
  <2>1. attempts' \in [{Workflow} -> 0..MaxAttempts]
    <3>1. attempts[Workflow] \in 0..MaxAttempts /\ attempts[Workflow] < MaxAttempts
      BY <1>1, <1>4 DEF Lifecycle!Recover
    <3>2. attempts[Workflow] + 1 \in 0..MaxAttempts
      BY <3>1, PageAssumption
    <3>3. QED
      BY <1>1, <1>4, <3>2 DEF Lifecycle!Recover
  <2>2. QED
    BY <1>1, <1>4, <2>1 DEF Lifecycle!Recover, Lifecycle!TypeOK,
       Lifecycle!Statuses, NoLater, StatusRank, Current, TERMINAL
<1>5. CASE Lifecycle!Finish(Workflow)
  <2>1. PICK s \in Lifecycle!Outcome : status' = [status EXCEPT ![Workflow] = s]
    BY <1>5 DEF Lifecycle!Finish
  <2>2. status[Workflow] = "Recovering" /\ UNCHANGED <<attempts, decision>>
    BY <1>5 DEF Lifecycle!Finish
  <2>3. status'[Workflow] = s
    BY <1>1, <2>1
  <2>4. status' \in [{Workflow} -> Lifecycle!Statuses]
    BY <1>1, <2>1 DEF Lifecycle!Statuses
  <2>5. StatusRank(s) \in {3, 4} /\ s # "Absent" /\ s \in TERMINAL
    BY DEF Lifecycle!Outcome, StatusRank, TERMINAL
  <2>6. StatusRank(status[Workflow]) = 2
    BY <2>2 DEF StatusRank
  <2>7. NoLater(status[Workflow], s)
    BY <2>5, <2>6 DEF NoLater
  <2>8. QED
    BY <1>1, <2>2, <2>3, <2>4, <2>5, <2>7 DEF Lifecycle!TypeOK, Current
<1>6. CASE Lifecycle!Decide(Workflow)
  <2>1. /\ status[Workflow] = "WaitingForApproval"
        /\ attempts' = attempts
        /\ \E s \in {"Completed", "Rejected"}, d \in {"approve", "reject"} :
             /\ status' = [status EXCEPT ![Workflow] = s]
             /\ decision' = [decision EXCEPT ![Workflow] = d]
    BY <1>6 DEF Lifecycle!Decide
  <2>2. PICK s \in {"Completed", "Rejected"}, d \in {"approve", "reject"} :
             /\ status' = [status EXCEPT ![Workflow] = s]
             /\ decision' = [decision EXCEPT ![Workflow] = d]
    BY <2>1
  <2>3. /\ status'[Workflow] = s
        /\ status' \in [{Workflow} -> Lifecycle!Statuses]
        /\ decision' \in [{Workflow} -> {"none", "approve", "reject"}]
    BY <1>1, <2>2 DEF Lifecycle!Statuses, Lifecycle!Outcome
  <2>4. NoLater(status[Workflow], s) /\ s # "Absent" /\ s \in TERMINAL
    BY <2>1 DEF NoLater, StatusRank, TERMINAL
  <2>5. QED
    BY <1>1, <2>1, <2>3, <2>4 DEF Lifecycle!TypeOK, Current
<1>7. QED
  BY <1>2, <1>3, <1>4, <1>5, <1>6

\* The server moves on in a step of its own.
LEMMA ServerStepMoves ==
  ASSUME TypeOK, ServerInv, ServerStep
  PROVE  ServerMovesOn
<1>1. /\ planned \in BOOLEAN
      /\ supportCase \in BOOLEAN
      /\ supportCase => Current = "Completed"
  BY ServerTypes DEF ServerInv
<1>2. CASE PickUp
  BY <1>1, <1>2, LifecycleMovesOn DEF PickUp, ServerMovesOn
<1>3. CASE PersistPlan
  <2>1. UNCHANGED execution
    BY <1>3 DEF PersistPlan
  <2>2. Lifecycle!TypeOK' /\ Current' = Current
    BY <2>1 DEF execution, TypeOK, Lifecycle!TypeOK, Current
  <2>3. QED
    BY <1>1, <1>3, <2>2 DEF PersistPlan, ServerMovesOn, NoLater
<1>4. CASE Finish
  BY <1>1, <1>4, LifecycleMovesOn DEF Finish, ServerMovesOn
<1>5. CASE Decide
  <2>1. /\ supportCase' \in {FALSE, decision'[Workflow] = "approve"}
        /\ planned' = planned
        /\ Lifecycle!Decide(Workflow)
    BY <1>5 DEF Decide
  <2>2. Current = "WaitingForApproval"
    BY <2>1 DEF Lifecycle!Decide, Current
  <2>3. decision'[Workflow] = "approve" => Current' = "Completed"
    BY <2>1, ServerTypes DEF Lifecycle!Decide, Current
  <2>4. supportCase' \in BOOLEAN /\ (supportCase' => Current' = "Completed")
    BY <2>1, <2>3
  <2>5. QED
    BY <1>1, <2>1, <2>2, <2>4, LifecycleMovesOn DEF ServerMovesOn
<1>6. QED
  BY <1>2, <1>3, <1>4, <1>5 DEF ServerStep

\* The answer to a submission may have created the workflow.
LEMMA Handling ==
  ASSUME TypeOK, ServerInv, Handled
  PROVE  /\ ServerMovesOn
         /\ planned' = planned
         /\ supportCase' = supportCase
         /\ status # status' => Current' # "Absent"
<1>1. CASE UNCHANGED server
  BY <1>1, ServerUnchanged DEF server, execution
<1>2. CASE /\ Lifecycle!Submit(Workflow)
           /\ UNCHANGED <<planned, supportCase>>
  <2>1. Current' = "Draft"
    BY <1>2, ServerTypes DEF Lifecycle!Submit, Current
  <2>2. Current = "Absent"
    BY <1>2 DEF Lifecycle!Submit, Current
  <2>3. ~supportCase
    BY <2>2 DEF ServerInv
  <2>4. QED
    BY <1>2, <2>1, <2>3, ServerTypes, LifecycleMovesOn DEF ServerMovesOn
<1>3. QED
  BY <1>1, <1>2 DEF Handled

-------------------------------------------------------------------------------
(* Pages and polls.                                                        *)

\* The page of a workflow, field by field.
LEMMA WorkflowPageFields ==
  ASSUME NEW s \in Lifecycle!Statuses, NEW plan \in BOOLEAN, NEW case \in BOOLEAN
  PROVE  LET p == WorkflowPage(s, plan, case) IN
         /\ p \in Page
         /\ p.panel
         /\ p.shown = s
         /\ p.track = RenderedTrack(s, plan)
         /\ p.approvalForm = (s = "WaitingForApproval")
         /\ ~p.restored
<1>1. RenderedTrack(s, plan) \in Track
  BY RenderedMarks
<1> HIDE DEF Track
<1>2. QED
  BY <1>1 DEF WorkflowPage, StartPage, Page

\* The page without a workflow shows nothing of one.
LEMMA StartPageFields ==
  /\ StartPage \in Page
  /\ ~StartPage.panel
  /\ ~StartPage.approvalForm
  /\ ~StartPage.restored
<1>1. <<"none", "none", "none">> \in Track
  BY DEF Track, Marks
<1>2. "Absent" \in Lifecycle!Statuses
  BY DEF Lifecycle!Statuses
<1> HIDE DEF Track
<1>3. QED
  BY <1>1, <1>2 DEF StartPage, Page

\* A page begins to poll exactly if it shows a workflow under way.
LEMMA InitialPollFields ==
  ASSUME NEW p \in Page
  PROVE  LET q == InitialPoll(p) IN
         /\ q \in Poll
         /\ q.live <=> p.panel /\ IsProcessing(p.shown)
         /\ q.timer <=> q.live
         /\ ~q.asked
         /\ q.answers = {}
<1>1. NoPoll \in Poll
  BY DEF NoPoll, Poll
<1>2. CASE p.panel /\ IsProcessing(p.shown)
  <2>1. InitialPoll(p) = [NoPoll EXCEPT !.live = TRUE, !.timer = TRUE]
    BY <1>2 DEF InitialPoll
  <2>2. InitialPoll(p) =
          [live |-> TRUE, timer |-> TRUE, asked |-> FALSE, answers |-> {},
           attempt |-> 0, elapsed |-> 0]
    BY <2>1 DEF NoPoll
  <2>3. InitialPoll(p) \in Poll
    BY <2>2 DEF Poll
  <2>4. QED
    BY <1>2, <2>2, <2>3
<1>3. CASE ~(p.panel /\ IsProcessing(p.shown))
  <2>1. InitialPoll(p) = NoPoll
    BY <1>3 DEF InitialPoll
  <2>2. QED
    BY <1>1, <1>3, <2>1 DEF NoPoll
<1>4. QED
  BY <1>2, <1>3

\* The next poll is scheduled, or polling ends with the notice.
LEMMA Scheduling ==
  ASSUME NEW p \in Page, NEW q \in Poll, ScheduleNext(p, q),
         reducedMotion \in BOOLEAN
  PROVE  /\ poll' \in Poll
         /\ poll'.asked = q.asked
         /\ poll'.answers = q.answers
         /\ \/ poll'.live = q.live /\ poll'.timer /\ page' = p
            \/ /\ ~poll'.live
               /\ poll'.timer = q.timer
               /\ page' = [p EXCEPT !.notice = TRUE]
         /\ page' \in Page
<1>1. PollInterval(q.attempt) \in Nat
  <2>1. q.attempt \in Nat
    BY DEF Poll
  <2>2. Len(Intervals) \in Nat \ {0}
    BY PageAssumption, EmptySeq, LenProperties
  <2>3. (IF q.attempt < Len(Intervals) THEN q.attempt + 1 ELSE Len(Intervals))
          \in 1..Len(Intervals)
    BY <2>1, <2>2
  <2>4. \A i \in 1..Len(Intervals) : Intervals[i] \in Nat
    BY PageAssumption, ElementOfSeq
  <2>5. QED
    BY <2>3, <2>4, PageAssumption DEF PollInterval
<1> DEFINE elapsed == q.elapsed + PollInterval(q.attempt)
           attempt == q.attempt + 1
           next == [q EXCEPT !.elapsed = elapsed, !.attempt = attempt]
<1>2. elapsed \in Nat /\ attempt \in Nat
  BY <1>1 DEF Poll
<1>3. \/ poll' = [next EXCEPT !.live = FALSE] /\ page' = [p EXCEPT !.notice = TRUE]
      \/ poll' = [next EXCEPT !.timer = TRUE] /\ page' = p
  <2>1. CASE elapsed >= MaxDuration
    BY <2>1 DEF ScheduleNext
  <2>2. CASE ~(elapsed >= MaxDuration)
    BY <2>2 DEF ScheduleNext
  <2>3. QED
    BY <2>1, <2>2
<1> HIDE DEF elapsed, attempt
<1>4. next \in Poll
  BY <1>2 DEF Poll
<1>5. /\ next.live = q.live
      /\ next.timer = q.timer
      /\ next.asked = q.asked
      /\ next.answers = q.answers
  BY DEF Poll
<1> HIDE DEF next
<1>6. CASE poll' = [next EXCEPT !.live = FALSE] /\ page' = [p EXCEPT !.notice = TRUE]
  <2>1. page' \in Page
    BY <1>6 DEF Page
  <2>2. /\ poll' \in Poll
        /\ poll'.asked = q.asked
        /\ poll'.answers = q.answers
        /\ ~poll'.live
        /\ poll'.timer = q.timer
    BY <1>4, <1>5, <1>6 DEF Poll
  <2>3. QED
    BY <1>6, <2>1, <2>2
<1>7. CASE poll' = [next EXCEPT !.timer = TRUE] /\ page' = p
  <2>1. /\ poll' \in Poll
        /\ poll'.asked = q.asked
        /\ poll'.answers = q.answers
        /\ poll'.live = q.live
        /\ poll'.timer
    BY <1>4, <1>5, <1>7 DEF Poll
  <2>2. QED
    BY <1>7, <2>1
<1>8. QED
  BY <1>3, <1>6, <1>7

-------------------------------------------------------------------------------
(* Steps.                                                                  *)

\* What loading a page leaves: nothing of the page before, and either no
\* workflow or the one the server has.
Loaded ==
  /\ \/ page' = StartPage
     \/ /\ Current' # "Absent"
        /\ page' = WorkflowPage(Current', planned', supportCase')
  /\ poll' = InitialPoll(page')
  /\ busy' = {} /\ deferred' = <<>> /\ restores' = {}
  /\ nav' = NoNav
  /\ here' = here /\ reducedMotion' = reducedMotion
  /\ request' \in {request, NoRequest}

\* Links, reloads and answered submissions load a page.
LEMMA Loading ==
  ASSUME TypeOK, ServerInv, FollowLink \/ CompleteReload \/ CompletePost
  PROVE  Loaded /\ ServerMovesOn
<1>1. CASE FollowLink \/ CompleteReload
  <2>1. UNCHANGED server /\ UNCHANGED reducedMotion /\ Load
    BY <1>1 DEF FollowLink, CompleteReload
  <2>2. ServerMovesOn
    BY <2>1, ServerUnchanged
  <2>3. Loaded
    BY <2>1 DEF Loaded, Load, Show, server, execution, Current
  <2>4. QED
    BY <2>2, <2>3
<1>2. CASE CompletePost
  <2>1. /\ Handled
        /\ UNCHANGED reducedMotion
        /\ nav.kind = "post"
        /\ \/ /\ nav.form = "approval" \/ status # status'
              /\ Show(WorkflowPage(Current', planned, supportCase))
              /\ request' = NoRequest
           \/ /\ Show(StartPage)
              /\ request' \in {request, NoRequest}
    BY <1>2 DEF CompletePost, Current
  <2>2. /\ ServerMovesOn
        /\ planned' = planned
        /\ supportCase' = supportCase
        /\ status # status' => Current' # "Absent"
    BY <2>1, Handling
  <2>3. nav.form = "approval" => Current' # "Absent"
    BY <2>1, <2>2 DEF ServerInv, ServerMovesOn
  <2>4. Loaded
    BY <2>1, <2>2, <2>3 DEF Loaded, Show
  <2>5. QED
    BY <2>2, <2>4
<1>3. QED
  BY <1>1, <1>2

\* The steps that leave what the page shows, and its polling, alone.
Undisplayed ==
  \/ SelectScenario \/ EditMessage
  \/ \E f \in Forms, cancelled \in BOOLEAN : Submit(f, cancelled)
  \/ PageShow
  \/ EnterBusy
  \/ \E r \in restores : SafetyRestore(r)
  \/ Tick
  \/ LeaveByPost
  \/ BlockNavigation
  \/ ServerStep

\* Every step loads a page, polls, or is one of the others.
LEMMA Steps ==
  Next <=> \/ FollowLink \/ CompleteReload \/ CompletePost
           \/ Undisplayed
           \/ Polling
BY DEF Next, Customer, Browser, Undisplayed

\* The server moves on in every step.
LEMMA AlwaysMovesOn ==
  ASSUME TypeOK, ServerInv, [Next]_vars
  PROVE  ServerMovesOn
<1>1. CASE FollowLink \/ CompleteReload \/ CompletePost
  BY <1>1, Loading
<1>2. CASE ServerStep
  BY <1>2, ServerStepMoves
<1>3. CASE LeaveByPost
  BY <1>3, Handling DEF LeaveByPost
<1>4. CASE Undisplayed /\ ~ServerStep /\ ~LeaveByPost
  <2>1. UNCHANGED server
    BY <1>4 DEF Undisplayed, SelectScenario, EditMessage, Submit, PageShow,
       EnterBusy, SafetyRestore, Tick, BlockNavigation
  <2>2. QED
    BY <2>1, ServerUnchanged
<1>5. CASE Polling
  <2>1. UNCHANGED server
    BY <1>5 DEF Polling, StartPoll, AnswerPoll, FailPoll, ReceivePoll
  <2>2. QED
    BY <2>1, ServerUnchanged
<1>6. CASE UNCHANGED vars
  BY <1>6, ServerUnchanged DEF vars
<1>7. QED
  BY <1>1, <1>2, <1>3, <1>4, <1>5, <1>6, Steps

\* What the other steps keep: what is displayed, the polling, and a reload under
\* way unless the page remembers that it was interrupted.
Kept ==
  /\ poll' = poll
  /\ page' \in Page
  /\ page'.panel = page.panel
  /\ page'.shown = page.shown
  /\ page'.track = page.track
  /\ page'.approvalForm = page.approvalForm
  /\ page'.supportCard = page.supportCard
  /\ page'.notice = page.notice
  /\ page.interrupted => page'.interrupted
  /\ nav.kind = "reload" => nav'.kind = "reload" \/ page'.interrupted
  /\ nav'.kind = "reload" => nav.kind = "reload"
  /\ nav'.kind = "post" /\ nav'.form = "approval" =>
       (nav.kind = "post" /\ nav.form = "approval") \/ page.approvalForm

\* A navigation that takes over leaves a mark only on a page being reloaded.
LEMMA OverriddenPage ==
  ASSUME TypeOK, page' = Overridden
  PROVE  /\ page' \in Page
         /\ page'.panel = page.panel
         /\ page'.shown = page.shown
         /\ page'.track = page.track
         /\ page'.approvalForm = page.approvalForm
         /\ page'.supportCard = page.supportCard
         /\ page'.notice = page.notice
         /\ page'.restored = page.restored
         /\ page.interrupted => page'.interrupted
         /\ nav.kind = "reload" => page'.interrupted
<1>1. page \in Page
  BY DEF TypeOK
<1>2. CASE nav.kind = "reload"
  <2>1. page' = [page EXCEPT !.interrupted = TRUE]
    BY <1>2 DEF Overridden
  <2>2. QED
    BY <1>1, <2>1 DEF Page
<1>3. CASE nav.kind # "reload"
  BY <1>1, <1>3 DEF Overridden
<1>4. QED
  BY <1>2, <1>3

\* The steps that do not display leave what is displayed as it is.
LEMMA UndisplayedKeeps ==
  ASSUME TypeOK, Undisplayed
  PROVE  Kept
<1>1. page \in Page /\ nav \in Nav
  BY DEF TypeOK
<1>2. CASE UNCHANGED <<page, poll, nav>>
  BY <1>1, <1>2 DEF Kept
<1>3. CASE SelectScenario \/ EditMessage \/ EnterBusy \/ ServerStep
           \/ \E r \in restores : SafetyRestore(r)
  BY <1>2, <1>3 DEF SelectScenario, EditMessage, EnterBusy, ServerStep,
     SafetyRestore
<1>4. ASSUME NEW f \in Forms, NEW cancelled \in BOOLEAN, Submit(f, cancelled)
      PROVE  Kept
  <2>1. CASE cancelled
    BY <1>2, <1>4, <2>1 DEF Submit
  <2>2. CASE ~cancelled
    <3>1. /\ page' = Overridden
          /\ nav' = [kind |-> "post", form |-> f, age |-> 0]
          /\ poll' = poll
          /\ f = "approval" => page.approvalForm
      BY <1>4, <2>2 DEF Submit, Interactive
    <3>2. QED
      BY <3>1, OverriddenPage DEF Kept
  <2>3. QED
    BY <2>1, <2>2
<1>5. CASE PageShow
  <2>1. page' = [page EXCEPT !.restored = TRUE] /\ poll' = poll /\ nav' = nav
    BY <1>5 DEF PageShow
  <2>2. QED
    BY <1>1, <2>1 DEF Kept, Page
<1>6. CASE Tick
  <2>1. page' = page /\ poll' = poll
    BY <1>6 DEF Tick
  <2>2. nav'.kind = nav.kind /\ nav'.form = nav.form
    <3>1. CASE nav.kind = "post" /\ nav.age < RestoreAfter
      <4>1. nav' = [nav EXCEPT !.age = @ + 1]
        BY <1>6, <3>1 DEF Tick
      <4>2. QED
        BY <1>1, <4>1 DEF Nav
    <3>2. CASE ~(nav.kind = "post" /\ nav.age < RestoreAfter)
      BY <1>6, <3>2 DEF Tick
    <3>3. QED
      BY <3>1, <3>2
  <2>3. QED
    BY <1>1, <2>1, <2>2 DEF Kept
<1>7. CASE LeaveByPost
  <2>1. page' = page /\ poll' = poll /\ nav' = NoNav /\ nav.kind = "post"
    BY <1>7 DEF LeaveByPost
  <2>2. QED
    BY <1>1, <2>1 DEF Kept, NoNav
<1>8. CASE BlockNavigation
  <2>1. page' = Overridden /\ poll' = poll /\ nav' = NoNav
    BY <1>8 DEF BlockNavigation
  <2>2. QED
    BY <2>1, OverriddenPage DEF Kept, NoNav
<1>9. QED
  BY <1>3, <1>4, <1>5, <1>6, <1>7, <1>8 DEF Undisplayed

-------------------------------------------------------------------------------
(* Types.                                                                  *)

\* The callbacks of submit events and the safety timers.
Entry == [form : Forms, cancelled : BOOLEAN]
Timer == [form : Forms, left : 0..RestoreAfter]

\* What TypeOK says of the browser.
BrowserTypes ==
  /\ reducedMotion \in BOOLEAN
  /\ here \in BOOLEAN
  /\ page \in Page
  /\ request \in [text : Texts, scenario : {"none", "demo"}]
  /\ poll \in Poll
  /\ busy \subseteq Forms
  /\ deferred \in Seq(Entry)
  /\ restores \subseteq Timer
  /\ nav \in Nav

\* The types of the server and of the browser are all there are.
LEMMA Types ==
  TypeOK <=> /\ Lifecycle!TypeOK
             /\ planned \in BOOLEAN
             /\ supportCase \in BOOLEAN
             /\ BrowserTypes
BY DEF TypeOK, BrowserTypes, Entry, Timer

\* An empty request and no navigation have their types.
LEMMA BlankTypes ==
  /\ NoRequest \in [text : Texts, scenario : {"none", "demo"}]
  /\ NoNav \in Nav
BY PageAssumption DEF NoRequest, Texts, NoNav, Nav

\* The browser has its types after a page is loaded.
LEMMA LoadedTypes ==
  ASSUME TypeOK, ServerMovesOn, Loaded
  PROVE  BrowserTypes'
<1>1. /\ Current' \in Lifecycle!Statuses
      /\ planned' \in BOOLEAN
      /\ supportCase' \in BOOLEAN
  <2>1. Lifecycle!TypeOK'
    BY DEF ServerMovesOn
  <2>2. status' \in [{Workflow} -> Lifecycle!Statuses]
    BY <2>1 DEF Lifecycle!TypeOK
  <2>3. QED
    BY <2>2 DEF ServerMovesOn, Current
<1>2. page' \in Page
  BY <1>1, WorkflowPageFields, StartPageFields DEF Loaded
<1>3. poll' \in Poll
  BY <1>2, InitialPollFields DEF Loaded
<1>4. BrowserTypes
  BY Types
<1>5. QED
  BY <1>2, <1>3, <1>4, BlankTypes DEF BrowserTypes, Loaded

\* The browser has its types after a step that does not display.
LEMMA UndisplayedTypes ==
  ASSUME TypeOK, Undisplayed
  PROVE  BrowserTypes'
<1>1. BrowserTypes
  BY Types
<1>2. page' \in Page /\ poll' \in Poll
  BY <1>1, UndisplayedKeeps DEF Kept, BrowserTypes
<1>3. CASE SelectScenario \/ EditMessage
  <2>1. request' \in [text : Texts, scenario : {"none", "demo"}]
    BY <1>3, BlankTypes DEF SelectScenario, EditMessage, Texts
  <2>2. UNCHANGED <<reducedMotion, here, busy, deferred, restores, nav>>
    BY <1>3 DEF SelectScenario, EditMessage, forms
  <2>3. QED
    BY <1>1, <1>2, <2>1, <2>2 DEF BrowserTypes
<1>4. ASSUME NEW f \in Forms, NEW cancelled \in BOOLEAN, Submit(f, cancelled)
      PROVE  BrowserTypes'
  <2>1. [form |-> f, cancelled |-> cancelled] \in Entry
    BY DEF Entry
  <2>2. deferred' \in Seq(Entry)
    BY <1>1, <1>4, <2>1, AppendProperties DEF Submit, BrowserTypes
  <2>3. nav' \in Nav
    <3>1. [kind |-> "post", form |-> f, age |-> 0] \in Nav
      BY PageAssumption DEF Nav
    <3>2. QED
      BY <1>1, <1>4, <3>1 DEF Submit, BrowserTypes
  <2>4. UNCHANGED <<reducedMotion, here, request, busy, restores>>
    BY <1>4 DEF Submit
  <2>5. QED
    BY <1>1, <1>2, <2>2, <2>3, <2>4 DEF BrowserTypes
<1>5. CASE PageShow
  BY <1>1, <1>2, <1>5 DEF PageShow, BrowserTypes
<1>6. CASE EnterBusy
  <2>1. deferred # <<>> /\ deferred' = Tail(deferred)
    BY <1>6 DEF EnterBusy
  <2>2. deferred' \in Seq(Entry) /\ Head(deferred) \in Entry
    BY <1>1, <2>1, HeadTailProperties DEF BrowserTypes
  <2>3. [form |-> Head(deferred).form, left |-> RestoreAfter] \in Timer
    BY <2>2, PageAssumption DEF Entry, Timer
  <2>4. busy' \subseteq Forms /\ restores' \subseteq Timer
    BY <1>1, <1>6, <2>2, <2>3 DEF EnterBusy, BrowserTypes, Entry
  <2>5. UNCHANGED <<reducedMotion, here, request, nav>>
    BY <1>6 DEF EnterBusy
  <2>6. QED
    BY <1>1, <1>2, <2>2, <2>4, <2>5 DEF BrowserTypes
<1>7. ASSUME NEW r \in restores, SafetyRestore(r)
      PROVE  BrowserTypes'
  BY <1>1, <1>2, <1>7 DEF SafetyRestore, BrowserTypes
<1>8. CASE Tick
  <2>1. restores' \subseteq Timer
    <3>1. ASSUME NEW r \in restores PROVE Elapse(r) \in Timer
      <4>1. r \in Timer /\ r.left > 0
        BY <1>1, <1>8 DEF Tick, BrowserTypes
      <4>2. r.left - 1 \in 0..RestoreAfter
        BY <4>1, PageAssumption DEF Timer
      <4>3. QED
        BY <4>1, <4>2 DEF Elapse, Timer
    <3>2. QED
      BY <1>8, <3>1 DEF Tick
  <2>2. nav' \in Nav
    <3>1. CASE nav.kind = "post" /\ nav.age < RestoreAfter
      <4>1. nav' = [nav EXCEPT !.age = @ + 1] /\ nav \in Nav
        BY <1>1, <1>8, <3>1 DEF Tick, BrowserTypes
      <4>2. nav.age + 1 \in 0..RestoreAfter
        BY <3>1, <4>1, PageAssumption DEF Nav
      <4>3. QED
        BY <4>1, <4>2 DEF Nav
    <3>2. CASE ~(nav.kind = "post" /\ nav.age < RestoreAfter)
      BY <1>1, <1>8, <3>2 DEF Tick, BrowserTypes
    <3>3. QED
      BY <3>1, <3>2
  <2>3. UNCHANGED <<reducedMotion, here, request, busy, deferred>>
    BY <1>8 DEF Tick
  <2>4. QED
    BY <1>1, <1>2, <2>1, <2>2, <2>3 DEF BrowserTypes
<1>9. CASE LeaveByPost \/ BlockNavigation
  <2>1. nav' = NoNav /\ here' \in BOOLEAN
    BY <1>1, <1>9 DEF LeaveByPost, BlockNavigation, BrowserTypes
  <2>2. UNCHANGED <<reducedMotion, request, busy, deferred, restores>>
    BY <1>9 DEF LeaveByPost, BlockNavigation, forms
  <2>3. QED
    BY <1>1, <1>2, <2>1, <2>2, BlankTypes DEF BrowserTypes
<1>10. CASE ServerStep
  BY <1>1, <1>10 DEF ServerStep, forms, BrowserTypes
<1>11. QED
  BY <1>3, <1>4, <1>5, <1>6, <1>7, <1>8, <1>9, <1>10 DEF Undisplayed

-------------------------------------------------------------------------------
(* What is displayed.                                                      *)

\* A page just loaded shows what the server has.
LEMMA LoadedDisplay ==
  ASSUME TypeOK, ServerMovesOn, Loaded, BrowserTypes'
  PROVE  DisplayInv'
<1>1. /\ Current' \in Lifecycle!Statuses
      /\ planned' \in BOOLEAN
      /\ supportCase' \in BOOLEAN
      /\ supportCase' => Current' = "Completed"
  <2>1. Lifecycle!TypeOK'
    BY DEF ServerMovesOn
  <2>2. status' \in [{Workflow} -> Lifecycle!Statuses]
    BY <2>1 DEF Lifecycle!TypeOK
  <2>3. QED
    BY <2>2 DEF ServerMovesOn, Current
<1>2. page' \in Page
  BY DEF BrowserTypes
<1>3. /\ poll'.live <=> page'.panel /\ IsProcessing(page'.shown)
      /\ poll'.timer <=> poll'.live
      /\ ~poll'.asked
      /\ poll'.answers = {}
      /\ poll' \in Poll
  BY <1>2, InitialPollFields DEF Loaded
<1>4. nav'.kind = "none"
  BY DEF Loaded, NoNav
<1>5. CASE page' = StartPage
  <2>1. ~page'.panel /\ ~page'.approvalForm
    BY <1>5, StartPageFields
  <2>2. QED
    BY <1>1, <1>3, <1>4, <2>1
    DEF DisplayInv, ApprovalFormShown, PageInv, LiveInv, ServerInv
<1>6. CASE /\ Current' # "Absent"
           /\ page' = WorkflowPage(Current', planned', supportCase')
  <2>1. /\ page'.panel
        /\ page'.shown = Current'
        /\ page'.track = RenderedTrack(Current', planned')
        /\ page'.approvalForm = (Current' = "WaitingForApproval")
    BY <1>1, <1>6, WorkflowPageFields
  <2>2. PageInv'
    <3>1. NoLater(Current', Current')
      BY DEF NoLater
    <3>2. Behind(Current', RenderedTrack(Current', planned'),
                 Current', RenderedTrack(Current', planned'))
      BY <1>1, <3>1, RenderedGrows
    <3>3. QED
      BY <1>6, <2>1, <3>2 DEF PageInv
  <2>3. LiveInv'
    <3>1. /\ IsProcessing(Current') <=> StatusRank(Current') \in {1, 2}
          /\ Current' \in TERMINAL <=> StatusRank(Current') >= 3
          /\ Current' = "Absent" <=> StatusRank(Current') = 0
          /\ StatusRank(Current') \in 0..4
      BY <1>1, Ranks
    <3>2. StatusRank(Current') < 3 => page'.track[3] = "none"
      BY <1>1, <2>1, RenderedMarks
    <3>3. poll'.live => StatusRank(Current') < 3
      BY <1>3, <2>1, <3>1
    <3>4. ~poll'.live => Current' \in TERMINAL
      BY <1>3, <1>6, <2>1, <3>1
    <3>5. QED
      BY <1>3, <2>1, <3>2, <3>3, <3>4 DEF LiveInv
  <2>4. ApprovalFormShown' /\ ServerInv'
    BY <1>1, <1>4, <2>1 DEF ApprovalFormShown, ServerInv
  <2>5. QED
    BY <1>3, <2>2, <2>3, <2>4 DEF DisplayInv
<1>7. QED
  BY <1>5, <1>6 DEF Loaded

\* The server's progress leaves the page further behind, never ahead.
LEMMA StillBehind ==
  ASSUME TypeOK, ServerMovesOn,
         NEW s \in Lifecycle!Statuses, NEW track \in Track,
         Behind(s, track, Current, RenderedTrack(Current, planned))
  PROVE  Behind(s, track, Current', RenderedTrack(Current', planned'))
<1>1. Current \in Lifecycle!Statuses /\ planned \in BOOLEAN
  BY ServerTypes
<1>2. Current' \in Lifecycle!Statuses /\ planned' \in BOOLEAN
  <2>1. Lifecycle!TypeOK'
    BY DEF ServerMovesOn
  <2>2. QED
    BY <2>1 DEF Lifecycle!TypeOK, ServerMovesOn, Current
<1>3. Behind(Current, RenderedTrack(Current, planned),
             Current', RenderedTrack(Current', planned'))
  BY <1>1, <1>2, RenderedGrows DEF ServerMovesOn
<1>4. /\ RenderedTrack(Current, planned) \in Track
      /\ RenderedTrack(Current', planned') \in Track
  BY <1>1, <1>2, RenderedMarks
<1>5. QED
  BY <1>1, <1>2, <1>3, <1>4, BehindTransitive

\* The display is right after a step that leaves it alone.
LEMMA UndisplayedDisplay ==
  ASSUME TypeOK, DisplayInv, ServerMovesOn, Kept
  PROVE  DisplayInv'
<1>1. page \in Page /\ poll \in Poll
  BY DEF TypeOK
<1>2. page.shown \in Lifecycle!Statuses /\ page.track \in Track
  BY <1>1 DEF Page
<1>3. PageInv'
  <2>1. CASE page.panel
    <3>1. Behind(page.shown, page.track, Current, RenderedTrack(Current, planned))
      BY <2>1 DEF DisplayInv, PageInv
    <3>2. Behind(page.shown, page.track, Current', RenderedTrack(Current', planned'))
      BY <1>2, <3>1, StillBehind
    <3>3. Current' # "Absent"
      BY <2>1 DEF DisplayInv, PageInv, ServerMovesOn
    <3>4. QED
      BY <3>2, <3>3 DEF PageInv, Kept
  <2>2. CASE ~page.panel
    BY <2>2 DEF PageInv, Kept
  <2>3. QED
    BY <2>1, <2>2
<1>4. ASSUME NEW data \in poll.answers PROVE AnswerInv(data)'
  <2>1. data \in Snapshot /\ AnswerInv(data)
    BY <1>1 DEF Poll, DisplayInv
  <2>2. /\ data.status \in Lifecycle!Statuses
        /\ Current \in Lifecycle!Statuses
        /\ Current' \in Lifecycle!Statuses
    <3>1. Lifecycle!TypeOK'
      BY DEF ServerMovesOn
    <3>2. Current' \in Lifecycle!Statuses
      BY <3>1 DEF Lifecycle!TypeOK, Current
    <3>3. QED
      BY <2>1, <3>2, ServerTypes DEF Snapshot
  <2>3. NoLater(data.status, Current')
    BY <2>1, <2>2, NoLaterTransitive DEF AnswerInv, ServerMovesOn
  <2>4. QED
    BY <2>1, <2>3 DEF AnswerInv, Kept, ServerMovesOn
<1>5. LiveInv'
  BY DEF DisplayInv, LiveInv, Kept
<1>6. ServerInv'
  BY DEF DisplayInv, ServerInv, PageInv, Kept, ServerMovesOn
<1>7. ApprovalFormShown'
  BY DEF DisplayInv, ApprovalFormShown, Kept
<1>8. \A data \in poll'.answers : AnswerInv(data)'
  BY <1>4 DEF Kept
<1>9. QED
  BY <1>3, <1>5, <1>6, <1>7, <1>8 DEF DisplayInv

\* A poll is sent.
LEMMA StartPollStep ==
  ASSUME TypeOK, DisplayInv, StartPoll
  PROVE  BrowserTypes' /\ DisplayInv'
<1>1. /\ poll' = [poll EXCEPT !.timer = FALSE, !.asked = TRUE]
      /\ poll.live /\ poll.timer
      /\ UNCHANGED <<server, reducedMotion, here, page, request, forms, nav>>
  BY DEF StartPoll
<1>2. poll \in Poll /\ BrowserTypes
  BY Types DEF TypeOK
<1>3. /\ poll' \in Poll
      /\ poll'.live = poll.live
      /\ ~poll'.timer
      /\ poll'.asked
      /\ poll'.answers = poll.answers
  BY <1>1, <1>2 DEF Poll
<1>4. poll.answers = {}
  BY <1>1 DEF DisplayInv, LiveInv
<1>5. BrowserTypes'
  BY <1>1, <1>2, <1>3 DEF BrowserTypes, forms
<1>6. LiveInv'
  BY <1>1, <1>3, <1>4 DEF DisplayInv, LiveInv
<1>7. PageInv' /\ ServerInv' /\ ApprovalFormShown'
  BY <1>1 DEF DisplayInv, PageInv, ServerInv, ApprovalFormShown, server,
     execution, Current
<1>8. QED
  BY <1>3, <1>4, <1>5, <1>6, <1>7 DEF DisplayInv

\* An answer has read what the server has, which the page is behind.
LEMMA AnswerPollStep ==
  ASSUME TypeOK, DisplayInv, AnswerPoll
  PROVE  BrowserTypes' /\ DisplayInv'
<1> PICK data :
      data = [status |-> Current, plan |-> planned, case |-> supportCase]
  OBVIOUS
<1>1. /\ poll' = [poll EXCEPT !.asked = FALSE, !.answers = @ \cup {data}]
      /\ poll.asked
      /\ UNCHANGED <<server, reducedMotion, here, page, request, forms, nav>>
  BY DEF AnswerPoll, Current
<1>2. poll \in Poll /\ BrowserTypes /\ page \in Page
  BY Types DEF TypeOK
<1>3. /\ Current \in Lifecycle!Statuses
      /\ planned \in BOOLEAN
      /\ supportCase \in BOOLEAN
  BY ServerTypes
<1>4. /\ data \in Snapshot
      /\ data.status = Current
      /\ data.plan = planned
      /\ data.case = supportCase
  BY <1>3 DEF Snapshot
<1>5. /\ poll.answers = {}
      /\ ~poll.timer
      /\ poll.live
      /\ page.panel
      /\ IsProcessing(page.shown)
      /\ page.track[3] = "none"
  BY <1>1 DEF DisplayInv, LiveInv
<1>6. /\ poll' \in Poll
      /\ poll'.live
      /\ ~poll'.timer
      /\ ~poll'.asked
      /\ poll'.answers = {data}
  <2>1. poll' = [poll EXCEPT !.asked = FALSE, !.answers = {data}]
    BY <1>1, <1>5
  <2>2. QED
    BY <1>2, <1>4, <1>5, <2>1 DEF Poll
<1>7. BrowserTypes'
  BY <1>1, <1>2, <1>6 DEF BrowserTypes, forms
<1>8. UNCHANGED <<Current, planned, supportCase, page>>
  BY <1>1 DEF server, execution, Current
<1>9. Behind(page.shown, page.track, Current, StageTrack(data))
  <2>1. /\ Behind(page.shown, page.track, Current, RenderedTrack(Current, planned))
        /\ page.track \in Track
    BY <1>2, <1>5 DEF DisplayInv, PageInv, Page
  <2>2. MarkRank(page.track[3]) = 0
    BY <1>5 DEF MarkRank
  <2>3. MarkRank(StageTrack(data)[3]) \in 0..2
    BY <1>4, StageMarks, TrackMarks
  <2>4. MarkRank(StageTrack(data)[1]) = MarkRank(RenderedTrack(Current, planned)[1])
    BY <1>3, <1>4, StageMarks, RenderedMarks
  <2>5. MarkRank(StageTrack(data)[2]) = MarkRank(RenderedTrack(Current, planned)[2])
    BY <1>3, <1>4, StageMarks, RenderedMarks
  <2>6. /\ MarkRank(page.track[1]) <= MarkRank(StageTrack(data)[1])
        /\ MarkRank(page.track[2]) <= MarkRank(StageTrack(data)[2])
        /\ MarkRank(page.track[3]) <= MarkRank(StageTrack(data)[3])
    BY <2>1, <2>2, <2>3, <2>4, <2>5 DEF Behind
  <2>7. \A i \in 1..3 : MarkRank(page.track[i]) <= MarkRank(StageTrack(data)[i])
    BY <2>6
  <2>8. QED
    BY <2>1, <2>7 DEF Behind
<1>10. AnswerInv(data)
  <2>1. Current # "Absent"
    BY <1>5 DEF DisplayInv, PageInv
  <2>2. QED
    BY <1>4, <1>9, <2>1 DEF AnswerInv, NoLater
<1>11. AnswerInv(data)'
  BY <1>4, <1>8, <1>10 DEF AnswerInv
<1>12. LiveInv'
  BY <1>5, <1>6, <1>8 DEF LiveInv
<1>13. PageInv' /\ ServerInv' /\ ApprovalFormShown'
  BY <1>1, <1>8 DEF DisplayInv, PageInv, ServerInv, ApprovalFormShown
<1>14. QED
  BY <1>6, <1>7, <1>11, <1>12, <1>13 DEF DisplayInv

\* After a failed poll there is a next one, or the notice.
LEMMA FailPollStep ==
  ASSUME TypeOK, DisplayInv, FailPoll
  PROVE  BrowserTypes' /\ DisplayInv'
<1> DEFINE q == [poll EXCEPT !.asked = FALSE]
<1>1. /\ ScheduleNext(page, q)
      /\ poll.asked
      /\ UNCHANGED <<server, reducedMotion, here, request, forms, nav>>
  BY DEF FailPoll
<1>2. poll \in Poll /\ BrowserTypes /\ page \in Page /\ reducedMotion \in BOOLEAN
  BY Types DEF TypeOK
<1>3. /\ poll.answers = {}
      /\ ~poll.timer
      /\ poll.live
      /\ page.panel
  BY <1>1 DEF DisplayInv, LiveInv
<1>4. /\ q \in Poll
      /\ q.live
      /\ ~q.timer
      /\ ~q.asked
      /\ q.answers = {}
  BY <1>2, <1>3 DEF Poll
<1> HIDE DEF q
<1>5. /\ poll' \in Poll /\ page' \in Page
      /\ ~poll'.asked
      /\ poll'.answers = {}
      /\ \/ poll'.live /\ poll'.timer /\ page' = page
         \/ ~poll'.live /\ ~poll'.timer /\ page' = [page EXCEPT !.notice = TRUE]
  BY <1>1, <1>2, <1>4, Scheduling
<1>6. /\ page'.panel = page.panel
      /\ page'.shown = page.shown
      /\ page'.track = page.track
      /\ page'.approvalForm = page.approvalForm
      /\ page'.interrupted = page.interrupted
      /\ ~poll'.live => page'.notice
  BY <1>2, <1>5 DEF Page
<1>7. BrowserTypes'
  BY <1>1, <1>2, <1>5 DEF BrowserTypes, forms
<1>8. UNCHANGED <<Current, planned, supportCase, nav>>
  BY <1>1 DEF server, execution, Current
<1>9. LiveInv'
  BY <1>3, <1>5, <1>6 DEF DisplayInv, LiveInv
<1>10. PageInv' /\ ServerInv' /\ ApprovalFormShown'
  BY <1>6, <1>8 DEF DisplayInv, PageInv, ServerInv, ApprovalFormShown
<1>11. QED
  BY <1>5, <1>7, <1>9, <1>10 DEF DisplayInv

\* What an answer brings is shown; polling goes on only for a workflow under
\* way, and a reload is begun only for one that has ended.
LEMMA ReceivePollStep ==
  ASSUME TypeOK, DisplayInv, NEW data \in poll.answers, ReceivePoll(data)
  PROVE  BrowserTypes' /\ DisplayInv'
<1> DEFINE display == [page EXCEPT !.shown = data.status,
                                   !.track = StageTrack(data)]
           rest == [poll EXCEPT !.answers = @ \ {data}]
           reload == [kind |-> "reload", form |-> "none", age |-> 0]
<1>1. /\ nav' = IF Reloads(data) THEN reload ELSE nav
      /\ UNCHANGED <<server, reducedMotion, here, request, forms>>
  BY DEF ReceivePoll
<1>2. /\ poll \in Poll
      /\ BrowserTypes
      /\ page \in Page
      /\ reducedMotion \in BOOLEAN
      /\ Current \in Lifecycle!Statuses
      /\ planned \in BOOLEAN
  BY Types, ServerTypes DEF TypeOK
<1>3. /\ data \in Snapshot
      /\ data.status \in Lifecycle!Statuses
      /\ AnswerInv(data)
  BY <1>2 DEF Poll, Snapshot, DisplayInv
<1>4. /\ poll.answers = {data}
      /\ ~poll.timer
      /\ ~poll.asked
      /\ poll.live
      /\ page.panel
  BY DEF DisplayInv, LiveInv
<1>5. StageTrack(data) \in Track
  BY <1>3, StageMarks
<1> HIDE DEF Track
<1>6. /\ display \in Page
      /\ display.panel
      /\ display.shown = data.status
      /\ display.track = StageTrack(data)
      /\ display.approvalForm = page.approvalForm
  BY <1>2, <1>3, <1>4, <1>5 DEF Page
<1>7. /\ rest \in Poll
      /\ rest.live
      /\ ~rest.timer
      /\ ~rest.asked
      /\ rest.answers = {}
  BY <1>2, <1>4 DEF Poll
<1>8. \/ /\ data.status \in TERMINAL
         /\ poll' = [rest EXCEPT !.live = FALSE, !.timer = FALSE]
         /\ page' = display
      \/ /\ data.status \notin TERMINAL
         /\ ScheduleNext(display, rest)
  BY DEF ReceivePoll
<1> HIDE DEF display, rest
<1>9. /\ poll' \in Poll /\ page' \in Page
      /\ ~poll'.asked
      /\ poll'.answers = {}
      /\ poll'.timer <=> poll'.live
      /\ poll'.live => data.status \notin TERMINAL
      /\ ~poll'.live => data.status \in TERMINAL \/ page'.notice
      /\ page'.panel
      /\ page'.shown = data.status
      /\ page'.track = StageTrack(data)
      /\ page'.approvalForm = page.approvalForm
  <2>1. CASE /\ data.status \in TERMINAL
             /\ poll' = [rest EXCEPT !.live = FALSE, !.timer = FALSE]
             /\ page' = display
    <3>1. /\ poll' \in Poll
          /\ ~poll'.asked
          /\ poll'.answers = {}
          /\ ~poll'.timer
          /\ ~poll'.live
      BY <1>7, <2>1 DEF Poll
    <3>2. QED
      BY <1>6, <2>1, <3>1
  <2>2. CASE data.status \notin TERMINAL /\ ScheduleNext(display, rest)
    <3>1. /\ poll' \in Poll /\ page' \in Page
          /\ ~poll'.asked
          /\ poll'.answers = {}
          /\ \/ poll'.live /\ poll'.timer /\ page' = display
             \/ /\ ~poll'.live /\ ~poll'.timer
                /\ page' = [display EXCEPT !.notice = TRUE]
      BY <1>2, <1>6, <1>7, <2>2, Scheduling
    <3>2. /\ page'.panel = display.panel
          /\ page'.shown = display.shown
          /\ page'.track = display.track
          /\ page'.approvalForm = display.approvalForm
          /\ ~poll'.live => page'.notice
      BY <1>6, <3>1 DEF Page
    <3>3. QED
      BY <1>6, <2>2, <3>1, <3>2
  <2>3. QED
    BY <1>8, <2>1, <2>2
<1>10. BrowserTypes'
  <2>1. reload \in Nav
    BY PageAssumption DEF Nav
  <2>2. nav' \in Nav
    BY <1>1, <1>2, <2>1 DEF BrowserTypes
  <2>3. QED
    BY <1>1, <1>2, <1>9, <2>2 DEF BrowserTypes, forms
<1>11. UNCHANGED <<Current, planned, supportCase>>
  BY <1>1 DEF server, execution, Current
<1>12. PageInv'
  <2>1. Behind(data.status, StageTrack(data), Current,
               RenderedTrack(Current, planned))
    BY <1>2, <1>3, StagesBehindRendered DEF AnswerInv
  <2>2. Current # "Absent"
    BY <1>4 DEF DisplayInv, PageInv
  <2>3. QED
    BY <1>9, <1>11, <2>1, <2>2 DEF PageInv
<1>13. LiveInv'
  <2>1. ASSUME data.status \notin TERMINAL
        PROVE  IsProcessing(data.status) /\ StageTrack(data)[3] = "none"
    <3>1. data.status # "Absent"
      BY <1>3 DEF AnswerInv
    <3>2. StatusRank(data.status) \in {1, 2}
      BY <1>3, <2>1, <3>1, Ranks
    <3>3. StatusRank(data.status) < 3
      BY <3>2
    <3>4. QED
      BY <1>3, <3>2, <3>3, Ranks, StageMarks
  <2>2. QED
    BY <1>9, <2>1 DEF LiveInv
<1>14. ServerInv'
  <2>1. Reloads(data) => Current \in TERMINAL
    <3>1. CASE data.status \in {"WaitingForApproval", "Failed"}
      <4>1. data.status \in TERMINAL
        BY <3>1 DEF TERMINAL
      <4>2. StatusRank(data.status) >= 3
        BY <1>3, <4>1, Ranks
      <4>3. StatusRank(Current) >= 3
        BY <1>2, <1>3, <4>2, NoLaterRank DEF AnswerInv
      <4>4. QED
        BY <1>2, <4>3, Ranks
    <3>2. CASE data.case
      BY <1>3, <3>2 DEF AnswerInv, DisplayInv, ServerInv, TERMINAL
    <3>3. QED
      BY <3>1, <3>2 DEF Reloads
  <2>2. CASE Reloads(data)
    <3>1. nav'.kind = "reload"
      BY <1>1, <2>2
    <3>2. QED
      BY <1>9, <1>11, <2>1, <2>2, <3>1 DEF DisplayInv, ServerInv
  <2>3. CASE ~Reloads(data)
    <3>1. nav' = nav
      BY <1>1, <2>3
    <3>2. QED
      BY <1>9, <1>11, <3>1 DEF DisplayInv, ServerInv
  <2>4. QED
    BY <2>2, <2>3
<1>15. ApprovalFormShown'
  <2>1. data.status = "WaitingForApproval" => nav'.kind = "reload"
    BY <1>1 DEF Reloads
  <2>2. QED
    BY <1>9, <2>1 DEF ApprovalFormShown
<1>16. QED
  BY <1>9, <1>10, <1>12, <1>13, <1>14, <1>15 DEF DisplayInv

\* The display after any step.
LEMMA NextDisplay ==
  ASSUME TypeOK, DisplayInv, [Next]_vars
  PROVE  TypeOK' /\ DisplayInv' /\ ServerMovesOn
<1>1. ServerMovesOn
  BY AlwaysMovesOn DEF DisplayInv
<1>2. BrowserTypes' => TypeOK'
  BY <1>1, Types DEF ServerMovesOn, TypeOK, BrowserTypes, Entry, Timer
<1>3. CASE FollowLink \/ CompleteReload \/ CompletePost
  <2>1. Loaded
    BY <1>3, Loading DEF DisplayInv
  <2>2. BrowserTypes'
    BY <1>1, <2>1, LoadedTypes
  <2>3. QED
    BY <1>1, <1>2, <2>1, <2>2, LoadedDisplay
<1>4. CASE Undisplayed
  BY <1>1, <1>2, <1>4, UndisplayedTypes, UndisplayedKeeps, UndisplayedDisplay
<1>5. CASE Polling
  BY <1>1, <1>2, <1>5, StartPollStep, AnswerPollStep, FailPollStep,
     ReceivePollStep DEF Polling
<1>6. CASE UNCHANGED vars
  <2>1. UNCHANGED <<status, attempts, decision, planned, supportCase,
                    reducedMotion, here, page, request, poll, busy, deferred,
                    restores, nav>>
    BY <1>6 DEF vars, server, execution, forms
  <2>2. TypeOK'
    BY <2>1 DEF TypeOK, Lifecycle!TypeOK
  <2>3. DisplayInv'
    BY <2>1 DEF DisplayInv, ApprovalFormShown, PageInv, AnswerInv, LiveInv,
       ServerInv, Current
  <2>4. QED
    BY <1>1, <2>2, <2>3
<1>7. QED
  BY <1>3, <1>4, <1>5, <1>6, Steps

-------------------------------------------------------------------------------
(* The request.                                                            *)

\* A scenario is filled in and taken away with its message.
LEMMA NextScenario ==
  ASSUME ScenarioMatchesPrompt, TypeOK, ServerInv, [Next]_vars
  PROVE  ScenarioMatchesPrompt'
<1>1. NoRequest.scenario = ScenarioOf(NoRequest.text)
  BY DEF NoRequest, ScenarioOf
<1>2. CASE FollowLink \/ CompleteReload \/ CompletePost
  <2>1. request' = request \/ request' = NoRequest
    BY <1>2, Loading DEF Loaded
  <2>2. QED
    BY <1>1, <2>1 DEF ScenarioMatchesPrompt
<1>3. CASE SelectScenario
  BY <1>3 DEF SelectScenario, ScenarioMatchesPrompt, ScenarioOf
<1>4. CASE EditMessage
  BY <1>1, <1>4 DEF EditMessage, ScenarioMatchesPrompt
<1>5. CASE Undisplayed /\ ~SelectScenario /\ ~EditMessage
  <2>1. request' = request
    BY <1>5 DEF Undisplayed, Submit, PageShow, EnterBusy, SafetyRestore, Tick,
       LeaveByPost, BlockNavigation, ServerStep
  <2>2. QED
    BY <2>1 DEF ScenarioMatchesPrompt
<1>6. CASE Polling \/ UNCHANGED vars
  <2>1. request' = request
    BY <1>6 DEF Polling, StartPoll, AnswerPoll, FailPoll, ReceivePoll, vars
  <2>2. QED
    BY <2>1 DEF ScenarioMatchesPrompt
<1>7. QED
  BY <1>2, <1>3, <1>4, <1>5, <1>6, Steps

-------------------------------------------------------------------------------
(* The forms.                                                              *)

\* A submit event leaves one callback more.
LEMMA PendingAfterAppend ==
  ASSUME deferred \in Seq(Entry), NEW e \in Entry,
         deferred' = Append(deferred, e), NEW g
  PROVE  PendingForm(g)' <=>
           PendingForm(g) \/ e = [form |-> g, cancelled |-> FALSE]
<1> DEFINE n == Len(deferred)
<1>1. /\ n \in Nat
      /\ Len(deferred') = n + 1
      /\ \A i \in 1..n : deferred'[i] = deferred[i]
      /\ deferred'[n + 1] = e
  BY AppendProperties, LenProperties
<1> HIDE DEF n
<1>2. 1..(n + 1) = (1..n) \cup {n + 1}
  BY <1>1
<1>3. PendingForm(g)' <=>
        \E i \in 1..(n + 1) : deferred'[i] = [form |-> g, cancelled |-> FALSE]
  BY <1>1 DEF PendingForm
<1>4. PendingForm(g) <=>
        \E i \in 1..n : deferred[i] = [form |-> g, cancelled |-> FALSE]
  BY DEF PendingForm, n
<1>5. QED
  BY <1>1, <1>2, <1>3, <1>4

\* A callback that runs is the first of those there were.
LEMMA PendingAfterTail ==
  ASSUME deferred \in Seq(Entry), deferred # <<>>,
         deferred' = Tail(deferred), NEW g
  PROVE  PendingForm(g) <=>
           PendingForm(g)' \/ Head(deferred) = [form |-> g, cancelled |-> FALSE]
<1> DEFINE n == Len(deferred)
<1>1. /\ n \in Nat \ {0}
      /\ Len(deferred') = n - 1
      /\ \A i \in 1..(n - 1) : deferred'[i] = deferred[i + 1]
      /\ Head(deferred) = deferred[1]
  BY HeadTailProperties, EmptySeq, LenProperties
<1> HIDE DEF n
<1>2. PendingForm(g)' <=>
        \E i \in 1..(n - 1) : deferred'[i] = [form |-> g, cancelled |-> FALSE]
  BY <1>1 DEF PendingForm
<1>3. PendingForm(g) <=>
        \E i \in 1..n : deferred[i] = [form |-> g, cancelled |-> FALSE]
  BY DEF PendingForm, n
<1>4. ASSUME PendingForm(g)
      PROVE  PendingForm(g)' \/ Head(deferred) = [form |-> g, cancelled |-> FALSE]
  <2>1. PICK i \in 1..n : deferred[i] = [form |-> g, cancelled |-> FALSE]
    BY <1>3, <1>4
  <2>2. CASE i = 1
    BY <1>1, <2>1, <2>2
  <2>3. CASE i # 1
    <3>1. i - 1 \in 1..(n - 1) /\ (i - 1) + 1 = i
      BY <1>1, <2>3
    <3>2. deferred'[i - 1] = deferred[i]
      BY <1>1, <3>1
    <3>3. QED
      BY <1>2, <2>1, <3>1, <3>2
  <2>4. QED
    BY <2>2, <2>3
<1>5. ASSUME PendingForm(g)'
      PROVE  PendingForm(g)
  <2>1. PICK i \in 1..(n - 1) : deferred'[i] = [form |-> g, cancelled |-> FALSE]
    BY <1>2, <1>5
  <2>2. i + 1 \in 1..n /\ deferred[i + 1] = deferred'[i]
    BY <1>1
  <2>3. QED
    BY <1>3, <2>1, <2>2
<1>6. ASSUME Head(deferred) = [form |-> g, cancelled |-> FALSE]
      PROVE  PendingForm(g)
  <2>1. 1 \in 1..n
    BY <1>1
  <2>2. deferred[1] = [form |-> g, cancelled |-> FALSE]
    BY <1>1, <1>6
  <2>3. QED
    BY <1>3, <2>1, <2>2
<1>7. QED
  BY <1>4, <1>5, <1>6

\* Nothing waits in an empty queue.
LEMMA NonePending ==
  ASSUME deferred = <<>>, NEW g
  PROVE  ~PendingForm(g)
<1>1. Len(deferred) = 0
  BY EmptySeq
<1>2. QED
  BY <1>1 DEF PendingForm

\* Steps that leave the forms alone begin no submission.
LEMMA FormsLeftAlone ==
  ASSUME FormsInv, UNCHANGED forms,
         page.restored => page'.restored,
         nav' = nav \/ nav'.kind # "post"
  PROVE  FormsInv'
<1>1. UNCHANGED <<busy, deferred, restores>>
  BY DEF forms
<1>2. ASSUME NEW g PROVE PendingForm(g)' <=> PendingForm(g)
  BY <1>1 DEF PendingForm
<1>3. TimersInv => TimersInv'
  BY <1>1, <1>2 DEF TimersInv
<1>4. UnderWayInv => UnderWayInv'
  BY <1>1, <1>2 DEF UnderWayInv
<1>5. QED
  BY <1>3, <1>4 DEF FormsInv

\* The form that is submitted has no timer, and its callback is still to come.
LEMMA SubmitForms ==
  ASSUME TypeOK, FormsInv, NEW f \in Forms, NEW cancelled \in BOOLEAN,
         Submit(f, cancelled)
  PROVE  FormsInv'
<1> DEFINE e == [form |-> f, cancelled |-> cancelled]
<1>1. /\ f \notin busy
      /\ deferred' = Append(deferred, e)
      /\ UNCHANGED <<busy, restores>>
      /\ \/ cancelled /\ UNCHANGED <<nav, page>>
         \/ /\ ~cancelled
            /\ nav' = [kind |-> "post", form |-> f, age |-> 0]
            /\ page' = Overridden
  BY DEF Submit, Interactive
<1>2. deferred \in Seq(Entry) /\ e \in Entry
  BY DEF TypeOK, Entry
<1>3. ASSUME NEW g
      PROVE  PendingForm(g)' <=> PendingForm(g) \/ (g = f /\ ~cancelled)
  BY <1>1, <1>2, PendingAfterAppend
<1>4. page'.restored = page.restored
  BY <1>1, OverriddenPage
<1>5. TimersInv => TimersInv'
  BY <1>1, <1>3 DEF TimersInv
<1>6. UnderWayInv => UnderWayInv'
  <2>1. CASE cancelled
    BY <1>1, <1>3, <2>1 DEF UnderWayInv
  <2>2. CASE ~cancelled
    <3>1. nav'.form = f
      BY <1>1, <2>2
    <3>2. PendingForm(f)'
      BY <1>3, <2>2
    <3>3. PendingForm(nav.form)'
      BY <3>1, <3>2 DEF PendingForm
    <3>4. QED
      BY <3>3 DEF UnderWayInv
  <2>3. QED
    BY <2>1, <2>2
<1>7. QED
  BY <1>4, <1>5, <1>6 DEF FormsInv

\* A form that becomes busy has a timer as young as any submission of it.
LEMMA EnterBusyForms ==
  ASSUME TypeOK, FormsInv, EnterBusy
  PROVE  FormsInv'
<1> DEFINE f == Head(deferred).form
           timer == [form |-> f, left |-> RestoreAfter]
<1>1. /\ deferred # <<>>
      /\ deferred' = Tail(deferred)
      /\ UNCHANGED <<page, nav>>
      /\ \/ Head(deferred).cancelled /\ UNCHANGED <<busy, restores>>
         \/ /\ ~Head(deferred).cancelled
            /\ busy' = busy \cup {f}
            /\ restores' = restores \cup {timer}
  BY DEF EnterBusy
<1>2. deferred \in Seq(Entry) /\ restores \subseteq Timer /\ nav \in Nav
  BY DEF TypeOK, Entry, Timer
<1>3. Head(deferred) \in Entry
  BY <1>1, <1>2, HeadTailProperties
<1>4. ASSUME NEW g
      PROVE  Head(deferred) = [form |-> g, cancelled |-> FALSE] <=>
               g = f /\ ~Head(deferred).cancelled
  BY <1>3 DEF Entry
<1>5. ASSUME NEW g
      PROVE  PendingForm(g) <=>
               PendingForm(g)' \/ (g = f /\ ~Head(deferred).cancelled)
  BY <1>1, <1>2, <1>4, PendingAfterTail
<1>6. CASE Head(deferred).cancelled
  <2>1. UNCHANGED <<page, nav, busy, restores>>
    BY <1>1, <1>6
  <2>2. ASSUME NEW g PROVE PendingForm(g)' <=> PendingForm(g)
    BY <1>5, <1>6
  <2>3. QED
    BY <2>1, <2>2 DEF FormsInv, TimersInv, UnderWayInv
<1>7. CASE ~Head(deferred).cancelled /\ TimersInv /\ UnderWayInv
  <2>1. PendingForm(f)
    BY <1>5, <1>7
  <2>2. busy' = busy \cup {f} /\ restores' = restores \cup {timer}
    BY <1>1, <1>7
  <2>3. timer.form = f /\ timer.left = RestoreAfter
    OBVIOUS
  <2>4. ASSUME NEW r \in restores, r.form = f
        PROVE  r = timer
    <3>1. r.left = RestoreAfter
      BY <1>7, <2>1, <2>4 DEF TimersInv
    <3>2. r \in Timer
      BY <1>2
    <3>3. QED
      BY <2>4, <3>1, <3>2 DEF Timer
  <2> HIDE DEF timer, f
  <2>5. TimersInv'
    <3>1. \A r \in restores' : r.form \in busy'
      BY <1>7, <2>2, <2>3 DEF TimersInv
    <3>2. \A r, s \in restores' : r.form = s.form => r = s
      BY <1>7, <2>2, <2>3, <2>4 DEF TimersInv
    <3>3. \A r \in restores' : PendingForm(r.form)' => r.left = RestoreAfter
      BY <1>5, <1>7, <2>2, <2>3 DEF TimersInv
    <3>4. QED
      BY <3>1, <3>2, <3>3 DEF TimersInv
  <2>6. UnderWayInv'
    <3>1. nav' = nav
      BY <1>1
    <3>2. CASE nav.form = f
      <4>1. f \in busy'
        BY <2>2
      <4>2. ASSUME NEW r \in restores', r.form = f
            PROVE  r.left + nav.age >= RestoreAfter
        <5>1. r = timer
          BY <2>2, <2>4, <4>2
        <5>2. nav.age \in Nat /\ RestoreAfter \in Nat
          BY <1>2, PageAssumption DEF Nav
        <5>3. QED
          BY <2>3, <5>1, <5>2
      <4>3. QED
        BY <3>1, <3>2, <4>1, <4>2 DEF UnderWayInv
    <3>3. CASE nav.form # f
      <4> PICK g : g = nav.form
        OBVIOUS
      <4>1. PendingForm(g)' <=> PendingForm(g)
        BY <1>5, <3>3
      <4>2. \A r \in restores' : r.form = nav.form => r \in restores
        BY <2>2, <2>3, <3>3
      <4>3. PendingForm(nav.form)' <=> PendingForm(nav.form)
        BY <3>1, <4>1 DEF PendingForm
      <4>4. QED
        BY <1>7, <2>2, <3>1, <4>2, <4>3 DEF UnderWayInv
    <3>4. QED
      BY <3>2, <3>3
  <2>7. QED
    BY <2>5, <2>6 DEF FormsInv
<1>8. CASE page.restored
  BY <1>1, <1>8 DEF FormsInv
<1>9. QED
  BY <1>6, <1>7, <1>8 DEF FormsInv

\* The timer that enables a form again is the only one of the form, and has
\* outlived its submission.
LEMMA SafetyRestoreForms ==
  ASSUME TypeOK, FormsInv, NEW r \in restores, SafetyRestore(r)
  PROVE  FormsInv'
<1>1. /\ r.left = 0
      /\ restores' = restores \ {r}
      /\ busy' = busy \ {r.form}
      /\ UNCHANGED <<page, deferred, nav>>
  BY DEF SafetyRestore
<1>2. nav.age \in Nat /\ RestoreAfter \in Nat
  BY PageAssumption DEF TypeOK, Nav
<1>3. ASSUME NEW g PROVE PendingForm(g)' <=> PendingForm(g)
  BY <1>1 DEF PendingForm
<1>4. CASE TimersInv /\ UnderWayInv
  <2>1. ASSUME NEW s \in restores'
        PROVE  s \in restores /\ s.form # r.form
    BY <1>1, <1>4 DEF TimersInv
  <2>2. TimersInv'
    <3>1. \A s \in restores' : s.form \in busy'
      BY <1>1, <1>4, <2>1 DEF TimersInv
    <3>2. \A s, t \in restores' : s.form = t.form => s = t
      BY <1>4, <2>1 DEF TimersInv
    <3>3. \A s \in restores' : PendingForm(s.form)' => s.left = RestoreAfter
      BY <1>3, <1>4, <2>1 DEF TimersInv
    <3>4. QED
      BY <3>1, <3>2, <3>3 DEF TimersInv
  <2>3. UnderWayInv'
    <3>1. SUFFICES ASSUME nav.kind = "post", nav.age < RestoreAfter,
                          ~PendingForm(nav.form)
                   PROVE  /\ nav.form \in busy'
                          /\ \A s \in restores' : s.form = nav.form =>
                               s.left + nav.age >= RestoreAfter
      BY <1>1, <1>3 DEF UnderWayInv
    <3>2. /\ nav.form \in busy
          /\ \A s \in restores : s.form = nav.form =>
               s.left + nav.age >= RestoreAfter
      BY <1>4, <3>1 DEF UnderWayInv
    <3>3. r.form # nav.form
      BY <1>1, <1>2, <3>1, <3>2
    <3>4. QED
      BY <1>1, <2>1, <3>2, <3>3
  <2>4. QED
    BY <2>2, <2>3 DEF FormsInv
<1>5. CASE page.restored
  BY <1>1, <1>5 DEF FormsInv
<1>6. QED
  BY <1>4, <1>5 DEF FormsInv

\* What a submission ages by, its form's timer has less left.
LEMMA TickForms ==
  ASSUME TypeOK, FormsInv, Tick
  PROVE  FormsInv'
<1>1. /\ deferred = <<>>
      /\ restores' = {Elapse(r) : r \in restores}
      /\ nav' = IF nav.kind = "post" /\ nav.age < RestoreAfter
                THEN [nav EXCEPT !.age = @ + 1] ELSE nav
      /\ UNCHANGED <<page, busy, deferred>>
  BY DEF Tick
<1>2. nav \in Nav /\ nav.age \in Nat /\ RestoreAfter \in Nat
  BY PageAssumption DEF TypeOK, Nav
<1>3. ASSUME NEW r \in restores
      PROVE  /\ r.left \in Nat
             /\ Elapse(r).form = r.form
             /\ Elapse(r).left = r.left - 1
  <2>1. r \in [form : Forms, left : 0..RestoreAfter]
    BY DEF TypeOK
  <2>2. QED
    BY <1>2, <2>1 DEF Elapse
<1>4. ASSUME NEW g PROVE ~PendingForm(g) /\ ~PendingForm(g)'
  <2>1. ~PendingForm(g)
    BY <1>1, NonePending
  <2>2. PendingForm(g)' <=> PendingForm(g)
    BY <1>1 DEF PendingForm
  <2>3. QED
    BY <2>1, <2>2
<1> HIDE DEF Elapse
<1>5. CASE TimersInv /\ UnderWayInv
  <2>1. TimersInv'
    BY <1>1, <1>3, <1>4, <1>5 DEF TimersInv
  <2>2. UnderWayInv'
    <3>1. SUFFICES ASSUME nav'.kind = "post", nav'.age < RestoreAfter
                   PROVE  /\ nav'.form \in busy
                          /\ \A s \in restores' : s.form = nav'.form =>
                               s.left + nav'.age >= RestoreAfter
      BY <1>1 DEF UnderWayInv
    <3>2. nav.kind = "post" /\ nav.age < RestoreAfter
      BY <1>1, <1>2, <3>1 DEF Nav
    <3>3. nav'.form = nav.form /\ nav'.age = nav.age + 1
      BY <1>1, <1>2, <3>2 DEF Nav
    <3>4. /\ nav.form \in busy
          /\ \A r \in restores : r.form = nav.form =>
               r.left + nav.age >= RestoreAfter
      BY <1>4, <1>5, <3>2 DEF UnderWayInv
    <3>5. ASSUME NEW s \in restores', s.form = nav'.form
          PROVE  s.left + nav'.age >= RestoreAfter
      <4>1. PICK r \in restores : s = Elapse(r)
        BY <1>1
      <4>2. r.left + nav.age >= RestoreAfter
        BY <1>3, <3>3, <3>4, <3>5, <4>1
      <4>3. QED
        BY <1>2, <1>3, <3>3, <4>1, <4>2
    <3>6. QED
      BY <3>3, <3>4, <3>5
  <2>3. QED
    BY <2>1, <2>2 DEF FormsInv
<1>6. CASE page.restored
  BY <1>1, <1>6 DEF FormsInv
<1>7. QED
  BY <1>5, <1>6 DEF FormsInv

\* Polling has no part in whether a page was restored.
LEMMA PollingForms ==
  ASSUME TypeOK, FormsInv, Polling
  PROVE  FormsInv'
<1>1. page \in Page /\ UNCHANGED forms
  BY DEF TypeOK, Polling, StartPoll, AnswerPoll, FailPoll, ReceivePoll
<1>2. ASSUME NEW p \in Page, NEW q, ScheduleNext(p, q)
      PROVE  page'.restored = p.restored
  <2>1. page' = p \/ page' = [p EXCEPT !.notice = TRUE]
    BY <1>2 DEF ScheduleNext
  <2>2. QED
    BY <2>1 DEF Page
<1>3. CASE StartPoll \/ AnswerPoll
  BY <1>1, <1>3, FormsLeftAlone DEF StartPoll, AnswerPoll
<1>4. CASE FailPoll
  <2>1. ScheduleNext(page, [poll EXCEPT !.asked = FALSE]) /\ nav' = nav
    BY <1>4 DEF FailPoll
  <2>2. page'.restored = page.restored
    BY <1>1, <1>2, <2>1
  <2>3. QED
    BY <1>1, <2>1, <2>2, FormsLeftAlone
<1>5. ASSUME NEW data \in poll.answers, ReceivePoll(data)
      PROVE  FormsInv'
  <2> DEFINE display == [page EXCEPT !.shown = data.status,
                                     !.track = StageTrack(data)]
             rest == [poll EXCEPT !.answers = @ \ {data}]
  <2>1. nav' = nav \/ nav'.kind # "post"
    BY <1>5 DEF ReceivePoll
  <2>2. page' = display \/ ScheduleNext(display, rest)
    BY <1>5 DEF ReceivePoll
  <2>3. display \in Page
    <3>1. poll.answers \subseteq Snapshot
      BY DEF TypeOK, Poll
    <3>2. data \in Snapshot
      BY <3>1
    <3>3. data.status \in Lifecycle!Statuses /\ StageTrack(data) \in Track
      BY <3>2, StageMarks DEF Snapshot
    <3> HIDE DEF Track
    <3>4. QED
      BY <1>1, <3>3 DEF Page
  <2>4. display.restored = page.restored
    BY <1>1 DEF Page
  <2> HIDE DEF display
  <2>5. page'.restored = page.restored
    BY <1>2, <2>2, <2>3, <2>4
  <2>6. QED
    BY <1>1, <2>1, <2>5, FormsLeftAlone
<1>6. QED
  BY <1>3, <1>4, <1>5 DEF Polling

\* The forms after any step.
LEMMA NextForms ==
  ASSUME TypeOK, DisplayInv, FormsInv, [Next]_vars
  PROVE  FormsInv'
<1>1. CASE FollowLink \/ CompleteReload \/ CompletePost
  <2>1. Loaded
    BY <1>1, Loading DEF DisplayInv
  <2>2. restores' = {} /\ nav'.kind = "none"
    BY <2>1 DEF Loaded, NoNav
  <2>3. QED
    BY <2>2 DEF FormsInv, TimersInv, UnderWayInv
<1>2. CASE SelectScenario \/ EditMessage \/ ServerStep
  BY <1>2, FormsLeftAlone DEF SelectScenario, EditMessage, ServerStep
<1>3. CASE \E f \in Forms, cancelled \in BOOLEAN : Submit(f, cancelled)
  BY <1>3, SubmitForms
<1>4. CASE PageShow
  <2>1. page'.restored
    BY <1>4 DEF PageShow, TypeOK, Page
  <2>2. QED
    BY <2>1 DEF FormsInv
<1>5. CASE EnterBusy
  BY <1>5, EnterBusyForms
<1>6. CASE \E r \in restores : SafetyRestore(r)
  BY <1>6, SafetyRestoreForms
<1>7. CASE Tick
  BY <1>7, TickForms
<1>8. CASE LeaveByPost \/ BlockNavigation
  <2>1. /\ UNCHANGED forms
        /\ nav'.kind # "post"
        /\ page' = page \/ page' = Overridden
    BY <1>8 DEF LeaveByPost, BlockNavigation, NoNav
  <2>2. page'.restored = page.restored
    BY <2>1, OverriddenPage
  <2>3. QED
    BY <2>1, <2>2, FormsLeftAlone
<1>9. CASE Polling
  BY <1>9, PollingForms
<1>10. CASE UNCHANGED vars
  BY <1>10, FormsLeftAlone DEF vars
<1>11. QED
  BY <1>1, <1>2, <1>3, <1>4, <1>5, <1>6, <1>7, <1>8, <1>9, <1>10, Steps
     DEF Undisplayed

-------------------------------------------------------------------------------
(* The theorems.                                                           *)

\* The initial page.
LEMMA InitInv ==
  Init => IInv
<1> SUFFICES ASSUME Init PROVE IInv
  OBVIOUS
<1>1. /\ status = [w \in {Workflow} |-> "Absent"]
      /\ Current = "Absent"
      /\ Lifecycle!TypeOK
  BY PageAssumption DEF Init, Lifecycle!Init, Current, Lifecycle!TypeOK,
     Lifecycle!Statuses
<1>2. /\ ~supportCase /\ ~planned
      /\ reducedMotion \in BOOLEAN /\ here
      /\ page = StartPage /\ request = NoRequest /\ poll = NoPoll
      /\ busy = {} /\ deferred = <<>> /\ restores = {} /\ nav = NoNav
  BY DEF Init
<1>3. poll \in Poll /\ ~poll.live /\ ~poll.timer /\ ~poll.asked /\ poll.answers = {}
  BY <1>2 DEF NoPoll, Poll
<1>4. nav.kind = "none"
  BY <1>2 DEF NoNav
<1>5. deferred \in Seq(Entry)
  BY <1>2, EmptySeq
<1>6. TypeOK
  BY <1>1, <1>2, <1>3, <1>5, BlankTypes, StartPageFields, Types DEF Init, BrowserTypes
<1>7. ScenarioMatchesPrompt
  BY <1>2 DEF ScenarioMatchesPrompt, NoRequest, ScenarioOf
<1>8. DisplayInv
  BY <1>2, <1>3, <1>4, StartPageFields DEF DisplayInv, ApprovalFormShown,
     PageInv, LiveInv, ServerInv
<1>9. FormsInv
  BY <1>2, <1>4 DEF FormsInv, TimersInv, UnderWayInv
<1>10. QED
  BY <1>6, <1>7, <1>8, <1>9 DEF IInv

\* The inductive invariant of the page: types, what is displayed, and forms.
THEOREM PageInvariant ==
  Spec => []IInv
<1>1. ASSUME IInv, [Next]_vars PROVE IInv'
  <2>1. TypeOK /\ ScenarioMatchesPrompt /\ DisplayInv /\ FormsInv /\ ServerInv
    BY <1>1 DEF IInv, DisplayInv
  <2>2. QED
    BY <1>1, <2>1, NextDisplay, NextScenario, NextForms DEF IInv
<1>2. QED
  BY <1>1, InitInv, PTL DEF Spec

\* Every variable of the page keeps its type.
THEOREM TypeCorrect ==
  Spec => []TypeOK
<1>1. IInv => TypeOK
  BY DEF IInv
<1>2. QED
  BY <1>1, PageInvariant, PTL

\* No order of submissions, callbacks, timers, reloads and polls lets a form be
\* sent again while its submission is under way and younger than the timeout of
\* the request, on a page that Back has not brought out of the cache.
THEOREM NoSecondSubmission ==
  Spec => []NoDoubleSubmissionAtFirst
<1>1. ASSUME IInv PROVE NoDoubleSubmissionAtFirst
  <2>1. SUFFICES ASSUME ~page.restored, NEW f \in Forms, SubmissionUnderWay(f)
                 PROVE  f \in busy
    BY DEF NoDoubleSubmissionAtFirst, NoDoubleSubmission
  <2>2. /\ deferred = <<>>
        /\ nav.kind = "post" /\ nav.form = f /\ nav.age < RestoreAfter
    BY <2>1 DEF SubmissionUnderWay
  <2>3. UnderWayInv
    BY <1>1, <2>1 DEF IInv, FormsInv
  <2>4. ~PendingForm(nav.form)
    BY <2>2, NonePending
  <2>5. QED
    BY <2>2, <2>3, <2>4 DEF UnderWayInv
<1>2. QED
  BY <1>1, PageInvariant, PTL

\* The demo scenario sent with a message is the one of that message.
THEOREM ScenarioOfThePrompt ==
  Spec => []ScenarioMatchesPrompt
<1>1. IInv => ScenarioMatchesPrompt
  BY DEF IInv
<1>2. QED
  BY <1>1, PageInvariant, PTL

\* A page polls by one chain of timers and fetches, and when it stops it shows
\* a status that lasts or the timeout notice.
THEOREM OnePollingChain ==
  Spec => []PollingIsOpen
<1>1. IInv => PollingIsOpen
  BY DEF IInv, DisplayInv, LiveInv, PollingIsOpen
<1>2. QED
  BY <1>1, PageInvariant, PTL

\* A page that says an approval is waited for has the form for it, is being
\* reloaded, or had its reload interrupted by the customer.
THEOREM ApprovalIsOffered ==
  Spec => []ApprovalFormShown
<1>1. IInv => ApprovalFormShown
  BY DEF IInv, DisplayInv
<1>2. QED
  BY <1>1, PageInvariant, PTL

\* The page that a reload brings does not poll: a poll only starts a reload once
\* the execution has ended, which it stays.
THEOREM ReloadsSettle ==
  Spec => ReloadSettles
<1>1. ASSUME IInv, CompleteReload PROVE ~poll'.live
  <2>1. /\ TypeOK /\ ServerInv
        /\ nav.kind = "reload"
    BY <1>1 DEF IInv, DisplayInv, CompleteReload
  <2>2. Loaded /\ ServerMovesOn
    BY <1>1, <2>1, Loading
  <2>3. Current' \in TERMINAL
    BY <2>1, <2>2 DEF ServerInv, ServerMovesOn
  <2>4. /\ Current' \in Lifecycle!Statuses
        /\ planned' \in BOOLEAN
        /\ supportCase' \in BOOLEAN
    <3>1. Lifecycle!TypeOK'
      BY <2>2 DEF ServerMovesOn
    <3>2. status' \in [{Workflow} -> Lifecycle!Statuses]
      BY <3>1 DEF Lifecycle!TypeOK
    <3>3. QED
      BY <2>2, <3>2 DEF ServerMovesOn, Current
  <2>5. ~IsProcessing(Current')
    <3>1. /\ StatusRank(Current') >= 3 /\ StatusRank(Current') \in 0..4
          /\ IsProcessing(Current') <=> StatusRank(Current') \in {1, 2}
      BY <2>3, <2>4, Ranks
    <3>2. QED
      BY <3>1
  <2>6. page' \in Page
    BY <2>1, <2>2, LoadedTypes DEF BrowserTypes
  <2>7. ~(page'.panel /\ IsProcessing(page'.shown))
    BY <2>2, <2>4, <2>5, StartPageFields, WorkflowPageFields DEF Loaded
  <2>8. QED
    BY <2>2, <2>6, <2>7, InitialPollFields DEF Loaded
<1>2. IInv /\ [Next]_vars => [CompleteReload => ~poll'.live]_vars
  BY <1>1
<1>3. QED
  BY <1>2, PageInvariant, PTL DEF Spec, ReloadSettles

\* What is displayed is never behind itself.
LEMMA BehindItself ==
  ASSUME NEW s, NEW track \in Track
  PROVE  Behind(s, track, s, track)
<1>1. \A i \in 1..3 : MarkRank(track[i]) \in 0..2
  BY TrackMarks
<1>2. QED
  BY <1>1 DEF Behind, NoLater

\* The status line and the stages never go back, over every answer that travels
\* and every page that is loaded.
THEOREM DisplayKeepsUp ==
  Spec => DisplayNeverGoesBack
<1>1. ASSUME IInv, [Next]_vars, page.panel, page'.panel
      PROVE  Behind(page.shown, page.track, page'.shown, page'.track)
  <2>1. /\ TypeOK /\ DisplayInv
        /\ page \in Page
        /\ page.shown \in Lifecycle!Statuses /\ page.track \in Track
    BY <1>1 DEF IInv, TypeOK, Page
  <2>2. CASE page'.shown = page.shown /\ page'.track = page.track
    BY <2>1, <2>2, BehindItself
  <2>3. CASE FollowLink \/ CompleteReload \/ CompletePost
    <3>1. Loaded /\ ServerMovesOn
      BY <2>1, <2>3, Loading DEF DisplayInv
    <3>2. Behind(page.shown, page.track, Current', RenderedTrack(Current', planned'))
      BY <1>1, <2>1, <3>1, StillBehind DEF DisplayInv, PageInv
    <3>3. /\ Current' \in Lifecycle!Statuses
          /\ planned' \in BOOLEAN
          /\ supportCase' \in BOOLEAN
      <4>1. Lifecycle!TypeOK'
        BY <3>1 DEF ServerMovesOn
      <4>2. status' \in [{Workflow} -> Lifecycle!Statuses]
        BY <4>1 DEF Lifecycle!TypeOK
      <4>3. QED
        BY <3>1, <4>2 DEF ServerMovesOn, Current
    <3>4. /\ page'.shown = Current'
          /\ page'.track = RenderedTrack(Current', planned')
      BY <1>1, <3>1, <3>3, StartPageFields, WorkflowPageFields DEF Loaded
    <3>5. QED
      BY <3>2, <3>4
  <2>4. CASE Undisplayed
    BY <2>1, <2>2, <2>4, UndisplayedKeeps DEF Kept
  <2>5. CASE StartPoll \/ AnswerPoll \/ UNCHANGED vars
    BY <2>2, <2>5 DEF StartPoll, AnswerPoll, vars
  <2>6. ASSUME NEW p \in Page, NEW q, ScheduleNext(p, q)
        PROVE  page'.shown = p.shown /\ page'.track = p.track
    <3>1. page' = p \/ page' = [p EXCEPT !.notice = TRUE]
      BY <2>6 DEF ScheduleNext
    <3>2. QED
      BY <3>1 DEF Page
  <2>7. CASE FailPoll
    <3>1. ScheduleNext(page, [poll EXCEPT !.asked = FALSE])
      BY <2>7 DEF FailPoll
    <3>2. QED
      BY <2>1, <2>2, <2>6, <3>1
  <2>8. ASSUME NEW data \in poll.answers, ReceivePoll(data)
        PROVE  Behind(page.shown, page.track, page'.shown, page'.track)
    <3> DEFINE display == [page EXCEPT !.shown = data.status,
                                       !.track = StageTrack(data)]
               rest == [poll EXCEPT !.answers = @ \ {data}]
    <3>1. page' = display \/ ScheduleNext(display, rest)
      BY <2>8 DEF ReceivePoll
    <3>2. data \in Snapshot /\ AnswerInv(data)
      BY <2>1 DEF TypeOK, Poll, DisplayInv
    <3>3. data.status \in Lifecycle!Statuses /\ StageTrack(data) \in Track
      BY <3>2, StageMarks DEF Snapshot
    <3> HIDE DEF Track
    <3>4. /\ display \in Page
          /\ display.shown = data.status
          /\ display.track = StageTrack(data)
      BY <2>1, <3>3 DEF Page
    <3> HIDE DEF display
    <3>5. page'.shown = data.status /\ page'.track = StageTrack(data)
      BY <2>6, <3>1, <3>4
    <3>6. QED
      BY <3>2, <3>5 DEF AnswerInv
  <2>9. QED
    BY <1>1, <2>3, <2>4, <2>5, <2>7, <2>8, Steps DEF Polling
<1>2. ASSUME IInv, [Next]_vars, page.panel, page'.panel
      PROVE  NeverBehind(page, page')
  BY <1>1, <1>2 DEF Behind, NoLater, NeverBehind
<1>3. IInv /\ [Next]_vars =>
        [page.panel /\ page'.panel => NeverBehind(page, page')]_vars
  BY <1>2
<1>4. QED
  BY <1>3, PageInvariant, PTL DEF Spec, DisplayNeverGoesBack
===============================================================================
