------------------------ MODULE WorkflowExecutionProofs ------------------------
(***************************************************************************)
(* The safety of WorkflowExecution for any number of workflows, workers,   *)
(* trigger tasks and attempts, and any timing options.                     *)
(*                                                                         *)
(* Neither Fence nor HistoryIsAppendOnly is inductive alone: that an       *)
(* update writes an exact copy follows from the version it was read at,    *)
(* that no version is used for two contents follows from every write       *)
(* raising it, and this holds of a first write only because no process     *)
(* copies a row that does not exist.  IInv puts these facts together, per  *)
(* process, and the lemmas below show that each action keeps it.           *)
(***************************************************************************)
EXTENDS WorkflowExecution, TLAPS, SequenceTheorems

-------------------------------------------------------------------------------
(* The inductive invariant.                                                *)

Claimed   == {"recover", "agents", "check", "count", "commit"}
Executing == {"agents", "check", "count", "commit"}
Updating  == {"check", "count", "commit"}

\* All updates but the last leave the workflow Recovering, the last ends it,
\* and each has something to append.
PlannedUpdates(todo) ==
  /\ todo # <<>>
  /\ \A i \in 1..Len(todo) :
       /\ todo[i].types # <<>>
       /\ IF i = Len(todo) THEN todo[i].status \in Outcome
          ELSE todo[i].status = "Recovering"

\* What process p may rely on of the copy c it read of row w.
CandidateInv(p, w, c) ==
  /\ c.status \in Active
  /\ p \in Triggers => c.status = "Draft"
  /\ ExactCopy(c, w)
  /\ p \in Workers /\ Unchanged(w, c) => age[w] >= StaleAfter /\ wait[w] = 0

\* What process p may rely on when its memory is j.
JobInv(p, j) ==
  /\ \A w \in Workflows :
       j.cands[w].status # "Absent" => CandidateInv(p, w, j.cands[w])
  /\ j.pc \in Claimed =>
       /\ j.wf \in Workflows
       /\ row[j.wf].status \notin {"Absent", "Draft"}
  /\ j.pc \in Executing => j.snap.status = "Recovering" /\ ExactCopy(j.snap, j.wf)
  /\ j.pc \in Updating => PlannedUpdates(j.todo)
  /\ j.pc = "commit" /\ row[j.wf].version = j.snap.version =>
       j.count = Len(row[j.wf].log)

RowInv(r) ==
  /\ r.attempts <= MaxAttempts
  /\ r.status \in {"Absent", "Draft"} => r.attempts = 0

IInv ==
  /\ TypeOK
  /\ \A w \in Workflows : RowInv(row[w])
  /\ \A p \in Jobs : JobInv(p, job[p])

-------------------------------------------------------------------------------
(* Operators.                                                              *)

\* By labels a sequence of event types and keeps its length.
LEMMA ByType ==
  ASSUME NEW p \in Jobs \cup {"caller"}, NEW types \in Seq(EventType)
  PROVE  By(p, types) \in Seq(Event) /\ (types # <<>> => By(p, types) # <<>>)
<1>1. /\ Len(types) \in Nat
      /\ DOMAIN types = 1..Len(types)
      /\ \A i \in 1..Len(types) : types[i] \in EventType
  BY LenProperties, ElementOfSeq
<1>2. By(p, types) \in [1..Len(types) -> Event]
  BY <1>1 DEF By, Event
<1>3. By(p, types) \in Seq(Event)
  BY <1>1, <1>2, SeqDef
<1>4. types # <<>> => By(p, types) # <<>>
  <2>1. types # <<>> => 1 \in 1..Len(types)
    BY <1>1, EmptySeq
  <2>2. DOMAIN By(p, types) = 1..Len(types)
    BY <1>2
  <2>3. QED
    BY <2>1, <2>2
<1>5. QED
  BY <1>3, <1>4

\* AddNewEvents yields a log, whatever the count.
LEMMA AddNewEventsType ==
  ASSUME NEW S, NEW log \in Seq(S), NEW events \in Seq(S), NEW n \in Nat
  PROVE  AddNewEvents(log, events, n) \in Seq(S)
<1>1. Len(events) \in Nat
  BY LenProperties
<1>2. \A i \in (n + 1)..Len(events) : events[i] \in S
  BY <1>1, ElementOfSeq
<1>3. SubSeq(events, n + 1, Len(events)) \in Seq(S)
  BY <1>1, <1>2, SubSeqProperties
<1>4. QED
  BY <1>3, ConcatProperties DEF AddNewEvents

\* With the count of the stored events, AddNewEvents stores the whole state.
LEMMA AddNewEventsExact ==
  ASSUME NEW S, NEW log \in Seq(S), NEW new \in Seq(S)
  PROVE  AddNewEvents(log, log \o new, Len(log)) = log \o new
<1> DEFINE all == log \o new
           rest == SubSeq(all, Len(log) + 1, Len(all))
<1>1. /\ Len(log) \in Nat
      /\ Len(new) \in Nat
      /\ all \in Seq(S)
      /\ Len(all) = Len(log) + Len(new)
      /\ \A i \in 1..Len(all) :
           all[i] = IF i <= Len(log) THEN log[i] ELSE new[i - Len(log)]
  BY LenProperties, ConcatProperties
<1>2. \A i \in (Len(log) + 1)..Len(all) : all[i] \in S
  BY <1>1, ElementOfSeq
<1> HIDE DEF all
<1>3. /\ rest \in Seq(S)
      /\ Len(rest) = Len(new)
      /\ \A i \in 1..Len(new) : rest[i] = all[Len(log) + i]
  <2>1. /\ rest \in Seq(S)
        /\ Len(rest) = IF Len(log) + 1 <= Len(all)
                       THEN Len(all) - (Len(log) + 1) + 1 ELSE 0
        /\ \A i \in 1..(Len(all) - (Len(log) + 1) + 1) :
             rest[i] = all[Len(log) + 1 + i - 1]
    BY <1>1, <1>2, SubSeqProperties
  <2>2. QED
    BY <1>1, <2>1
<1>4. \A i \in 1..Len(new) : rest[i] = new[i]
  BY <1>1, <1>3
<1>5. rest = new
  BY <1>1, <1>3, <1>4, SeqEqual
<1>6. QED
  BY <1>5 DEF AddNewEvents, all

\* Extending a log keeps what it holds.
LEMMA ConcatExtends ==
  ASSUME NEW S, NEW log \in Seq(S), NEW new \in Seq(S), new # <<>>
  PROVE  Extends(log \o new, log)
<1>1. /\ Len(log) \in Nat
      /\ Len(new) \in Nat \ {0}
      /\ log \o new \in Seq(S)
      /\ Len(log \o new) = Len(log) + Len(new)
  BY LenProperties, EmptySeq, ConcatProperties
<1>2. SubSeq(log \o new, 1, Len(log)) = log
  <2>1. CASE Len(log) = 0
    <3>1. log = <<>>
      BY <2>1, EmptySeq
    <3>2. SubSeq(log \o new, 1, Len(log)) = <<>>
      BY <2>1, SubSeqEmpty
    <3>3. QED
      BY <3>1, <3>2
  <2>2. CASE Len(log) # 0
    <3>1. SubSeq(log \o new, 1, Len(log)) = SubSeq(log, 1, Len(log))
      BY <1>1, <2>2, SubSeqOfConcat1
    <3>2. QED
      BY <3>1, SubSeqFull
  <2>3. QED
    BY <2>1, <2>2
<1>3. QED
  BY <1>1, <1>2 DEF Extends

\* A claim schedules the next attempt neither in the past nor further ahead than
\* the maximum.
LEMMA DelayType ==
  ASSUME NEW n \in Nat \ {0}, NEW t \in Nat
  PROVE  RemainingWait(BackoffDelay(n), t) \in 0 .. BackoffMax
<1>1. LesserOf(n, 9) \in 1..9
  BY DEF LesserOf
<1>2. Doubling[LesserOf(n, 9)] \in Nat
  BY <1>1 DEF Doubling
<1>3. BackoffDelay(n) \in 0 .. BackoffMax
  BY <1>2, ConfigAssumption DEF BackoffDelay, LesserOf
<1>4. QED
  BY <1>3, ConfigAssumption DEF RemainingWait

\* The plans of updates an execution chooses from.
LEMMA UpdatesForType ==
  ASSUME NEW result \in {"completed", "approval_required", "failed"}
  PROVE  /\ UpdatesFor(result, "Recovering") \in Seq(Update)
         /\ PlannedUpdates(UpdatesFor(result, "Recovering"))
<1>1. \A t \in EventType : <<t>> \in Seq(EventType)
  OBVIOUS
<1>2. \A t, u \in EventType : <<t, u>> \in Seq(EventType)
  OBVIOUS
<1>3. {"failed", "plan", "route", "specialist", "completed",
       "approval_required"} \subseteq EventType
  BY DEF EventType, Closing
<1>4. {"Failed", "Completed", "WaitingForApproval", "Recovering"} \subseteq Status
  BY DEF Status, Active, Outcome
<1> DEFINE U(types, status) == [types |-> types, status |-> status]
<1>5. /\ U(<<"failed">>, "Failed") \in Update
      /\ U(<<"plan">>, "Recovering") \in Update
      /\ U(<<"route">>, "Recovering") \in Update
      /\ U(<<"specialist", "completed">>, "Completed") \in Update
      /\ U(<<"specialist", "approval_required">>, "WaitingForApproval") \in Update
  BY <1>1, <1>2, <1>3, <1>4 DEF Update
<1> HIDE DEF U
<1> DEFINE Ready(u) == u.types # <<>> /\ u.status = "Recovering"
           Final(u) == u.types # <<>> /\ u.status \in Outcome
<1>6. /\ Ready(U(<<"plan">>, "Recovering"))
      /\ Ready(U(<<"route">>, "Recovering"))
      /\ Final(U(<<"specialist", "completed">>, "Completed"))
      /\ Final(U(<<"specialist", "approval_required">>, "WaitingForApproval"))
  BY DEF U, Outcome
<1>7. ASSUME NEW a \in Update, Ready(a),
             NEW b \in Update, Ready(b),
             NEW c \in Update, Final(c)
      PROVE  <<a, b, c>> \in Seq(Update) /\ PlannedUpdates(<<a, b, c>>)
  BY <1>7 DEF PlannedUpdates
<1>8. CASE result = "failed"
  <2>1. UpdatesFor(result, "Recovering") = <<U(<<"failed">>, "Failed")>>
    BY <1>8 DEF UpdatesFor, U
  <2>2. QED
    BY <1>5, <2>1 DEF PlannedUpdates, Outcome, U
<1>9. CASE result = "completed"
  <2>1. UpdatesFor(result, "Recovering") =
          <<U(<<"plan">>, "Recovering"), U(<<"route">>, "Recovering"),
            U(<<"specialist", "completed">>, "Completed")>>
    BY <1>9 DEF UpdatesFor, U
  <2>2. QED
    BY <1>5, <1>6, <1>7, <2>1
<1>10. CASE result = "approval_required"
  <2>1. UpdatesFor(result, "Recovering") =
          <<U(<<"plan">>, "Recovering"), U(<<"route">>, "Recovering"),
            U(<<"specialist", "approval_required">>, "WaitingForApproval")>>
    BY <1>10 DEF UpdatesFor, U
  <2>2. QED
    BY <1>5, <1>6, <1>7, <2>1
<1>11. QED
  BY <1>8, <1>9, <1>10

-------------------------------------------------------------------------------
(* Steps of one process that leave the tables alone.                       *)

\* A process that holds nothing relies on nothing.
LEMMA IdleIsFine ==
  /\ AbsentRow \in Row
  /\ Idle \in Job
  /\ \A p \in Jobs : JobInv(p, Idle)
<1>1. AbsentRow \in Row
  BY DEF AbsentRow, Row, Status, Active, Outcome
<1>2. Idle \in Job
  BY <1>1 DEF Idle, Job, PC, NoCandidates
<1>3. \A p \in Jobs : JobInv(p, Idle)
  BY DEF JobInv, Idle, NoCandidates, AbsentRow, Claimed, Executing, Updating
<1>4. QED
  BY <1>1, <1>2, <1>3

\* A process may change its own memory to anything that satisfies JobInv.
LEMMA LocalStep ==
  ASSUME IInv,
         NEW p \in Jobs, NEW j \in Job, JobInv(p, j),
         job' = [job EXCEPT ![p] = j],
         UNCHANGED <<row, age, wait>>
  PROVE  IInv'
<1>1. TypeOK'
  BY DEF IInv, TypeOK
<1>2. \A w \in Workflows : RowInv(row'[w])
  BY DEF IInv
<1>3. ASSUME NEW q \in Jobs
      PROVE  JobInv(q, job[q])'
  <2>1. job'[q] = IF q = p THEN j ELSE job[q]
    BY DEF IInv, TypeOK
  <2>2. JobInv(q, job'[q])
    BY <2>1 DEF IInv
  <2>3. QED
    BY <2>2 DEF JobInv, CandidateInv, ExactCopy, Unchanged
<1>4. QED
  BY <1>1, <1>2, <1>3 DEF IInv, RowInv

\* So it may drop everything: a job that returns, fails or crashes.
LEMMA DropStep ==
  ASSUME IInv, NEW p \in Jobs, Drop(p), UNCHANGED <<row, age, wait>>
  PROVE  IInv'
BY IdleIsFine, LocalStep DEF Drop

\* Reading a set of due rows as candidates.
LEMMA ClaimingIsFine ==
  ASSUME IInv, NEW p \in Jobs, NEW W \in SUBSET Workflows,
         \A w \in W : /\ row[w].status \in Active
                      /\ p \in Triggers => row[w].status = "Draft"
                      /\ p \in Workers => age[w] >= StaleAfter /\ wait[w] = 0
  PROVE  Claiming(W) \in Job /\ JobInv(p, Claiming(W))
<1> DEFINE c == [w \in Workflows |-> IF w \in W THEN row[w] ELSE AbsentRow]
<1>1. c \in [Workflows -> Row]
  BY IdleIsFine DEF IInv, TypeOK
<1>2. Claiming(W) = [Idle EXCEPT !.pc = "claim", !.cands = c]
  BY DEF Claiming
<1> HIDE DEF c
<1>3. Claiming(W) \in Job
  BY <1>1, <1>2, IdleIsFine DEF Job, PC
<1>4. Claiming(W).pc = "claim" /\ Claiming(W).cands = c
  BY <1>2 DEF Idle
<1>5. ASSUME NEW w \in Workflows, c[w].status # "Absent"
      PROVE  CandidateInv(p, w, c[w])
  <2>1. w \in W /\ c[w] = row[w]
    BY <1>5 DEF c, AbsentRow
  <2>2. row[w].version \in Nat
    BY DEF IInv, TypeOK, Row
  <2>3. QED
    BY <2>1, <2>2 DEF CandidateInv, ExactCopy
<1>6. QED
  BY <1>3, <1>4, <1>5 DEF JobInv, Claimed, Executing, Updating

LEMMA ScanForWorkStep ==
  ASSUME IInv, NEW p \in Workers, ScanForWork(p)
  PROVE  IInv'
<1> DEFINE W == {w \in Workflows : Due(w)}
<1>1. p \in Jobs /\ p \notin Triggers
  BY ProcessAssumption DEF Jobs
<1>2. Claiming(W) \in Job /\ JobInv(p, Claiming(W))
  BY <1>1, ClaimingIsFine DEF Due
<1>3. QED
  BY <1>1, <1>2, LocalStep DEF ScanForWork

LEMMA TriggerImmediateStep ==
  ASSUME IInv, NEW p \in Triggers, NEW w \in Workflows, TriggerImmediate(p, w)
  PROVE  IInv'
<1>1. p \in Jobs /\ p \notin Workers
  BY ProcessAssumption DEF Jobs
<1>2. row[w].status = "Draft" /\ "Draft" \in Active
  BY DEF TriggerImmediate, Active
<1>3. Claiming({w}) \in Job /\ JobInv(p, Claiming({w}))
  BY <1>1, <1>2, ClaimingIsFine
<1>4. QED
  BY <1>1, <1>3, LocalStep DEF TriggerImmediate

\* Giving up a candidate keeps the others.
LEMMA NextCandidateIsFine ==
  ASSUME IInv, NEW p \in Jobs, NEW w \in Workflows, IsCandidate(p, w)
  PROVE  \E j \in Job :
           /\ JobInv(p, j)
           /\ j.cands[w] = AbsentRow
           /\ j.pc \notin Claimed
           /\ NextCandidate(p, w) => job' = [job EXCEPT ![p] = j]
<1>1. CASE Candidates(p) = {w}
  <2>1. NextCandidate(p, w) => job' = [job EXCEPT ![p] = Idle]
    BY <1>1 DEF NextCandidate
  <2>2. QED
    BY <2>1, IdleIsFine DEF Idle, NoCandidates, Claimed
<1>2. CASE Candidates(p) # {w}
  <2> DEFINE c == [job[p].cands EXCEPT ![w] = AbsentRow]
             j == [job[p] EXCEPT !.cands = c]
  <2>1. NextCandidate(p, w) => job' = [job EXCEPT ![p] = j]
    BY <1>2 DEF NextCandidate, IInv, TypeOK, Job
  <2>2. job[p] \in Job /\ job[p].pc = "claim" /\ JobInv(p, job[p])
    BY DEF IsCandidate, IInv, TypeOK
  <2>3. c \in [Workflows -> Row]
    BY <2>2, IdleIsFine DEF Job
  <2>4. j \in Job /\ j.pc = "claim" /\ j.cands = c
    BY <2>2, <2>3 DEF Job
  <2>5. \A v \in Workflows : c[v] = IF v = w THEN AbsentRow ELSE job[p].cands[v]
    BY <2>2 DEF Job
  <2>6. JobInv(p, j)
    BY <2>2, <2>4, <2>5
       DEF JobInv, AbsentRow, Claimed, Executing, Updating
  <2>7. QED
    BY <2>1, <2>4, <2>5, <2>6 DEF Claimed
<1>3. QED
  BY <1>1, <1>2

LEMMA LoseCandidateStep ==
  ASSUME IInv, NEW p \in Jobs, NEW w \in Workflows, LoseCandidate(p, w)
  PROVE  IInv'
BY NextCandidateIsFine, LocalStep DEF LoseCandidate

LEMMA RecoverAsyncStep ==
  ASSUME IInv, NEW p \in Jobs, RecoverAsync(p)
  PROVE  IInv'
<1> DEFINE w == job[p].wf
           j == [job[p] EXCEPT !.pc = "agents", !.snap = row[w]]
<1>1. job[p] \in Job /\ job[p].pc = "recover" /\ JobInv(p, job[p])
  BY DEF IInv, TypeOK, RecoverAsync
<1>2. /\ w \in Workflows
      /\ row[w] \in Row
      /\ row[w].status \notin {"Absent", "Draft"}
  BY <1>1 DEF JobInv, Claimed, IInv, TypeOK
<1>3. CASE row[w].status \in Active
  <2>1. row[w].status = "Recovering"
    BY <1>2, <1>3 DEF Active
  <2>2. j \in Job
    BY <1>1, <1>2 DEF Job, PC
  <2>3. j.pc = "agents" /\ j.snap = row[w] /\ j.wf = w /\ j.cands = job[p].cands
    BY <1>1 DEF Job
  <2>4. ExactCopy(j.snap, w)
    BY <1>2, <2>3 DEF ExactCopy, Row
  <2>5. JobInv(p, j)
    BY <1>1, <1>2, <2>1, <2>3, <2>4 DEF JobInv, Claimed, Executing, Updating
  <2>6. job' = [job EXCEPT ![p] = j]
    BY <1>3 DEF RecoverAsync, IInv, TypeOK
  <2>7. QED
    BY <2>2, <2>5, <2>6, LocalStep DEF RecoverAsync
<1>4. CASE row[w].status \notin Active
  BY <1>4, DropStep DEF RecoverAsync
<1>5. QED
  BY <1>3, <1>4

\* Turning a result into updates, be it of the agents or of a cancellation.
LEMMA PersistStep ==
  ASSUME IInv, NEW p \in Jobs, job[p].pc = "agents",
         NEW result \in {"completed", "approval_required", "failed"},
         Persist(p, result), UNCHANGED <<row, age, wait>>
  PROVE  IInv'
<1> DEFINE todo == UpdatesFor(result, job[p].snap.status)
           j == [job[p] EXCEPT !.pc = "check", !.todo = todo, !.since = 0]
<1>1. job[p] \in Job /\ JobInv(p, job[p])
  BY DEF IInv, TypeOK
<1>2. job[p].snap.status = "Recovering"
  BY <1>1 DEF JobInv, Executing
<1>3. todo \in Seq(Update) /\ PlannedUpdates(todo)
  BY <1>2, UpdatesForType
<1>4. job' = [job EXCEPT ![p] = j]
  BY DEF Persist, IInv, TypeOK
<1> HIDE DEF todo
<1>5. j \in Job
  BY <1>1, <1>3 DEF Job, PC
<1>6. /\ j.pc = "check"
      /\ j.todo = todo
      /\ j.wf = job[p].wf
      /\ j.snap = job[p].snap
      /\ j.cands = job[p].cands
  BY <1>1 DEF Job
<1>7. JobInv(p, j)
  BY <1>1, <1>3, <1>6 DEF JobInv, Claimed, Executing, Updating
<1>8. QED
  BY <1>4, <1>5, <1>7, LocalStep

LEMMA CheckVersionStep ==
  ASSUME IInv, NEW p \in Jobs, CheckVersion(p)
  PROVE  IInv'
<1> DEFINE j == [job[p] EXCEPT !.pc = "count"]
<1>1. job[p] \in Job /\ job[p].pc = "check" /\ JobInv(p, job[p])
  BY DEF IInv, TypeOK, CheckVersion
<1>2. CASE row[job[p].wf].version = job[p].snap.version
  <2>1. j \in Job
    BY <1>1 DEF Job, PC
  <2>2. /\ j.pc = "count"
        /\ j.todo = job[p].todo
        /\ j.wf = job[p].wf
        /\ j.snap = job[p].snap
        /\ j.cands = job[p].cands
    BY <1>1 DEF Job
  <2>3. JobInv(p, j)
    BY <1>1, <2>2 DEF JobInv, Claimed, Executing, Updating
  <2>4. job' = [job EXCEPT ![p] = j]
    BY <1>2 DEF CheckVersion, IInv, TypeOK
  <2>5. QED
    BY <2>1, <2>3, <2>4, LocalStep DEF CheckVersion
<1>3. CASE row[job[p].wf].version # job[p].snap.version
  BY <1>3, DropStep DEF CheckVersion
<1>4. QED
  BY <1>2, <1>3

LEMMA CountEventsStep ==
  ASSUME IInv, NEW p \in Jobs, CountEvents(p)
  PROVE  IInv'
<1> DEFINE n == Len(row[job[p].wf].log)
           j == [job[p] EXCEPT !.pc = "commit", !.count = n]
<1>1. job[p] \in Job /\ job[p].pc = "count" /\ JobInv(p, job[p])
  BY DEF IInv, TypeOK, CountEvents
<1>2. job[p].wf \in Workflows
  BY <1>1 DEF JobInv, Claimed
<1>3. n \in Nat
  BY <1>2, LenProperties DEF IInv, TypeOK, Row
<1>4. job' = [job EXCEPT ![p] = j]
  BY DEF CountEvents, IInv, TypeOK
<1> HIDE DEF n
<1>5. j \in Job
  BY <1>1, <1>3 DEF Job, PC
<1>6. /\ j.pc = "commit"
      /\ j.count = n
      /\ j.todo = job[p].todo
      /\ j.wf = job[p].wf
      /\ j.snap = job[p].snap
      /\ j.cands = job[p].cands
  BY <1>1 DEF Job
<1>7. JobInv(p, j)
  BY <1>1, <1>6 DEF JobInv, Claimed, Executing, Updating, n
<1>8. QED
  BY <1>4, <1>5, <1>7, LocalStep DEF CountEvents

-------------------------------------------------------------------------------
(* Steps that write to the tables.                                         *)

\* A write of row w that raises its version, or creates it, disturbs nobody
\* else: all copies of it become stale, and none was taken of an absent row.
LEMMA OthersUndisturbed ==
  ASSUME IInv,
         NEW w \in Workflows, NEW r \in Row,
         row' = [row EXCEPT ![w] = r],
         \/ r.version > row[w].version
         \/ r.version >= row[w].version /\ row[w].status = "Absent",
         row[w].status # "Absent" => r.status \notin {"Absent", "Draft"},
         \A v \in Workflows \ {w} : age'[v] = age[v] /\ wait'[v] = wait[v],
         NEW q \in Jobs, NEW j \in Job, JobInv(q, j)
  PROVE  JobInv(q, j)'
<1>1. /\ row \in [Workflows -> Row]
      /\ \A v \in Workflows : row'[v] = IF v = w THEN r ELSE row[v]
      /\ \A v \in Workflows : row[v].version \in Nat
      /\ r.version \in Nat
  BY DEF IInv, TypeOK, Row
<1>2. ASSUME NEW v \in Workflows, NEW c \in Row, c.status # "Absent",
             ExactCopy(c, v)
      PROVE  /\ ExactCopy(c, v)'
             /\ v = w => row'[v].version # c.version
  <2>1. c.version \in Nat
    BY DEF Row
  <2>2. CASE v = w
    <3>1. c.version < r.version
      BY <1>1, <1>2, <2>1, <2>2 DEF ExactCopy
    <3>2. QED
      BY <1>1, <2>1, <2>2, <3>1 DEF ExactCopy
  <2>3. CASE v # w
    BY <1>1, <1>2, <2>3 DEF ExactCopy
  <2>4. QED
    BY <2>2, <2>3
<1>3. ASSUME NEW v \in Workflows, j.cands[v].status # "Absent"
      PROVE  CandidateInv(q, v, j.cands[v])'
  <2>1. j.cands[v] \in Row /\ CandidateInv(q, v, j.cands[v])
    BY <1>3 DEF JobInv, Job
  <2>2. /\ ExactCopy(j.cands[v], v)'
        /\ v = w => row'[v].version # j.cands[v].version
    BY <1>2, <1>3, <2>1 DEF CandidateInv
  <2>3. q \in Workers /\ Unchanged(v, j.cands[v])' =>
          age'[v] >= StaleAfter /\ wait'[v] = 0
    BY <1>1, <2>1, <2>2 DEF CandidateInv, Unchanged
  <2>4. QED
    BY <2>1, <2>2, <2>3 DEF CandidateInv
<1>4. ASSUME j.pc \in Claimed
      PROVE  j.wf \in Workflows /\ row'[j.wf].status \notin {"Absent", "Draft"}
  BY <1>1, <1>4 DEF JobInv
<1>5. ASSUME j.pc \in Executing
      PROVE  /\ j.snap.status = "Recovering"
             /\ ExactCopy(j.snap, j.wf)'
             /\ j.wf = w => row'[j.wf].version # j.snap.version
  <2>1. j.wf \in Workflows /\ j.snap \in Row
    BY <1>5 DEF JobInv, Job, Executing, Claimed
  <2>2. j.snap.status = "Recovering" /\ ExactCopy(j.snap, j.wf)
    BY <1>5 DEF JobInv
  <2>3. QED
    BY <1>2, <2>1, <2>2
<1>6. j.pc \in Updating => PlannedUpdates(j.todo)
  BY DEF JobInv
<1>7. ASSUME j.pc = "commit", row'[j.wf].version = j.snap.version
      PROVE  j.count = Len(row'[j.wf].log)
  <2>1. j.wf \in Workflows /\ j.wf # w
    BY <1>4, <1>5, <1>7 DEF Claimed, Executing
  <2>2. row'[j.wf] = row[j.wf]
    BY <1>1, <2>1
  <2>3. QED
    BY <1>7, <2>2 DEF JobInv
<1>8. QED
  BY <1>3, <1>4, <1>5, <1>6, <1>7 DEF JobInv, CandidateInv, ExactCopy, Unchanged

\* A write of row w by process p, whose memory becomes j.
LEMMA WriteStep ==
  ASSUME IInv,
         NEW p \in Jobs, NEW j \in Job, JobInv(p, j)',
         job' = [job EXCEPT ![p] = j],
         NEW w \in Workflows, NEW r \in Row, RowInv(r),
         row' = [row EXCEPT ![w] = r],
         r.version > row[w].version,
         r.status \notin {"Absent", "Draft"},
         age' \in [Workflows -> Nat], wait' \in [Workflows -> 0 .. BackoffMax],
         \A v \in Workflows \ {w} : age'[v] = age[v] /\ wait'[v] = wait[v]
  PROVE  IInv'
<1>1. TypeOK'
  BY DEF IInv, TypeOK
<1>2. \A v \in Workflows : RowInv(row[v])'
  <2>1. \A v \in Workflows : RowInv(row'[v])
    BY DEF IInv, TypeOK
  <2>2. QED
    BY <2>1 DEF RowInv
<1>3. ASSUME NEW q \in Jobs
      PROVE  JobInv(q, job[q])'
  <2>1. CASE q = p
    <3>1. job'[q] = j
      BY <2>1 DEF IInv, TypeOK
    <3>2. QED
      BY <2>1, <3>1 DEF JobInv, CandidateInv, ExactCopy, Unchanged
  <2>2. CASE q # p
    <3>1. job'[q] = job[q] /\ job[q] \in Job /\ JobInv(q, job[q])
      BY <2>2 DEF IInv, TypeOK
    <3>2. PICK m \in Job : m = job[q]
      BY <3>1
    <3>3. JobInv(q, m)'
      BY <3>1, <3>2, OthersUndisturbed
    <3>4. QED
      BY <3>1, <3>2, <3>3 DEF JobInv, CandidateInv, ExactCopy, Unchanged
  <2>3. QED
    BY <2>1, <2>2
<1>4. QED
  BY <1>1, <1>2, <1>3 DEF IInv

LEMMA StartStep ==
  ASSUME IInv, NEW w \in Workflows, Start(w)
  PROVE  IInv'
<1> DEFINE r == [row[w] EXCEPT !.status = "Draft",
                              !.log = By("caller", <<"started">>)]
<1>1. row \in [Workflows -> Row] /\ row[w] \in Row /\ row[w].status = "Absent"
  BY DEF IInv, TypeOK, Start
<1>2. By("caller", <<"started">>) \in Seq(Event)
  <2>1. <<"started">> \in Seq(EventType)
    BY DEF EventType
  <2>2. QED
    BY <2>1, ByType
<1>3. /\ r \in Row
      /\ r.status = "Draft"
      /\ r.version = row[w].version
      /\ r.attempts = row[w].attempts
  BY <1>1, <1>2 DEF Row, Status, Active
<1>4. row' = [row EXCEPT ![w] = r] /\ UNCHANGED <<age, wait, job>>
  BY <1>1 DEF Start
<1> HIDE DEF r
<1>5. TypeOK'
  BY <1>3, <1>4 DEF IInv, TypeOK
<1>6. \A v \in Workflows : RowInv(row[v])'
  BY <1>1, <1>3, <1>4 DEF IInv, RowInv
<1>7. ASSUME NEW q \in Jobs
      PROVE  JobInv(q, job[q])'
  <2>1. job[q] \in Job /\ JobInv(q, job[q])
    BY DEF IInv, TypeOK
  <2>2. PICK m \in Job : m = job[q]
    BY <2>1
  <2>3. PICK s \in Row : s = r
    BY <1>3
  <2>4. row[w].version \in Nat
    BY <1>1 DEF Row
  <2>5. /\ row' = [row EXCEPT ![w] = s]
        /\ s.version >= row[w].version
        /\ age' = age /\ wait' = wait
    BY <1>3, <1>4, <2>3, <2>4
  <2>6. JobInv(q, m)'
    <3>1. JobInv(q, m)
      BY <2>1, <2>2
    <3>2. \A v \in Workflows \ {w} : age'[v] = age[v] /\ wait'[v] = wait[v]
      BY <2>5
    <3>3. /\ \/ s.version > row[w].version
             \/ s.version >= row[w].version /\ row[w].status = "Absent"
          /\ row[w].status # "Absent" => s.status \notin {"Absent", "Draft"}
      BY <1>1, <2>5
    <3>4. QED
      BY <2>5, <3>1, <3>2, <3>3, OthersUndisturbed
  <2>7. QED
    BY <1>4, <2>2, <2>6 DEF JobInv, CandidateInv, ExactCopy, Unchanged
<1>8. QED
  BY <1>5, <1>6, <1>7 DEF IInv

\* The row that a claim or an abandonment replaces is the candidate itself.
LEMMA CandidateIsRow ==
  ASSUME IInv, NEW p \in Jobs, NEW w \in Workflows,
         IsCandidate(p, w), Unchanged(w, job[p].cands[w])
  PROVE  /\ job[p].cands[w] = row[w]
         /\ row[w].status \in Active
         /\ p \in Triggers => row[w].status = "Draft"
         /\ p \in Workers => age[w] >= StaleAfter /\ wait[w] = 0
BY DEF IInv, JobInv, CandidateInv, ExactCopy, Unchanged, IsCandidate, Candidates

LEMMA ClaimStep ==
  ASSUME IInv, NEW p \in Jobs, NEW w \in Workflows, Claim(p, w)
  PROVE  IInv'
<1> DEFINE r == ClaimedRow(p, w, row[w])
           j == [Idle EXCEPT !.pc = "recover", !.wf = w]
<1>1. /\ row \in [Workflows -> Row]
      /\ row[w] \in Row
      /\ RowInv(row[w])
      /\ job[p] \in Job
      /\ job[p].since \in Nat
      /\ age \in [Workflows -> Nat]
      /\ wait \in [Workflows -> 0 .. BackoffMax]
  BY DEF IInv, TypeOK, Job
<1>2. job[p].cands[w] = row[w]
  BY CandidateIsRow DEF Claim
<1>3. By(p, <<"recovery_claimed">>) \in Seq(Event)
  <2>1. <<"recovery_claimed">> \in Seq(EventType)
    BY DEF EventType
  <2>2. QED
    BY <2>1, ByType
<1>4. row[w].log \o By(p, <<"recovery_claimed">>) \in Seq(Event)
  BY <1>1, <1>3, ConcatProperties DEF Row
<1>5. /\ r \in Row
      /\ r.status = "Recovering"
      /\ r.version = row[w].version + 1
      /\ r.attempts = IF p \in Workers THEN row[w].attempts + 1
                      ELSE row[w].attempts
  BY <1>1, <1>4 DEF ClaimedRow, Row, Status, Active
<1>6. RowInv(r)
  <2>1. p \in Workers => row[w].attempts < MaxAttempts
    BY <1>1, <1>2, ConfigAssumption DEF Claim, Exhausted, Row
  <2>2. QED
    BY <1>1, <1>5, <2>1, ConfigAssumption DEF RowInv, Row
<1>7. row' = [row EXCEPT ![w] = r]
  BY <1>2 DEF Claim
<1>8. age' \in [Workflows -> Nat] /\ \A v \in Workflows \ {w} : age'[v] = age[v]
  BY <1>1, ConfigAssumption DEF Claim, LesserOf, AgeLimit
<1>9. /\ wait' \in [Workflows -> 0 .. BackoffMax]
      /\ \A v \in Workflows \ {w} : wait'[v] = wait[v]
  <2> DEFINE n == job[p].cands[w].attempts + 1
             d == RemainingWait(BackoffDelay(n), job[p].since)
  <2>1. n \in Nat \ {0}
    BY <1>1, <1>2 DEF Row
  <2>2. wait' = IF p \in Workers THEN [wait EXCEPT ![w] = d] ELSE wait
    BY DEF Claim
  <2> HIDE DEF n
  <2>3. d \in 0 .. BackoffMax
    BY <1>1, <2>1, DelayType
  <2> HIDE DEF d
  <2>4. QED
    BY <1>1, <2>2, <2>3
<1>10. j \in Job /\ JobInv(p, j)'
  <2>1. /\ j.pc = "recover"
        /\ j.wf = w
        /\ \A v \in Workflows : j.cands[v] = AbsentRow
    BY DEF Idle, NoCandidates
  <2>2. j \in Job
    BY IdleIsFine DEF Job, PC
  <2>3. row'[w].status = "Recovering"
    BY <1>1, <1>5, <1>7
  <2>4. QED
    BY <2>1, <2>2, <2>3 DEF JobInv, AbsentRow, Executing, Updating
<1>11. job' = [job EXCEPT ![p] = j]
  BY DEF Claim
<1> HIDE DEF r, j
<1>12. PICK s \in Row : s = r
  BY <1>5
<1>13. PICK m \in Job : m = j
  BY <1>10
<1>14. JobInv(p, m)'
  BY <1>10, <1>13 DEF JobInv, CandidateInv, ExactCopy, Unchanged, j, Idle
<1>15. s.version > row[w].version
  BY <1>1, <1>5, <1>12 DEF Row
<1>16. QED
  BY <1>5, <1>6, <1>7, <1>8, <1>9, <1>11, <1>12, <1>13, <1>14, <1>15, WriteStep

LEMMA AbandonStep ==
  ASSUME IInv, NEW p \in Jobs, NEW w \in Workflows, Abandon(p, w)
  PROVE  IInv'
<1> DEFINE log == row[w].log \o By(p, <<"abandoned">>)
           r == AbandonedRow(p, w, row[w])
<1>1. /\ row \in [Workflows -> Row]
      /\ row[w] \in Row
      /\ RowInv(row[w])
      /\ job[p] \in Job
      /\ job[p].since \in Nat
      /\ age \in [Workflows -> Nat]
      /\ wait \in [Workflows -> 0 .. BackoffMax]
  BY DEF IInv, TypeOK, Job
<1>2. job[p].cands[w] = row[w]
  BY CandidateIsRow DEF Abandon
<1>3. By(p, <<"abandoned">>) \in Seq(Event)
  <2>1. <<"abandoned">> \in Seq(EventType)
    BY DEF EventType, Closing
  <2>2. QED
    BY <2>1, ByType
<1>4. log \in Seq(Event)
  BY <1>1, <1>3, ConcatProperties DEF Row
<1>7. row' = [row EXCEPT ![w] = r]
  BY <1>2 DEF Abandon
<1> HIDE DEF log
<1>5. /\ r \in Row
      /\ r.status = "Failed"
      /\ r.version = row[w].version + 1
      /\ r.attempts = row[w].attempts
  BY <1>1, <1>4 DEF AbandonedRow, Row, Status, Outcome, log
<1>6. RowInv(r)
  BY <1>1, <1>5 DEF RowInv
<1>8. /\ age' \in [Workflows -> Nat]
      /\ wait' \in [Workflows -> 0 .. BackoffMax]
      /\ \A v \in Workflows \ {w} : age'[v] = age[v] /\ wait'[v] = wait[v]
  BY <1>1, ConfigAssumption DEF Abandon, LesserOf, AgeLimit
<1> HIDE DEF r
<1>9. PICK s \in Row : s = r
  BY <1>5
<1>10. s.version > row[w].version /\ s.status \notin {"Absent", "Draft"}
  BY <1>1, <1>5, <1>9 DEF Row
<1>11. PICK j \in Job : JobInv(p, j) /\ job' = [job EXCEPT ![p] = j]
  BY NextCandidateIsFine DEF Abandon
<1>12. row' = [row EXCEPT ![w] = s]
  BY <1>7, <1>9
<1>13. JobInv(p, j)'
  BY <1>8, <1>10, <1>11, <1>12, OthersUndisturbed
<1>14. QED
  BY <1>6, <1>8, <1>9, <1>10, <1>11, <1>12, <1>13, WriteStep

\* An update whose version matches stores exactly the state it was given.
LEMMA CommitStoresNextState ==
  ASSUME IInv, NEW p \in Jobs, job[p].pc = "commit", VersionMatches(p)
  PROVE  LET w == job[p].wf
             s == NextState(p)
             e == By(p, Head(job[p].todo).types)
         IN  /\ w \in Workflows
             /\ row[w] = job[p].snap
             /\ row[w].status = "Recovering"
             /\ e \in Seq(Event) \ {<<>>}
             /\ s \in Row
             /\ s.version = row[w].version + 1
             /\ s.attempts = row[w].attempts
             /\ s.status = job[p].todo[1].status
             /\ s.log = row[w].log \o e
             /\ [s EXCEPT !.log = AddNewEvents(row[w].log, s.log, job[p].count)] = s
<1> DEFINE w == job[p].wf
           next == Head(job[p].todo)
           e == By(p, next.types)
           s == NextState(p)
           log == row[w].log \o e
<1>1. /\ job[p] \in Job
      /\ w \in Workflows
      /\ row[w] \in Row
      /\ job[p].snap = row[w]
      /\ row[w].status = "Recovering"
      /\ job[p].count = Len(row[w].log)
      /\ job[p].todo \in Seq(Update)
      /\ job[p].todo # <<>>
      /\ PlannedUpdates(job[p].todo)
  BY DEF IInv, TypeOK, JobInv, Claimed, Executing, Updating, VersionMatches,
         ExactCopy, Job, PlannedUpdates
<1>2. next \in Update /\ next = job[p].todo[1]
  BY <1>1, HeadTailProperties
<1>3. e \in Seq(Event) \ {<<>>}
  <2>1. Len(job[p].todo) \in Nat \ {0}
    BY <1>1, EmptySeq
  <2>2. next.types # <<>>
    BY <1>1, <1>2, <2>1 DEF PlannedUpdates
  <2>3. QED
    BY <1>2, <2>2, ByType DEF Update
<1>4. row[w].log \in Seq(Event) /\ log \in Seq(Event)
  BY <1>1, <1>3, ConcatProperties DEF Row
<1>5. s = [status   |-> next.status,
           version  |-> row[w].version + 1,
           attempts |-> row[w].attempts,
           log      |-> log]
  BY <1>1 DEF NextState
<1> HIDE DEF next, e, log, s
<1>6. /\ s \in Row
      /\ s.version = row[w].version + 1
      /\ s.attempts = row[w].attempts
      /\ s.status = next.status
      /\ s.log = log
  BY <1>1, <1>2, <1>4, <1>5 DEF Row, Update
<1>7. AddNewEvents(row[w].log, s.log, job[p].count) = s.log
  <2>1. AddNewEvents(row[w].log, row[w].log \o e, Len(row[w].log)) = row[w].log \o e
    BY <1>3, <1>4, AddNewEventsExact DEF log
  <2>2. QED
    BY <1>1, <1>6, <2>1 DEF log
<1>8. [s EXCEPT !.log = AddNewEvents(row[w].log, s.log, job[p].count)] = s
  BY <1>6, <1>7 DEF Row
<1>9. QED
  BY <1>1, <1>2, <1>3, <1>6, <1>8 DEF e, next, log, s

LEMMA CommitUpdateStep ==
  ASSUME IInv, NEW p \in Jobs, CommitUpdate(p)
  PROVE  IInv'
<1>1. PICK w \in Workflows : w = job[p].wf
  BY CommitStoresNextState DEF CommitUpdate
<1>2. PICK s \in Row :
        /\ s = NextState(p)
        /\ s.version = row[w].version + 1
        /\ s.attempts = row[w].attempts
        /\ s.status = job[p].todo[1].status
        /\ row' = [row EXCEPT ![w] = s]
  BY <1>1, CommitStoresNextState DEF CommitUpdate
<1>3. /\ job[p] \in Job
      /\ JobInv(p, job[p])
      /\ row[w] \in Row
      /\ RowInv(row[w])
      /\ age \in [Workflows -> Nat]
      /\ job[p].since \in Nat
  BY DEF IInv, TypeOK, Job
<1>4. job[p].todo \in Seq(Update) /\ PlannedUpdates(job[p].todo)
  BY <1>3 DEF CommitUpdate, JobInv, Updating, Job
<1>5. Len(job[p].todo) \in Nat \ {0}
  BY <1>4, EmptySeq DEF PlannedUpdates
<1>6. /\ Len(job[p].todo) # 1 => s.status = "Recovering"
      /\ Len(job[p].todo) = 1 => s.status \in Outcome
  <2>1. 1 \in 1..Len(job[p].todo)
    BY <1>5
  <2>2. IF 1 = Len(job[p].todo) THEN job[p].todo[1].status \in Outcome
        ELSE job[p].todo[1].status = "Recovering"
    BY <1>4, <2>1 DEF PlannedUpdates
  <2>3. QED
    BY <1>2, <2>2
<1>7. s.status \notin {"Absent", "Draft"}
  BY <1>6 DEF Outcome
<1>8. s.version > row[w].version
  BY <1>2, <1>3 DEF Row
<1>9. RowInv(s)
  BY <1>2, <1>3, <1>7 DEF RowInv
<1>10. /\ age' \in [Workflows -> Nat]
       /\ wait' = wait
       /\ \A v \in Workflows \ {w} : age'[v] = age[v]
  BY <1>1, <1>3, ConfigAssumption DEF CommitUpdate, LesserOf, AgeLimit
<1>11. PICK m \in Job : m = job[p] /\ JobInv(p, m)
  BY <1>3
<1>12. JobInv(p, m)'
  <2>1. \A v \in Workflows \ {w} : age'[v] = age[v] /\ wait'[v] = wait[v]
    BY <1>10
  <2>2. QED
    BY <1>2, <1>7, <1>8, <1>11, <2>1, OthersUndisturbed
<1>13. PICK j \in Job : JobInv(p, j)' /\ job' = [job EXCEPT ![p] = j]
  <2>1. CASE Len(job[p].todo) = 1
    <3>1. job' = [job EXCEPT ![p] = Idle]
      BY <2>1 DEF CommitUpdate, IInv, TypeOK
    <3>2. JobInv(p, Idle)'
      BY DEF JobInv, Idle, NoCandidates, AbsentRow, Claimed, Executing, Updating
    <3>3. QED
      BY <3>1, <3>2, IdleIsFine
  <2>2. CASE Len(job[p].todo) # 1
    <3> DEFINE rest == Tail(m.todo)
               j == [m EXCEPT !.pc = "check", !.snap = s, !.todo = rest,
                              !.count = 0, !.since = 0]
    <3>1. job' = [job EXCEPT ![p] = j]
      <4>1. job'[p] = [job[p] EXCEPT !.pc = "check", !.snap = NextState(p),
                                     !.todo = Tail(job[p].todo),
                                     !.count = 0, !.since = 0]
        BY <2>2 DEF CommitUpdate, IInv, TypeOK
      <4>2. job'[p] = j
        BY <1>2, <1>11, <4>1
      <4>3. QED
        BY <4>2 DEF CommitUpdate, IInv, TypeOK
    <3>2. /\ rest \in Seq(Update)
          /\ Len(rest) = Len(m.todo) - 1
          /\ \A i \in 1..Len(rest) : rest[i] = m.todo[i + 1]
          /\ Len(m.todo) \in Nat \ {0, 1}
      BY <1>4, <1>5, <1>11, <2>2, HeadTailProperties, EmptySeq
    <3> HIDE DEF rest
    <3>3. PlannedUpdates(rest)
      <4>1. Len(rest) >= 1 /\ rest # <<>>
        <5>1. PICK n \in Nat \ {0, 1} : n = Len(m.todo)
          BY <3>2
        <5>2. Len(rest) = n - 1
          BY <3>2, <5>1
        <5>3. Len(rest) >= 1
          BY <5>2
        <5>4. QED
          BY <5>3, EmptySeq
      <4>2. ASSUME NEW i \in 1..Len(rest)
            PROVE  /\ rest[i].types # <<>>
                   /\ IF i = Len(rest) THEN rest[i].status \in Outcome
                      ELSE rest[i].status = "Recovering"
        <5>1. i + 1 \in 1..Len(m.todo)
          BY <3>2, <4>1
        <5>2. /\ m.todo[i + 1].types # <<>>
              /\ IF i + 1 = Len(m.todo) THEN m.todo[i + 1].status \in Outcome
                 ELSE m.todo[i + 1].status = "Recovering"
          BY <1>4, <1>11, <5>1 DEF PlannedUpdates
        <5>3. QED
          BY <3>2, <4>1, <5>2
      <4>3. QED
        BY <4>1, <4>2 DEF PlannedUpdates
    <3>4. j \in Job
      BY <3>2 DEF Job, PC
    <3>5. /\ j.pc = "check"
          /\ j.todo = rest
          /\ j.wf = w
          /\ j.snap = s
          /\ j.cands = m.cands
      BY <1>1, <1>11 DEF Job
    <3>6. row'[w] = s
      BY <1>2 DEF IInv, TypeOK
    <3>7. ExactCopy(s, w)'
      BY <3>6 DEF ExactCopy, Row
    <3>8. s.status = "Recovering"
      BY <1>6, <2>2
    <3> HIDE DEF j
    <3>9. PICK k \in Job : k = j
      BY <3>4
    <3>10. JobInv(p, k)'
      BY <1>7, <1>12, <3>3, <3>5, <3>6, <3>7, <3>8, <3>9
         DEF JobInv, Claimed, Executing, Updating
    <3>11. QED
      BY <3>1, <3>9, <3>10
  <2>3. QED
    BY <2>1, <2>2
<1>14. wait' \in [Workflows -> 0 .. BackoffMax]
  BY <1>10 DEF IInv, TypeOK
<1>15. QED
  BY <1>2, <1>7, <1>8, <1>9, <1>10, <1>13, <1>14, WriteStep

\* Time passes: ripe candidates stay ripe.
LEMMA TickStep ==
  ASSUME IInv, Tick
  PROVE  IInv'
<1>1. /\ row' = row
      /\ age \in [Workflows -> Nat]
      /\ wait \in [Workflows -> 0 .. BackoffMax]
      /\ job \in [Jobs -> Job]
  BY DEF IInv, TypeOK, Tick
<1>2. /\ AgeLimit \in Nat
      /\ SinceLimit \in Nat
      /\ AgeLimit >= StaleAfter
  BY ConfigAssumption DEF AgeLimit, SinceLimit, GreaterOf
<1>3. \A w \in Workflows :
        /\ age'[w] \in Nat
        /\ age[w] >= StaleAfter => age'[w] >= StaleAfter
        /\ wait'[w] \in 0 .. BackoffMax
        /\ wait[w] = 0 => wait'[w] = 0
  BY <1>1, <1>2, ConfigAssumption DEF Tick, LesserOf
<1>4. age' \in [Workflows -> Nat] /\ wait' \in [Workflows -> 0 .. BackoffMax]
  BY <1>3 DEF Tick
<1>5. ASSUME NEW p \in Jobs
      PROVE  \E n \in Nat : job'[p] = [job[p] EXCEPT !.since = n]
  <2>1. CASE HoldsTimestamp(p)
    <3>1. LesserOf(job[p].since + 1, SinceLimit) \in Nat
      BY <1>1, <1>2 DEF Job, LesserOf
    <3>2. job'[p] = [job[p] EXCEPT !.since = LesserOf(job[p].since + 1, SinceLimit)]
      BY <2>1 DEF Tick
    <3>3. QED
      BY <3>1, <3>2
  <2>2. CASE ~HoldsTimestamp(p)
    <3>1. job'[p] = job[p]
      BY <2>2 DEF Tick
    <3>2. job[p].since \in Nat /\ job[p] = [job[p] EXCEPT !.since = job[p].since]
      BY <1>1 DEF Job
    <3>3. QED
      BY <3>1, <3>2
  <2>3. QED
    BY <2>1, <2>2
<1>6. ASSUME NEW p \in Jobs
      PROVE  /\ job'[p] \in Job
             /\ job'[p].pc = job[p].pc
             /\ job'[p].wf = job[p].wf
             /\ job'[p].cands = job[p].cands
             /\ job'[p].snap = job[p].snap
             /\ job'[p].todo = job[p].todo
             /\ job'[p].count = job[p].count
  <2>1. PICK n \in Nat : job'[p] = [job[p] EXCEPT !.since = n]
    BY <1>5
  <2>2. PICK m \in Job : m = job[p]
    BY <1>1
  <2>3. QED
    BY <2>1, <2>2 DEF Job
<1>7. job' \in [Jobs -> Job]
  BY <1>6 DEF Tick
<1>8. ASSUME NEW p \in Jobs
      PROVE  JobInv(p, job[p])'
  <2>1. PICK m \in Job : m = job[p] /\ JobInv(p, m)
    BY <1>1 DEF IInv
  <2>2. ASSUME NEW w \in Workflows, m.cands[w].status # "Absent"
        PROVE  CandidateInv(p, w, m.cands[w])'
    <3>1. CandidateInv(p, w, m.cands[w])
      BY <2>1, <2>2 DEF JobInv
    <3>2. QED
      BY <1>1, <1>3, <3>1 DEF CandidateInv, ExactCopy, Unchanged
  <2>3. JobInv(p, m)'
    BY <1>1, <2>1, <2>2 DEF JobInv, ExactCopy
  <2>4. QED
    BY <1>6, <2>1, <2>3 DEF JobInv, CandidateInv, ExactCopy, Unchanged
<1>9. QED
  BY <1>1, <1>4, <1>7, <1>8 DEF IInv, TypeOK, RowInv

-------------------------------------------------------------------------------
(* The invariant and what follows from it.                                 *)

LEMMA InitInv == Init => IInv
<1> SUFFICES ASSUME Init PROVE IInv
  OBVIOUS
<1>1. TypeOK
  BY IdleIsFine, ConfigAssumption DEF Init, TypeOK
<1>2. \A w \in Workflows : RowInv(row[w])
  BY ConfigAssumption DEF Init, RowInv, AbsentRow
<1>3. \A p \in Jobs : JobInv(p, job[p])
  BY IdleIsFine DEF Init
<1>4. QED
  BY <1>1, <1>2, <1>3 DEF IInv

LEMMA StutterStep == IInv /\ UNCHANGED vars => IInv'
BY DEF IInv, TypeOK, RowInv, JobInv, CandidateInv, ExactCopy, Unchanged, vars

LEMMA NextInv == IInv /\ [Next]_vars => IInv'
<1> SUFFICES ASSUME IInv, [Next]_vars PROVE IInv'
  OBVIOUS
<1>1. ASSUME NEW w \in Workflows, Start(w) PROVE IInv'
  BY <1>1, StartStep
<1>2. ASSUME NEW p \in Workers, ScanForWork(p) PROVE IInv'
  BY <1>2, ScanForWorkStep
<1>3. ASSUME NEW p \in Triggers, NEW w \in Workflows, TriggerImmediate(p, w)
      PROVE  IInv'
  BY <1>3, TriggerImmediateStep
<1>4. ASSUME NEW p \in Jobs, TryCandidate(p) PROVE IInv'
  BY <1>4, ClaimStep, AbandonStep, LoseCandidateStep DEF TryCandidate
<1>5. ASSUME NEW p \in Jobs, RunAgents(p) PROVE IInv'
  BY <1>5, PersistStep DEF RunAgents
<1>6. ASSUME NEW p \in Jobs, CommitStale(p) PROVE IInv'
  BY <1>6, DropStep DEF CommitStale
<1>7. ASSUME NEW p \in Jobs, Execute(p) PROVE IInv'
  BY <1>5, <1>6, <1>7, RecoverAsyncStep, CheckVersionStep, CountEventsStep,
     CommitUpdateStep DEF Execute
<1>8. ASSUME NEW p \in Workers, CancelRun(p) PROVE IInv'
  <2>1. p \in Jobs
    BY DEF Jobs
  <2>2. QED
    BY <1>8, <2>1, PersistStep DEF CancelRun
<1>9. ASSUME NEW p \in Jobs, Crash(p) PROVE IInv'
  BY <1>9, DropStep DEF Crash
<1>10. QED
  BY <1>1, <1>2, <1>3, <1>4, <1>7, <1>8, <1>9, TickStep, StutterStep DEF Next

THEOREM InductiveInvariant == Spec => []IInv
BY InitInv, NextInv, PTL DEF Spec

\* Every variable keeps its type: counters never become negative, a process
\* that works always works on a workflow.
THEOREM TypeCorrect == Spec => []TypeOK
<1>1. IInv => TypeOK
  BY DEF IInv
<1>2. QED
  BY <1>1, InductiveInvariant, PTL

\* The fence every writer relies on holds, however many processes compete and
\* however long each of them sleeps between two statements.
THEOREM FenceHolds == Spec => []Fence
<1>1. IInv => Fence
  BY DEF IInv, JobInv, CandidateInv, Fence, Candidates, InExecution, Executing,
         VersionMatches
<1>2. QED
  BY <1>1, InductiveInvariant, PTL

-------------------------------------------------------------------------------
(* What a step may do to a row.                                            *)

\* Four actions write to a row, and only to the one they are about.
LEMMA Writers ==
  ASSUME IInv, [Next]_vars, NEW w \in Workflows, row'[w] # row[w]
  PROVE  \/ Start(w)
         \/ \E p \in Jobs : Claim(p, w)
         \/ \E p \in Jobs : Abandon(p, w)
         \/ \E p \in Jobs : CommitUpdate(p) /\ job[p].wf = w
<1>1. row \in [Workflows -> Row]
  BY DEF IInv, TypeOK
<1>2. CASE UNCHANGED row
  BY <1>2
<1>3. ASSUME NEW v \in Workflows, Start(v) PROVE Start(w)
  BY <1>1, <1>3 DEF Start
<1>4. ASSUME NEW p \in Jobs, NEW v \in Workflows, Claim(p, v) PROVE Claim(p, w)
  BY <1>1, <1>4 DEF Claim
<1>5. ASSUME NEW p \in Jobs, NEW v \in Workflows, Abandon(p, v)
      PROVE  Abandon(p, w)
  BY <1>1, <1>5 DEF Abandon
<1>6. ASSUME NEW p \in Jobs, CommitUpdate(p) PROVE job[p].wf = w
  <2>1. row' = [row EXCEPT ![job[p].wf] = row'[job[p].wf]]
    <3>1. job[p].wf \in Workflows
      BY <1>6, CommitStoresNextState DEF CommitUpdate
    <3>2. QED
      BY <1>1, <1>6, <3>1 DEF CommitUpdate
  <2>2. QED
    BY <1>1, <2>1
<1>7. CASE \E p \in Jobs : TryCandidate(p)
  BY <1>2, <1>4, <1>5, <1>7 DEF TryCandidate, LoseCandidate
<1>8. CASE \E p \in Jobs : Execute(p)
  BY <1>2, <1>6, <1>8
     DEF Execute, RecoverAsync, RunAgents, CheckVersion, CountEvents, CommitStale
<1>9. QED
  BY <1>2, <1>3, <1>7, <1>8
     DEF Next, vars, ScanForWork, TriggerImmediate, CancelRun, Crash, Tick

\* What a claim leaves, in terms of the row it finds.
LEMMA ClaimEffect ==
  ASSUME IInv, NEW p \in Jobs, NEW w \in Workflows, Claim(p, w)
  PROVE  /\ row' = [row EXCEPT ![w] = ClaimedRow(p, w, row[w])]
         /\ row[w].status \in Active
         /\ p \in Triggers => row[w].status = "Draft"
         /\ p \in Workers => /\ row[w].attempts < MaxAttempts
                             /\ age[w] >= StaleAfter
                             /\ wait[w] = 0
<1>1. /\ job[p].cands[w] = row[w]
      /\ row[w].status \in Active
      /\ p \in Triggers => row[w].status = "Draft"
      /\ p \in Workers => age[w] >= StaleAfter /\ wait[w] = 0
  BY CandidateIsRow DEF Claim
<1>2. row[w].attempts \in Nat
  BY DEF IInv, TypeOK, Row
<1>3. p \in Workers => row[w].attempts < MaxAttempts
  BY <1>1, <1>2, ConfigAssumption DEF Claim, Exhausted
<1>4. row' = [row EXCEPT ![w] = ClaimedRow(p, w, row[w])]
  BY <1>1 DEF Claim
<1>5. QED
  BY <1>1, <1>3, <1>4

\* What an abandonment leaves: it only ever hits a workflow that is Recovering.
LEMMA AbandonEffect ==
  ASSUME IInv, NEW p \in Jobs, NEW w \in Workflows, Abandon(p, w)
  PROVE  /\ row' = [row EXCEPT ![w] = AbandonedRow(p, w, row[w])]
         /\ row[w].status = "Recovering"
<1>1. job[p].cands[w] = row[w] /\ row[w].status \in Active
  BY CandidateIsRow DEF Abandon
<1>2. row[w].attempts \in Nat /\ RowInv(row[w])
  BY DEF IInv, TypeOK, Row
<1>3. row[w].attempts # 0
  BY <1>1, <1>2, ConfigAssumption DEF Abandon, Exhausted
<1>4. row[w].status = "Recovering"
  BY <1>1, <1>2, <1>3 DEF RowInv, Active
<1>5. row' = [row EXCEPT ![w] = AbandonedRow(p, w, row[w])]
  BY <1>1 DEF Abandon
<1>6. QED
  BY <1>4, <1>5

\* What a committed update leaves.
LEMMA CommitEffect ==
  ASSUME IInv, NEW p \in Jobs, NEW w \in Workflows,
         CommitUpdate(p), job[p].wf = w
  PROVE  /\ row' = [row EXCEPT ![w] = NextState(p)]
         /\ row[w].status = "Recovering"
         /\ row'[w].status \in {"Recovering"} \cup Outcome
         /\ row'[w].attempts = row[w].attempts
         /\ row'[w].version = row[w].version + 1
         /\ \E e \in Seq(Event) : e # <<>> /\ row'[w].log = row[w].log \o e
<1>1. job[p].pc = "commit" /\ VersionMatches(p)
  BY DEF CommitUpdate
<1> DEFINE s == NextState(p)
           e == By(p, Head(job[p].todo).types)
<1>2. /\ row[w].status = "Recovering"
      /\ e \in Seq(Event) \ {<<>>}
      /\ s.version = row[w].version + 1
      /\ s.attempts = row[w].attempts
      /\ s.status = job[p].todo[1].status
      /\ s.log = row[w].log \o e
      /\ [s EXCEPT !.log = AddNewEvents(row[w].log, s.log, job[p].count)] = s
  BY <1>1, CommitStoresNextState
<1>3. row' = [row EXCEPT ![w] = s]
  BY <1>2 DEF CommitUpdate
<1>4. row'[w] = s
  BY <1>3 DEF IInv, TypeOK
<1>5. s.status \in {"Recovering"} \cup Outcome
  <2>1. job[p].todo \in Seq(Update) /\ PlannedUpdates(job[p].todo)
    BY <1>1 DEF IInv, TypeOK, Job, JobInv, Updating
  <2>2. 1 \in 1..Len(job[p].todo)
    BY <2>1, EmptySeq DEF PlannedUpdates
  <2>3. job[p].todo[1].status \in {"Recovering"} \cup Outcome
    BY <2>1, <2>2 DEF PlannedUpdates
  <2>4. QED
    BY <1>2, <2>3
<1>6. QED
  BY <1>2, <1>3, <1>4, <1>5

\* Whoever changes a row moves its version on by one and appends to its log.
THEOREM AppendOnlyHistory == Spec => HistoryIsAppendOnly
<1>1. ASSUME IInv, [Next]_vars, NEW w \in Workflows
      PROVE  AppendsOnly(w)
  <2> SUFFICES ASSUME row'[w] # row[w], row[w].status # "Absent"
               PROVE  /\ row'[w].version = row[w].version + 1
                      /\ Extends(row'[w].log, row[w].log)
    BY DEF AppendsOnly
  <2>1. row \in [Workflows -> Row] /\ row[w].log \in Seq(Event)
    BY <1>1 DEF IInv, TypeOK, Row
  <2>2. ASSUME NEW p \in Jobs, NEW type \in EventType
        PROVE  By(p, <<type>>) \in Seq(Event) /\ By(p, <<type>>) # <<>>
    <3>1. <<type>> \in Seq(EventType) /\ <<type>> # <<>>
      OBVIOUS
    <3>2. QED
      BY <3>1, ByType
  <2>3. ASSUME NEW p \in Jobs, Claim(p, w)
        PROVE  /\ row'[w].version = row[w].version + 1
               /\ Extends(row'[w].log, row[w].log)
    <3>1. row'[w] = ClaimedRow(p, w, row[w])
      BY <1>1, <2>1, <2>3, ClaimEffect
    <3>2. Extends(row[w].log \o By(p, <<"recovery_claimed">>), row[w].log)
      BY <2>1, <2>2, ConcatExtends DEF EventType
    <3>3. QED
      BY <3>1, <3>2 DEF ClaimedRow
  <2>4. ASSUME NEW p \in Jobs, Abandon(p, w)
        PROVE  /\ row'[w].version = row[w].version + 1
               /\ Extends(row'[w].log, row[w].log)
    <3>1. row'[w] = AbandonedRow(p, w, row[w])
      BY <1>1, <2>1, <2>4, AbandonEffect
    <3>2. Extends(row[w].log \o By(p, <<"abandoned">>), row[w].log)
      BY <2>1, <2>2, ConcatExtends DEF EventType, Closing
    <3>3. QED
      BY <3>1, <3>2 DEF AbandonedRow
  <2>5. ASSUME NEW p \in Jobs, CommitUpdate(p), job[p].wf = w
        PROVE  /\ row'[w].version = row[w].version + 1
               /\ Extends(row'[w].log, row[w].log)
    <3>1. PICK e \in Seq(Event) : /\ e # <<>>
                                  /\ row'[w].log = row[w].log \o e
      BY <1>1, <2>5, CommitEffect
    <3>2. Extends(row[w].log \o e, row[w].log)
      BY <2>1, <3>1, ConcatExtends
    <3>3. row'[w].version = row[w].version + 1
      BY <1>1, <2>5, CommitEffect
    <3>4. QED
      BY <3>1, <3>2, <3>3
  <2>6. ~Start(w)
    BY DEF Start
  <2>7. QED
    BY <1>1, <2>3, <2>4, <2>5, <2>6, Writers
<1>2. IInv /\ [Next]_vars => [\A w \in Workflows : AppendsOnly(w)]_vars
  BY <1>1
<1>3. QED
  BY <1>2, InductiveInvariant, PTL DEF Spec, HistoryIsAppendOnly

\* No writer changes a workflow that has reached its outcome.
THEOREM FinalOutcome == Spec => OutcomeIsFinal
<1>1. ASSUME IInv, [Next]_vars, NEW w \in Workflows
      PROVE  KeepsOutcome(w)
  <2>1. Start(w) => row[w].status = "Absent"
    BY DEF Start
  <2>2. row'[w] # row[w] => row[w].status \in {"Absent"} \cup Active
    BY <1>1, <2>1, Writers, ClaimEffect, AbandonEffect, CommitEffect DEF Active
  <2>3. QED
    BY <2>2 DEF KeepsOutcome, Active, Outcome
<1>2. IInv /\ [Next]_vars => [\A w \in Workflows : KeepsOutcome(w)]_vars
  BY <1>1
<1>3. QED
  BY <1>2, InductiveInvariant, PTL DEF Spec, OutcomeIsFinal

\* A worker takes over only what has been left alone for long enough.
THEOREM RipeReclaim == Spec => NoEarlyReclaim
<1>1. ASSUME IInv, [Next]_vars, NEW w \in Workflows
      PROVE  ReclaimsWhenRipe(w)
  <2> SUFFICES ASSUME row'[w].attempts # row[w].attempts
               PROVE  age[w] >= StaleAfter /\ wait[w] = 0
    BY DEF ReclaimsWhenRipe
  <2>1. row \in [Workflows -> Row]
    BY <1>1 DEF IInv, TypeOK
  <2>2. ~Start(w)
    BY <2>1 DEF Start, Row
  <2>3. ~\E p \in Jobs : CommitUpdate(p) /\ job[p].wf = w
    BY <1>1, CommitEffect
  <2>4. ~\E p \in Jobs : Abandon(p, w)
    BY <1>1, <2>1, AbandonEffect DEF AbandonedRow
  <2>5. PICK p \in Jobs : Claim(p, w)
    BY <1>1, <2>2, <2>3, <2>4, Writers
  <2>6. row'[w] = ClaimedRow(p, w, row[w])
    BY <1>1, <2>1, <2>5, ClaimEffect
  <2>7. p \in Workers
    BY <2>6 DEF ClaimedRow
  <2>8. QED
    BY <1>1, <2>5, <2>7, ClaimEffect
<1>2. IInv /\ [Next]_vars => [\A w \in Workflows : ReclaimsWhenRipe(w)]_vars
  BY <1>1
<1>3. QED
  BY <1>2, InductiveInvariant, PTL DEF Spec, NoEarlyReclaim
\* Seen from outside, every step is one step of WorkflowLifecycle or none: a
\* trigger's claim is the pickup of a Draft, a worker's a counted recovery, and
\* an abandonment or a closing update the one way to an outcome.
THEOREM LifecycleRefined == Spec => ImplementsLifecycle
<1> DEFINE status   == [w \in Workflows |-> row[w].status]
           attempts == [w \in Workflows |-> row[w].attempts]
           decision == [w \in Workflows |-> "none"]
<1>1. Init => Lifecycle!Init
  BY DEF Init, AbsentRow, Lifecycle!Init
<1>2. ASSUME IInv, [Next]_vars
      PROVE  [Lifecycle!Next]_(Lifecycle!vars)
  <2>1. row \in [Workflows -> Row]
    BY <1>2 DEF IInv, TypeOK
  <2>2. decision' = decision
    OBVIOUS
  <2> HIDE DEF status, attempts, decision
  <2>3. CASE row' = row
    BY <2>3 DEF Lifecycle!vars, status, attempts, decision
  <2>4. ASSUME NEW w \in Workflows, row'[w] # row[w], Start(w)
        PROVE  Lifecycle!Next
    <3>1. PICK r : r = [row[w] EXCEPT !.status = "Draft",
                                      !.log = By("caller", <<"started">>)]
      OBVIOUS
    <3>2. row' = [row EXCEPT ![w] = r] /\ row[w].status = "Absent"
      BY <2>1, <2>4, <3>1 DEF Start
    <3>3. r.status = "Draft" /\ r.attempts = row[w].attempts
      BY <2>1, <3>1 DEF Row
    <3>4. /\ status[w] = "Absent"
          /\ status' = [status EXCEPT ![w] = "Draft"]
          /\ attempts' = attempts
      <4>1. \A v \in Workflows :
             /\ row'[v].status = IF v = w THEN "Draft" ELSE row[v].status
             /\ row'[v].attempts = row[v].attempts
        BY <2>1, <3>2, <3>3
      <4>2. status' = [status EXCEPT ![w] = "Draft"]
        BY <4>1 DEF status
      <4>3. attempts' = attempts
        BY <4>1 DEF attempts
      <4>4. QED
        BY <3>2, <4>2, <4>3 DEF status, attempts
    <3>5. Lifecycle!Submit(w)
      BY <2>2, <3>4
      DEF Lifecycle!Submit, status, attempts, decision
    <3>6. QED
      BY <3>5 DEF Lifecycle!Next
  <2>5. ASSUME NEW w \in Workflows, NEW p \in Jobs, Claim(p, w)
        PROVE  Lifecycle!Next
    <3>1. PICK r : r = ClaimedRow(p, w, row[w])
      OBVIOUS
    <3>2. /\ row' = [row EXCEPT ![w] = r]
          /\ row[w].status \in {"Draft", "Recovering"}
          /\ p \in Triggers => row[w].status = "Draft"
          /\ p \in Workers => row[w].attempts < MaxAttempts
      BY <1>2, <2>5, <3>1, ClaimEffect DEF Active
    <3>3. CASE p \in Workers
      <4>1. r.status = "Recovering" /\ r.attempts = row[w].attempts + 1
        BY <3>1, <3>3 DEF ClaimedRow
      <4>2. /\ status[w] \in {"Draft", "Recovering"}
            /\ attempts[w] < MaxAttempts
            /\ status' = [status EXCEPT ![w] = "Recovering"]
            /\ attempts' = [attempts EXCEPT ![w] = attempts[w] + 1]
        <5>1. \A v \in Workflows :
               /\ row'[v].status = IF v = w THEN "Recovering" ELSE row[v].status
               /\ row'[v].attempts = IF v = w THEN row[w].attempts + 1 ELSE row[v].attempts
          BY <2>1, <3>2, <3>3, <4>1
        <5>2. status' = [status EXCEPT ![w] = "Recovering"]
          BY <5>1 DEF status
        <5>3. attempts' = [attempts EXCEPT ![w] = attempts[w] + 1]
          BY <5>1 DEF attempts
        <5>4. QED
          BY <3>2, <3>3, <5>2, <5>3 DEF status, attempts
      <4>3. Lifecycle!Recover(w)
        BY <2>2, <4>2 DEF Lifecycle!Recover, status, attempts, decision
      <4>4. QED
        BY <4>3 DEF Lifecycle!Next
    <3>4. CASE p \notin Workers
      <4>1. r.status = "Recovering" /\ r.attempts = row[w].attempts
        BY <3>1, <3>4 DEF ClaimedRow
      <4>2. /\ status[w] = "Draft"
            /\ status' = [status EXCEPT ![w] = "Recovering"]
            /\ attempts' = attempts
        <5>1. \A v \in Workflows :
               /\ row'[v].status = IF v = w THEN "Recovering" ELSE row[v].status
               /\ row'[v].attempts = row[v].attempts
          BY <2>1, <3>2, <3>4, <4>1
        <5>2. status' = [status EXCEPT ![w] = "Recovering"]
          BY <5>1 DEF status
        <5>3. attempts' = attempts
          BY <5>1 DEF attempts
        <5>4. QED
          BY <3>2, <3>4, <5>2, <5>3 DEF status, attempts, Jobs
      <4>3. Lifecycle!PickUp(w)
        BY <2>2, <4>2 DEF Lifecycle!PickUp, status, attempts, decision
      <4>4. QED
        BY <4>3 DEF Lifecycle!Next
    <3>5. QED
      BY <3>3, <3>4
  <2>6. ASSUME NEW w \in Workflows, NEW p \in Jobs, Abandon(p, w)
        PROVE  Lifecycle!Next
    <3>1. PICK r : r = AbandonedRow(p, w, row[w])
      OBVIOUS
    <3>2. row' = [row EXCEPT ![w] = r] /\ row[w].status = "Recovering"
      BY <1>2, <2>6, <3>1, AbandonEffect
    <3>3. r.status = "Failed" /\ r.attempts = row[w].attempts
      BY <3>1 DEF AbandonedRow
    <3>4. /\ status[w] = "Recovering"
          /\ status' = [status EXCEPT ![w] = "Failed"]
          /\ attempts' = attempts
      <4>1. \A v \in Workflows :
             /\ row'[v].status = IF v = w THEN "Failed" ELSE row[v].status
             /\ row'[v].attempts = row[v].attempts
        BY <2>1, <3>2, <3>3
      <4>2. status' = [status EXCEPT ![w] = "Failed"]
        BY <4>1 DEF status
      <4>3. attempts' = attempts
        BY <4>1 DEF attempts
      <4>4. QED
        BY <3>2, <4>2, <4>3 DEF status, attempts
    <3>5. Lifecycle!Finish(w)
      BY <2>2, <3>4
      DEF Lifecycle!Finish, Lifecycle!Outcome, status, attempts, decision
    <3>6. QED
      BY <3>5 DEF Lifecycle!Next
  <2>7. ASSUME NEW w \in Workflows, NEW p \in Jobs,
               CommitUpdate(p), job[p].wf = w
        PROVE  Lifecycle!Next \/ UNCHANGED Lifecycle!vars
    <3>1. PICK r : r = NextState(p)
      OBVIOUS
    <3>2. /\ row' = [row EXCEPT ![w] = r]
          /\ row[w].status = "Recovering"
          /\ row'[w].status \in {"Recovering"} \cup Outcome
          /\ row'[w].attempts = row[w].attempts
      BY <1>2, <2>7, <3>1, CommitEffect
    <3>3. row'[w] = r
      BY <2>1, <3>2
    <3>4. /\ r.status \in {"Recovering"} \cup Outcome
          /\ r.attempts = row[w].attempts
      BY <3>2, <3>3
    <3>5. CASE r.status = "Recovering"
      <4>1. status' = status /\ attempts' = attempts
        <5>1. \A v \in Workflows : /\ row'[v].status = row[v].status
                                    /\ row'[v].attempts = row[v].attempts
          BY <2>1, <3>2, <3>3, <3>4, <3>5
        <5>2. QED
          BY <5>1 DEF status, attempts
      <4>2. QED
        BY <2>2, <4>1 DEF Lifecycle!vars, status, attempts, decision
    <3>6. CASE r.status \in Outcome
      <4>1. /\ status[w] = "Recovering"
            /\ status' = [status EXCEPT ![w] = r.status]
            /\ attempts' = attempts
        <5>1. \A v \in Workflows :
               /\ row'[v].status = IF v = w THEN r.status ELSE row[v].status
               /\ row'[v].attempts = row[v].attempts
          BY <2>1, <3>2, <3>4
        <5>2. status' = [status EXCEPT ![w] = r.status]
          BY <5>1 DEF status
        <5>3. attempts' = attempts
          BY <5>1 DEF attempts
        <5>4. QED
          BY <3>2, <3>4, <5>2, <5>3 DEF status, attempts
      <4>2. Lifecycle!Finish(w)
        BY <2>2, <3>6, <4>1
        DEF Lifecycle!Finish, Lifecycle!Outcome, Outcome, status, attempts, decision
      <4>3. QED
        BY <4>2 DEF Lifecycle!Next
    <3>7. QED
      BY <3>4, <3>5, <3>6
  <2>8. ASSUME row' # row
        PROVE  \E w \in Workflows : row'[w] # row[w]
    <3>1. row' \in [Workflows -> Row]
      BY <1>2, NextInv DEF IInv, TypeOK
    <3>2. QED
      BY <2>1, <2>8, <3>1
  <2>9. QED
    BY <1>2, <2>3, <2>4, <2>5, <2>6, <2>7, <2>8, Writers
<1>3. QED
  BY <1>1, <1>2, InductiveInvariant, PTL
  DEF Spec, ImplementsLifecycle, Lifecycle!Safety
===============================================================================
