---------------------- MODULE WorkflowExecutionLogProofs ----------------------
(***************************************************************************)
(* What the event log of a workflow says, for any number of workflows,     *)
(* workers, trigger tasks and attempts: the runs in it do not mix, it ends *)
(* when the workflow does and with the event that tells how, and it agrees *)
(* with the attempt counter.                                               *)
(*                                                                         *)
(* The invariant of WorkflowExecutionProofs makes every update land on the *)
(* row its process read.  What it does not say is what the process had     *)
(* read: LogInv adds that a process which still has a route to write holds *)
(* a copy whose log ends in its own plan, and one which still has an answer*)
(* to write a copy whose log ends in its own route.                        *)
(***************************************************************************)
EXTENDS WorkflowExecutionProofs, FiniteSetTheorems

-------------------------------------------------------------------------------
(* The invariant.                                                          *)

\* ExecutionsDoNotInterleave, of one event of a log and of a whole log.
FollowsItsOwn(log, i) ==
  log[i].type \in DOMAIN Precedes =>
    i > 1 /\ log[i - 1] = [type |-> Precedes[log[i].type], by |-> log[i].by]

Chained(log) == \A i \in DOMAIN log : FollowsItsOwn(log, i)

\* OutcomeMatchesLog, of one log.
Matches(status, log) ==
  /\ log # <<>>
  /\ log[Len(log)].type \in ClosingFor(status)
  /\ \A i \in 1..(Len(log) - 1) : log[i].type \notin Closing

\* The claims in a log: ClaimsBy(w, P) is ClaimsIn(row[w].log, P).
ClaimsIn(log, P) ==
  {i \in DOMAIN log : log[i].type = "recovery_claimed" /\ log[i].by \in P}

\* ClaimsAreAccounted, of one row.
Accounted(r) ==
  /\ r.attempts = Cardinality(ClaimsIn(r.log, Workers))
  /\ ClaimsIn(r.log, Triggers) \subseteq {2}
  /\ \A i \in DOMAIN r.log :
       r.log[i].type = "abandoned" => r.attempts = MaxAttempts

RowLogInv(r) ==
  /\ r.status = "Absent" => r.log = <<>>
  /\ r.status # "Absent" => Matches(r.status, r.log)
  /\ r.status = "Draft" => Len(r.log) = 1
  /\ Chained(r.log)
  /\ Accounted(r)

EndsIn(log, type, p) == log # <<>> /\ log[Len(log)] = [type |-> type, by |-> p]

\* The updates of an execution, as UpdatesFor lists them.
Failure     == [types |-> <<"failed">>, status |-> "Failed"]
Stage(type) == [types |-> <<type>>, status |-> "Recovering"]

StatusAfter  == [completed |-> "Completed",
                 approval_required |-> "WaitingForApproval"]
Answer(type) == [types |-> <<"specialist", type>>, status |-> StatusAfter[type]]

\* What is left of an execution of process p whose copy has the given log.
Remaining(p, log, todo) ==
  \/ todo = <<Failure>>
  \/ \E end \in DOMAIN StatusAfter :
       \/ todo = <<Stage("plan"), Stage("route"), Answer(end)>>
       \/ todo = <<Stage("route"), Answer(end)>> /\ EndsIn(log, "plan", p)
       \/ todo = <<Answer(end)>> /\ EndsIn(log, "route", p)

LogInv ==
  /\ \A w \in Workflows : RowLogInv(row[w])
  /\ \A p \in Jobs : job[p].pc \in Updating =>
       Remaining(p, job[p].snap.log, job[p].todo)

-------------------------------------------------------------------------------
(* Logs.                                                                   *)

\* The events that a process writes of one type, or of two.
LEMMA ByOne ==
  ASSUME NEW p, NEW t
  PROVE  /\ Len(By(p, <<t>>)) = 1
         /\ By(p, <<t>>)[1] = [type |-> t, by |-> p]
<1>1. DOMAIN <<t>> = 1..1
  OBVIOUS
<1>2. By(p, <<t>>) = [i \in 1..1 |-> [type |-> <<t>>[i], by |-> p]]
  BY <1>1 DEF By
<1>3. QED
  BY <1>2

\* A successful answer is written with the event that follows it.
LEMMA ByTwo ==
  ASSUME NEW p, NEW t, NEW u
  PROVE  /\ Len(By(p, <<t, u>>)) = 2
         /\ By(p, <<t, u>>)[1] = [type |-> t, by |-> p]
         /\ By(p, <<t, u>>)[2] = [type |-> u, by |-> p]
<1>1. DOMAIN <<t, u>> = 1..2
  OBVIOUS
<1>2. By(p, <<t, u>>) = [i \in 1..2 |-> [type |-> <<t, u>>[i], by |-> p]]
  BY <1>1 DEF By
<1>3. QED
  BY <1>2

\* A log with events appended, by its indices.
LEMMA AppendedAt ==
  ASSUME NEW log \in Seq(Event), NEW new \in Seq(Event)
  PROVE  /\ Len(log) \in Nat
         /\ Len(new) \in Nat
         /\ log \o new \in Seq(Event)
         /\ Len(log \o new) = Len(log) + Len(new)
         /\ DOMAIN log = 1..Len(log)
         /\ DOMAIN new = 1..Len(new)
         /\ DOMAIN (log \o new) = 1..(Len(log) + Len(new))
         /\ \A i \in 1..Len(log) : (log \o new)[i] = log[i]
         /\ \A i \in 1..Len(new) : (log \o new)[Len(log) + i] = new[i]
<1>1. /\ Len(log) \in Nat
      /\ Len(new) \in Nat
      /\ DOMAIN log = 1..Len(log)
      /\ DOMAIN new = 1..Len(new)
  BY LenProperties
<1>2. /\ log \o new \in Seq(Event)
      /\ Len(log \o new) = Len(log) + Len(new)
      /\ \A i \in 1..(Len(log) + Len(new)) :
           (log \o new)[i] = IF i <= Len(log) THEN log[i] ELSE new[i - Len(log)]
  BY ConcatProperties
<1>3. DOMAIN (log \o new) = 1..(Len(log) + Len(new))
  BY <1>2, LenProperties
<1>4. ASSUME NEW i \in 1..Len(log)
      PROVE  (log \o new)[i] = log[i]
  BY <1>1, <1>2
<1>5. ASSUME NEW i \in 1..Len(new)
      PROVE  (log \o new)[Len(log) + i] = new[i]
  BY <1>1, <1>2
<1>6. QED
  BY <1>1, <1>2, <1>3, <1>4, <1>5

\* The log of a workflow that is not at its end holds no closing event.
LEMMA OpenLog ==
  ASSUME NEW log \in Seq(Event), NEW status \in Active, Matches(status, log)
  PROVE  \A i \in DOMAIN log : log[i].type \notin Closing
<1>1. Len(log) \in Nat /\ DOMAIN log = 1..Len(log)
  BY LenProperties
<1>2. log[Len(log)].type \notin Closing
  BY DEF Matches, ClosingFor, Active
<1>3. \A i \in 1..(Len(log) - 1) : log[i].type \notin Closing
  BY DEF Matches
<1>4. QED
  BY <1>1, <1>2, <1>3

\* Events may be appended to an open log if only the last of them closes it,
\* each follows its own, and the first follows the end of the log.
LEMMA AppendingKeepsOrder ==
  ASSUME NEW log \in Seq(Event), NEW new \in Seq(Event), new # <<>>, NEW status,
         \A i \in DOMAIN log : log[i].type \notin Closing,
         Chained(log),
         \A i \in 1..(Len(new) - 1) : new[i].type \notin Closing,
         new[Len(new)].type \in ClosingFor(status),
         new[1].type \in DOMAIN Precedes =>
           EndsIn(log, Precedes[new[1].type], new[1].by),
         \A i \in 2..Len(new) : FollowsItsOwn(new, i)
  PROVE  Matches(status, log \o new) /\ Chained(log \o new)
<1> DEFINE n == Len(log)
           m == Len(new)
           all == log \o new
<1>1. /\ n \in Nat
      /\ m \in Nat \ {0}
      /\ all \in Seq(Event)
      /\ Len(all) = n + m
      /\ DOMAIN log = 1..n
      /\ DOMAIN all = 1..(n + m)
      /\ \A i \in 1..n : all[i] = log[i]
      /\ \A i \in 1..m : all[n + i] = new[i]
  BY AppendedAt, EmptySeq
<1> HIDE DEF all, n, m
<1>2. ASSUME NEW i \in 1..(n + m), i > n
      PROVE  i - n \in 1..m /\ all[i] = new[i - n]
  <2>1. i - n \in 1..m
    BY <1>1, <1>2
  <2>2. n + (i - n) = i
    BY <1>1
  <2>3. QED
    BY <1>1, <2>1, <2>2
<1>3. Matches(status, all)
  <2>1. all # <<>>
    BY <1>1, EmptySeq
  <2>2. all[Len(all)] = new[m]
    BY <1>1
  <2>3. all[Len(all)].type \in ClosingFor(status)
    BY <2>2 DEF m
  <2>4. ASSUME NEW i \in 1..(Len(all) - 1)
        PROVE  all[i].type \notin Closing
    <3>1. i \in 1..(n + m) /\ i < n + m
      BY <1>1, <2>4
    <3>2. CASE i <= n
      <4>1. i \in 1..n
        BY <1>1, <3>1, <3>2
      <4>2. QED
        BY <1>1, <4>1
    <3>3. CASE i > n
      <4>1. i - n \in 1..(m - 1)
        BY <1>1, <3>1, <3>3
      <4>2. all[i] = new[i - n]
        BY <1>2, <3>1, <3>3
      <4>3. QED
        BY <4>1, <4>2 DEF m
    <3>4. QED
      BY <1>1, <3>1, <3>2, <3>3
  <2>5. QED
    BY <2>1, <2>3, <2>4 DEF Matches
<1>4. ASSUME NEW i \in DOMAIN all
      PROVE  FollowsItsOwn(all, i)
  <2> SUFFICES ASSUME all[i].type \in DOMAIN Precedes
               PROVE  /\ i > 1
                      /\ all[i - 1] = [type |-> Precedes[all[i].type],
                                       by |-> all[i].by]
    BY DEF FollowsItsOwn
  <2>1. i \in 1..(n + m)
    BY <1>1
  <2>2. CASE i <= n
    <3>1. i \in 1..n /\ all[i] = log[i]
      BY <1>1, <2>1, <2>2
    <3>2. i > 1 /\ log[i - 1] = [type |-> Precedes[log[i].type], by |-> log[i].by]
      BY <1>1, <3>1 DEF Chained, FollowsItsOwn
    <3>3. i - 1 \in 1..n
      BY <1>1, <3>1, <3>2
    <3>4. all[i - 1] = log[i - 1]
      BY <1>1, <3>3
    <3>5. QED
      BY <3>1, <3>2, <3>4
  <2>3. CASE i = n + 1
    <3>1. all[i] = new[1]
      BY <1>1, <2>3
    <3>2. log # <<>> /\ log[n] = [type |-> Precedes[new[1].type], by |-> new[1].by]
      BY <3>1 DEF EndsIn, n
    <3>3. n \in 1..n
      BY <1>1, <3>2, EmptySeq DEF n
    <3>4. i > 1 /\ i - 1 = n
      BY <1>1, <2>3, <3>3
    <3>5. all[i - 1] = log[n]
      BY <1>1, <3>3, <3>4
    <3>6. QED
      BY <3>1, <3>2, <3>4, <3>5
  <2>4. CASE i > n + 1
    <3>1. i > n /\ i - 1 > n /\ i - 1 \in 1..(n + m) /\ i - n \in 2..m /\ i > 1
      BY <1>1, <2>1, <2>4
    <3>2. all[i] = new[i - n]
      BY <1>2, <2>1, <3>1
    <3>3. all[i - 1] = new[(i - 1) - n]
      BY <1>2, <3>1
    <3>4. (i - 1) - n = (i - n) - 1
      BY <1>1, <2>1
    <3>5. FollowsItsOwn(new, i - n)
      BY <3>1 DEF m
    <3>6. new[(i - n) - 1] = [type |-> Precedes[new[i - n].type],
                              by |-> new[i - n].by]
      BY <3>2, <3>5 DEF FollowsItsOwn
    <3>7. QED
      BY <3>1, <3>2, <3>3, <3>4, <3>6
  <2>5. QED
    BY <1>1, <2>1, <2>2, <2>3, <2>4
<1>5. QED
  BY <1>3, <1>4 DEF Chained, all

\* The claims in a log are finitely many.
LEMMA ClaimsFinite ==
  ASSUME NEW log \in Seq(Event), NEW P
  PROVE  /\ ClaimsIn(log, P) \subseteq 1..Len(log)
         /\ IsFiniteSet(ClaimsIn(log, P))
         /\ Len(log) \in Nat
<1>1. Len(log) \in Nat /\ DOMAIN log = 1..Len(log)
  BY LenProperties
<1>2. ClaimsIn(log, P) \subseteq 1..Len(log)
  BY <1>1 DEF ClaimsIn
<1>3. IsFiniteSet(1..Len(log))
  BY <1>1, FS_Interval
<1>4. QED
  BY <1>1, <1>2, <1>3, FS_Subset

\* Events that are no claims leave the claims as they are.
LEMMA ClaimsKept ==
  ASSUME NEW log \in Seq(Event), NEW new \in Seq(Event), NEW P,
         \A i \in 1..Len(new) : new[i].type # "recovery_claimed"
  PROVE  ClaimsIn(log \o new, P) = ClaimsIn(log, P)
<1> DEFINE n == Len(log)
           m == Len(new)
           all == log \o new
<1>1. /\ n \in Nat
      /\ m \in Nat
      /\ DOMAIN log = 1..n
      /\ DOMAIN all = 1..(n + m)
      /\ \A i \in 1..n : all[i] = log[i]
      /\ \A i \in 1..m : all[n + i] = new[i]
  BY AppendedAt
<1> HIDE DEF all, n, m
<1>2. ASSUME NEW i \in 1..(n + m), i > n
      PROVE  all[i].type # "recovery_claimed"
  <2>1. i - n \in 1..m /\ n + (i - n) = i
    BY <1>1, <1>2
  <2>2. all[i] = new[i - n]
    BY <1>1, <2>1
  <2>3. QED
    BY <2>1, <2>2 DEF m
<1>3. \A i \in 1..(n + m) : i \in 1..n \/ i > n
  BY <1>1
<1>4. 1..n \subseteq 1..(n + m)
  BY <1>1
<1>5. ClaimsIn(all, P) = ClaimsIn(log, P)
  BY <1>1, <1>2, <1>3, <1>4 DEF ClaimsIn
<1>6. QED
  BY <1>5 DEF all

\* One claim more is counted for the processes its author is one of.
LEMMA ClaimAdded ==
  ASSUME NEW log \in Seq(Event), NEW new \in Seq(Event), NEW P,
         Len(new) = 1, new[1].type = "recovery_claimed"
  PROVE  ClaimsIn(log \o new, P) =
           IF new[1].by \in P THEN ClaimsIn(log, P) \cup {Len(log) + 1}
           ELSE ClaimsIn(log, P)
<1> DEFINE n == Len(log)
           all == log \o new
<1>1. /\ n \in Nat
      /\ DOMAIN log = 1..n
      /\ DOMAIN all = 1..(n + 1)
      /\ \A i \in 1..n : all[i] = log[i]
      /\ all[n + 1] = new[1]
  BY AppendedAt
<1> HIDE DEF all, n
<1>2. 1..(n + 1) = (1..n) \cup {n + 1}
  BY <1>1
<1>3. ClaimsIn(all, P) = IF new[1].by \in P THEN ClaimsIn(log, P) \cup {n + 1}
                         ELSE ClaimsIn(log, P)
  BY <1>1, <1>2 DEF ClaimsIn
<1>4. QED
  BY <1>3 DEF all, n

-------------------------------------------------------------------------------
(* The rows that the four writers leave.                                   *)

\* What the invariants say of one row.
LEMMA RowFacts ==
  ASSUME IInv, LogInv, NEW w \in Workflows
  PROVE  /\ row \in [Workflows -> Row]
         /\ row[w] \in Row
         /\ row[w].log \in Seq(Event)
         /\ row[w].attempts \in Nat
         /\ RowLogInv(row[w])
         /\ row[w].status \in Active =>
              \A i \in DOMAIN row[w].log : row[w].log[i].type \notin Closing
<1>1. /\ row \in [Workflows -> Row]
      /\ row[w] \in Row
      /\ row[w].log \in Seq(Event)
      /\ row[w].attempts \in Nat
      /\ RowLogInv(row[w])
  BY DEF IInv, TypeOK, Row, LogInv
<1>2. row[w].status \in Active => Matches(row[w].status, row[w].log)
  BY <1>1 DEF RowLogInv, Active
<1>3. QED
  BY <1>1, <1>2, OpenLog

\* The log of a workflow begins with its submission.
LEMMA StartRow ==
  ASSUME IInv, LogInv, NEW w \in Workflows, Start(w)
  PROVE  RowLogInv(row'[w])
<1> DEFINE new == By("caller", <<"started">>)
<1>1. row[w] \in Row /\ row \in [Workflows -> Row] /\ RowLogInv(row[w])
  BY RowFacts
<1>2. row'[w] = [row[w] EXCEPT !.status = "Draft", !.log = new]
  BY <1>1 DEF Start
<1>3. /\ row'[w].status = "Draft"
      /\ row'[w].log = new
      /\ row'[w].attempts = row[w].attempts
  BY <1>1, <1>2 DEF Row
<1>4. row[w].log = <<>> /\ row[w].attempts = Cardinality(ClaimsIn(<<>>, Workers))
  BY <1>1 DEF Start, RowLogInv, Accounted
<1>5. new \in Seq(Event)
  <2>1. <<"started">> \in Seq(EventType)
    BY DEF EventType
  <2>2. QED
    BY <2>1, ByType
<1>6. Len(new) = 1 /\ new[1].type = "started" /\ DOMAIN new = {1}
  <2>1. Len(new) = 1 /\ new[1] = [type |-> "started", by |-> "caller"]
    BY ByOne
  <2>2. DOMAIN new = 1..Len(new)
    BY <1>5, LenProperties
  <2>3. QED
    BY <2>1, <2>2
<1> HIDE DEF new
<1>7. \A P : ClaimsIn(new, P) = {} /\ ClaimsIn(<<>>, P) = {}
  BY <1>6 DEF ClaimsIn
<1>8. Matches("Draft", new)
  BY <1>6, EmptySeq DEF Matches, ClosingFor, EventType, Closing
<1>9. Chained(new)
  BY <1>6 DEF Chained, FollowsItsOwn, Precedes
<1>10. Accounted(row'[w])
  BY <1>3, <1>4, <1>6, <1>7 DEF Accounted
<1>11. QED
  BY <1>3, <1>6, <1>8, <1>9, <1>10 DEF RowLogInv

\* A claim is counted exactly if a worker makes it, and a trigger task's is
\* the second event.
LEMMA ClaimRow ==
  ASSUME IInv, LogInv, NEW w \in Workflows, NEW p \in Jobs, Claim(p, w)
  PROVE  RowLogInv(row'[w])
<1> DEFINE new == By(p, <<"recovery_claimed">>)
           log == row[w].log
<1>1. /\ row \in [Workflows -> Row]
      /\ log \in Seq(Event)
      /\ row[w].attempts \in Nat
      /\ RowLogInv(row[w])
  BY RowFacts
<1>2. /\ row' = [row EXCEPT ![w] = ClaimedRow(p, w, row[w])]
      /\ row[w].status \in Active
      /\ p \in Triggers => row[w].status = "Draft"
  BY ClaimEffect
<1>3. /\ row'[w].status = "Recovering"
      /\ row'[w].log = log \o new
      /\ row'[w].attempts = IF p \in Workers THEN row[w].attempts + 1
                            ELSE row[w].attempts
  BY <1>1, <1>2 DEF ClaimedRow
<1>4. new \in Seq(Event) /\ new # <<>>
  <2>1. <<"recovery_claimed">> \in Seq(EventType) /\ <<"recovery_claimed">> # <<>>
    BY DEF EventType
  <2>2. QED
    BY <2>1, ByType
<1>5. Len(new) = 1 /\ new[1] = [type |-> "recovery_claimed", by |-> p]
  BY ByOne
<1> HIDE DEF new
<1>6. \A i \in DOMAIN log : log[i].type \notin Closing
  BY <1>2, RowFacts
<1>7. Matches("Recovering", log \o new) /\ Chained(log \o new)
  <2>1. new[1].type \notin DOMAIN Precedes
    BY <1>5 DEF Precedes
  <2>2. new[1].type \in ClosingFor("Recovering")
    BY <1>5 DEF ClosingFor, EventType, Closing
  <2>3. Chained(log)
    BY <1>1 DEF RowLogInv
  <2>4. 1..(Len(new) - 1) = {} /\ 2..Len(new) = {}
    BY <1>5
  <2>5. QED
    BY <1>1, <1>4, <1>5, <1>6, <2>1, <2>2, <2>3, <2>4, AppendingKeepsOrder
<1>8. ASSUME NEW P
      PROVE  ClaimsIn(log \o new, P) =
               IF p \in P THEN ClaimsIn(log, P) \cup {Len(log) + 1}
               ELSE ClaimsIn(log, P)
  <2>1. new[1].by = p /\ new[1].type = "recovery_claimed"
    BY <1>5
  <2>2. ClaimsIn(log \o new, P) =
          IF new[1].by \in P THEN ClaimsIn(log, P) \cup {Len(log) + 1}
          ELSE ClaimsIn(log, P)
    BY <1>1, <1>4, <1>5, <2>1, ClaimAdded
  <2>3. QED
    BY <2>1, <2>2
<1>9. row'[w].attempts = Cardinality(ClaimsIn(log \o new, Workers))
  <2>1. row[w].attempts = Cardinality(ClaimsIn(log, Workers))
    BY <1>1 DEF RowLogInv, Accounted
  <2>2. CASE p \in Workers
    <3>1. IsFiniteSet(ClaimsIn(log, Workers)) /\ Len(log) + 1 \notin ClaimsIn(log, Workers)
      BY <1>1, ClaimsFinite
    <3>2. Cardinality(ClaimsIn(log, Workers) \cup {Len(log) + 1}) =
            Cardinality(ClaimsIn(log, Workers)) + 1
      BY <3>1, FS_AddElement
    <3>3. ClaimsIn(log \o new, Workers) = ClaimsIn(log, Workers) \cup {Len(log) + 1}
      BY <1>8, <2>2
    <3>4. QED
      BY <1>3, <2>1, <2>2, <3>2, <3>3
  <2>3. CASE p \notin Workers
    <3>1. ClaimsIn(log \o new, Workers) = ClaimsIn(log, Workers)
      BY <1>8, <2>3
    <3>2. QED
      BY <1>3, <2>1, <2>3, <3>1
  <2>4. QED
    BY <2>2, <2>3
<1>10. ClaimsIn(log \o new, Triggers) \subseteq {2}
  <2>1. ClaimsIn(log, Triggers) \subseteq {2}
    BY <1>1 DEF RowLogInv, Accounted
  <2>2. p \in Triggers => Len(log) = 1
    BY <1>1, <1>2 DEF RowLogInv
  <2>3. ASSUME Len(log) = 1 PROVE Len(log) + 1 = 2
    BY <2>3
  <2>4. CASE p \in Triggers
    <3>1. ClaimsIn(log \o new, Triggers) = ClaimsIn(log, Triggers) \cup {2}
      BY <1>8, <2>2, <2>3, <2>4
    <3>2. QED
      BY <2>1, <3>1
  <2>5. CASE p \notin Triggers
    <3>1. ClaimsIn(log \o new, Triggers) = ClaimsIn(log, Triggers)
      BY <1>8, <2>5
    <3>2. QED
      BY <2>1, <3>1
  <2>6. QED
    BY <2>4, <2>5
<1>11. \A i \in DOMAIN (log \o new) : (log \o new)[i].type # "abandoned"
  <2>1. log \o new \in Seq(Event)
    BY <1>1, <1>4, ConcatProperties
  <2>2. \A i \in DOMAIN (log \o new) : (log \o new)[i].type \notin Closing
    BY <1>7, <2>1, OpenLog DEF Active
  <2>3. QED
    BY <2>2 DEF Closing
<1>12. Accounted(row'[w])
  BY <1>3, <1>9, <1>10, <1>11 DEF Accounted
<1>13. QED
  BY <1>3, <1>7, <1>12 DEF RowLogInv

\* A workflow is abandoned when its attempts are used up.
LEMMA AbandonRow ==
  ASSUME IInv, LogInv, NEW w \in Workflows, NEW p \in Jobs, Abandon(p, w)
  PROVE  RowLogInv(row'[w])
<1> DEFINE new == By(p, <<"abandoned">>)
           log == row[w].log
<1>1. /\ row \in [Workflows -> Row]
      /\ log \in Seq(Event)
      /\ row[w].attempts \in Nat
      /\ RowLogInv(row[w])
  BY RowFacts
<1>2. /\ row' = [row EXCEPT ![w] = AbandonedRow(p, w, row[w])]
      /\ row[w].status = "Recovering"
  BY AbandonEffect
<1>3. /\ row'[w].status = "Failed"
      /\ row'[w].log = log \o new
      /\ row'[w].attempts = row[w].attempts
  BY <1>1, <1>2 DEF AbandonedRow
<1>4. new \in Seq(Event) /\ new # <<>>
  <2>1. <<"abandoned">> \in Seq(EventType) /\ <<"abandoned">> # <<>>
    BY DEF EventType, Closing
  <2>2. QED
    BY <2>1, ByType
<1>5. Len(new) = 1 /\ new[1] = [type |-> "abandoned", by |-> p]
  BY ByOne
<1> HIDE DEF new
<1>6. \A i \in DOMAIN log : log[i].type \notin Closing
  BY <1>2, RowFacts DEF Active
<1>7. Matches("Failed", log \o new) /\ Chained(log \o new)
  <2>1. new[1].type \notin DOMAIN Precedes
    BY <1>5 DEF Precedes
  <2>2. new[1].type \in ClosingFor("Failed")
    BY <1>5 DEF ClosingFor
  <2>3. Chained(log)
    BY <1>1 DEF RowLogInv
  <2>4. 1..(Len(new) - 1) = {} /\ 2..Len(new) = {}
    BY <1>5
  <2>5. QED
    BY <1>1, <1>4, <1>5, <1>6, <2>1, <2>2, <2>3, <2>4, AppendingKeepsOrder
<1>8. \A P : ClaimsIn(log \o new, P) = ClaimsIn(log, P)
  BY <1>1, <1>4, <1>5, ClaimsKept
<1>9. row[w].attempts = MaxAttempts
  <2>1. job[p].cands[w] = row[w]
    BY CandidateIsRow DEF Abandon
  <2>2. row[w].attempts >= MaxAttempts
    BY <2>1 DEF Abandon, Exhausted
  <2>3. row[w].attempts <= MaxAttempts
    BY DEF IInv, RowInv
  <2>4. QED
    BY <1>1, <2>2, <2>3, ConfigAssumption
<1>10. Accounted(row'[w])
  BY <1>1, <1>3, <1>8, <1>9 DEF RowLogInv, Accounted
<1>11. QED
  BY <1>3, <1>7, <1>10 DEF RowLogInv

\* The update an execution has before it, told by what is left of it: the
\* events it appends follow the end of the copy's log, close the log exactly if
\* they are the last, and are neither claims nor an abandonment.
LEMMA NextUpdate ==
  ASSUME NEW p \in Jobs, NEW log, NEW todo, Remaining(p, log, todo)
  PROVE  LET new == By(p, todo[1].types) IN
         /\ Len(new) \in {1, 2}
         /\ \A i \in 1..Len(new) :
              /\ new[i].type \notin {"recovery_claimed", "abandoned"}
              /\ new[i].by = p
         /\ \A i \in 1..(Len(new) - 1) : new[i].type \notin Closing
         /\ new[Len(new)].type \in ClosingFor(todo[1].status)
         /\ new[1].type \in DOMAIN Precedes =>
              EndsIn(log, Precedes[new[1].type], new[1].by)
         /\ \A i \in 2..Len(new) : FollowsItsOwn(new, i)
         /\ todo[1].status \in {"Recovering"} \cup Outcome
<1> DEFINE new == By(p, todo[1].types)
           Fine ==
             /\ Len(new) \in {1, 2}
             /\ \A i \in 1..Len(new) :
                  /\ new[i].type \notin {"recovery_claimed", "abandoned"}
                  /\ new[i].by = p
             /\ \A i \in 1..(Len(new) - 1) : new[i].type \notin Closing
             /\ new[Len(new)].type \in ClosingFor(todo[1].status)
             /\ new[1].type \in DOMAIN Precedes =>
                  EndsIn(log, Precedes[new[1].type], new[1].by)
             /\ \A i \in 2..Len(new) : FollowsItsOwn(new, i)
             /\ todo[1].status \in {"Recovering"} \cup Outcome
<1> SUFFICES Fine
  OBVIOUS
<1>1. CASE todo = <<Failure>>
  <2>1. todo[1].types = <<"failed">> /\ todo[1].status = "Failed"
    BY <1>1 DEF Failure
  <2>2. Len(new) = 1 /\ new[1] = [type |-> "failed", by |-> p]
    BY <2>1, ByOne
  <2> HIDE DEF new
  <2>3. new[1].type \in ClosingFor("Failed")
    BY <2>2 DEF ClosingFor
  <2>4. new[1].type \notin DOMAIN Precedes
    BY <2>2 DEF Precedes
  <2>5. QED
    BY <2>1, <2>2, <2>3, <2>4 DEF Outcome, new
<1>2. ASSUME NEW type \in {"plan", "route"}, todo[1] = Stage(type),
             type = "route" => EndsIn(log, "plan", p)
      PROVE  /\ Len(new) = 1
             /\ new[1] = [type |-> type, by |-> p]
             /\ new[1].type \in ClosingFor(todo[1].status)
             /\ new[1].type \in DOMAIN Precedes =>
                  EndsIn(log, Precedes[new[1].type], new[1].by)
             /\ todo[1].status = "Recovering"
  <2>1. todo[1].types = <<type>> /\ todo[1].status = "Recovering"
    BY <1>2 DEF Stage
  <2>2. Len(new) = 1 /\ new[1] = [type |-> type, by |-> p]
    BY <2>1, ByOne
  <2> HIDE DEF new
  <2>3. new[1].type \in ClosingFor("Recovering")
    BY <2>2 DEF ClosingFor, EventType, Closing
  <2>4. new[1].type \in DOMAIN Precedes =>
          EndsIn(log, Precedes[new[1].type], new[1].by)
    BY <1>2, <2>2 DEF Precedes
  <2>5. QED
    BY <2>1, <2>2, <2>3, <2>4
<1>3. ASSUME NEW type \in {"plan", "route"}, todo[1] = Stage(type),
             type = "route" => EndsIn(log, "plan", p)
      PROVE  /\ Len(new) = 1
             /\ \A i \in 1..Len(new) :
                  /\ new[i].type \notin {"recovery_claimed", "abandoned"}
                  /\ new[i].by = p
             /\ 1..(Len(new) - 1) = {} /\ 2..Len(new) = {}
  <2> HIDE DEF new
  <2>1. Len(new) = 1 /\ new[1] = [type |-> type, by |-> p]
    BY <1>2, <1>3
  <2>2. QED
    BY <2>1
<1>4. ASSUME NEW end \in DOMAIN StatusAfter, todo = <<Answer(end)>>,
             EndsIn(log, "route", p)
      PROVE  /\ Len(new) = 2
             /\ new[1] = [type |-> "specialist", by |-> p]
             /\ new[2] = [type |-> end, by |-> p]
             /\ end \in {"completed", "approval_required"}
             /\ end \in ClosingFor(todo[1].status)
             /\ todo[1].status \in Outcome
  <2>1. /\ todo[1].types = <<"specialist", end>>
        /\ todo[1].status = StatusAfter[end]
    BY <1>4 DEF Answer
  <2>2. end \in {"completed", "approval_required"}
    BY DEF StatusAfter
  <2>3. /\ end \in ClosingFor(todo[1].status)
        /\ todo[1].status \in Outcome
    BY <2>1, <2>2 DEF StatusAfter, ClosingFor, Outcome
  <2>4. QED
    BY <2>1, <2>2, <2>3, ByTwo
<1>5. ASSUME NEW end \in DOMAIN StatusAfter, todo = <<Answer(end)>>,
             EndsIn(log, "route", p)
      PROVE  /\ \A i \in 1..Len(new) :
                  /\ new[i].type \notin {"recovery_claimed", "abandoned"}
                  /\ new[i].by = p
             /\ \A i \in 1..(Len(new) - 1) : new[i].type \notin Closing
             /\ new[1].type \in DOMAIN Precedes =>
                  EndsIn(log, Precedes[new[1].type], new[1].by)
             /\ \A i \in 2..Len(new) : FollowsItsOwn(new, i)
  <2>1. /\ Len(new) = 2
        /\ new[1] = [type |-> "specialist", by |-> p]
        /\ new[2] = [type |-> end, by |-> p]
        /\ end \in {"completed", "approval_required"}
    BY <1>4, <1>5
  <2> HIDE DEF new
  <2>2. \A i \in 1..Len(new) : i = 1 \/ i = 2
    BY <2>1
  <2>3. \A i \in 1..(Len(new) - 1) : i = 1
    BY <2>1
  <2>4. \A i \in 2..Len(new) : i = 2
    BY <2>1
  <2>5. EndsIn(log, Precedes[new[1].type], new[1].by)
    BY <1>5, <2>1 DEF Precedes
  <2>6. FollowsItsOwn(new, 2)
    <3>1. Precedes[new[2].type] = "specialist"
      BY <2>1 DEF Precedes
    <3>2. new[2 - 1] = [type |-> Precedes[new[2].type], by |-> new[2].by]
      BY <2>1, <3>1
    <3>3. QED
      BY <3>2 DEF FollowsItsOwn
  <2>7. "specialist" \notin Closing
    BY DEF Closing
  <2>8. QED
    BY <2>1, <2>2, <2>3, <2>4, <2>5, <2>6, <2>7
<1>6. \/ todo = <<Failure>>
      \/ \E type \in {"plan", "route"} :
           /\ todo[1] = Stage(type)
           /\ type = "route" => EndsIn(log, "plan", p)
      \/ \E end \in DOMAIN StatusAfter :
           todo = <<Answer(end)>> /\ EndsIn(log, "route", p)
  BY DEF Remaining
<1> HIDE DEF new
<1>7. ASSUME NEW type \in {"plan", "route"}, todo[1] = Stage(type),
             type = "route" => EndsIn(log, "plan", p)
      PROVE  Fine
  <2>1. /\ Len(new) = 1
        /\ new[1].type \in ClosingFor(todo[1].status)
        /\ new[1].type \in DOMAIN Precedes =>
             EndsIn(log, Precedes[new[1].type], new[1].by)
        /\ todo[1].status = "Recovering"
    BY <1>2, <1>7
  <2>2. /\ \A i \in 1..Len(new) :
             /\ new[i].type \notin {"recovery_claimed", "abandoned"}
             /\ new[i].by = p
        /\ 1..(Len(new) - 1) = {}
        /\ 2..Len(new) = {}
    BY <1>3, <1>7
  <2>3. QED
    BY <2>1, <2>2
<1>8. ASSUME NEW end \in DOMAIN StatusAfter, todo = <<Answer(end)>>,
             EndsIn(log, "route", p)
      PROVE  Fine
  <2>1. /\ Len(new) = 2
        /\ new[2] = [type |-> end, by |-> p]
        /\ end \in ClosingFor(todo[1].status)
        /\ todo[1].status \in Outcome
    BY <1>4, <1>8
  <2>2. new[Len(new)].type \in ClosingFor(todo[1].status)
    BY <2>1
  <2>3. /\ \A i \in 1..Len(new) :
             /\ new[i].type \notin {"recovery_claimed", "abandoned"}
             /\ new[i].by = p
        /\ \A i \in 1..(Len(new) - 1) : new[i].type \notin Closing
        /\ new[1].type \in DOMAIN Precedes =>
             EndsIn(log, Precedes[new[1].type], new[1].by)
        /\ \A i \in 2..Len(new) : FollowsItsOwn(new, i)
    BY <1>5, <1>8
  <2>4. QED
    BY <2>1, <2>2, <2>3
<1>9. QED
  BY <1>1, <1>6, <1>7, <1>8

\* What an update needs to know of the row and of the copy it comes from.
LEMMA CommitFacts ==
  ASSUME IInv, LogInv, NEW p \in Jobs, NEW w \in Workflows,
         CommitUpdate(p), job[p].wf = w
  PROVE  LET new == By(p, job[p].todo[1].types) IN
         /\ new \in Seq(Event) \ {<<>>}
         /\ job[p].snap = row[w]
         /\ Remaining(p, row[w].log, job[p].todo)
         /\ row[w].status = "Recovering"
         /\ NextState(p).log = row[w].log \o new
         /\ row'[w] = NextState(p)
         /\ row'[w].status = job[p].todo[1].status
         /\ row'[w].log = row[w].log \o new
         /\ row'[w].attempts = row[w].attempts
<1>1. job[p].pc = "commit" /\ VersionMatches(p)
  BY DEF CommitUpdate
<1>2. /\ row[w] = job[p].snap
      /\ row[w].status = "Recovering"
      /\ By(p, Head(job[p].todo).types) \in Seq(Event) \ {<<>>}
      /\ NextState(p).status = job[p].todo[1].status
      /\ NextState(p).attempts = row[w].attempts
      /\ NextState(p).log = row[w].log \o By(p, Head(job[p].todo).types)
  BY <1>1, CommitStoresNextState
<1>3. row' = [row EXCEPT ![w] = NextState(p)]
  BY CommitEffect
<1>4. row'[w] = NextState(p)
  BY <1>3 DEF IInv, TypeOK
<1>5. Remaining(p, row[w].log, job[p].todo)
  BY <1>1, <1>2 DEF LogInv, Updating
<1>6. Head(job[p].todo) = job[p].todo[1]
  OBVIOUS
<1>7. QED
  BY <1>2, <1>4, <1>5, <1>6

\* An update keeps the claims and continues its own run.
LEMMA CommitRow ==
  ASSUME IInv, LogInv, NEW p \in Jobs, NEW w \in Workflows,
         CommitUpdate(p), job[p].wf = w
  PROVE  RowLogInv(row'[w])
<1> DEFINE todo == job[p].todo
           new == By(p, todo[1].types)
           log == row[w].log
           status == todo[1].status
<1>1. log \in Seq(Event) /\ RowLogInv(row[w])
  BY RowFacts
<1>2. /\ new \in Seq(Event) \ {<<>>}
      /\ Remaining(p, log, todo)
      /\ row[w].status = "Recovering"
      /\ row'[w].status = status
      /\ row'[w].log = log \o new
      /\ row'[w].attempts = row[w].attempts
  BY CommitFacts
<1> HIDE DEF todo, log
<1>3. /\ \A i \in 1..Len(new) :
           new[i].type \notin {"recovery_claimed", "abandoned"}
      /\ \A i \in 1..(Len(new) - 1) : new[i].type \notin Closing
      /\ new[Len(new)].type \in ClosingFor(status)
      /\ new[1].type \in DOMAIN Precedes =>
           EndsIn(log, Precedes[new[1].type], new[1].by)
      /\ \A i \in 2..Len(new) : FollowsItsOwn(new, i)
      /\ status \in {"Recovering"} \cup Outcome
  BY <1>2, NextUpdate
<1> HIDE DEF new, status
<1>4. \A i \in DOMAIN log : log[i].type \notin Closing
  BY <1>2, RowFacts DEF Active, log
<1>5. Chained(log) /\ Accounted(row[w])
  BY <1>1 DEF RowLogInv, log
<1>6. Matches(status, log \o new) /\ Chained(log \o new)
  BY <1>1, <1>2, <1>3, <1>4, <1>5, AppendingKeepsOrder
<1>7. \A P : ClaimsIn(log \o new, P) = ClaimsIn(log, P)
  BY <1>1, <1>2, <1>3, ClaimsKept
<1>8. \A i \in DOMAIN (log \o new) : (log \o new)[i].type # "abandoned"
  <2>1. /\ DOMAIN (log \o new) = 1..(Len(log) + Len(new))
        /\ DOMAIN log = 1..Len(log)
        /\ Len(log) \in Nat
        /\ Len(new) \in Nat
        /\ \A i \in 1..Len(log) : (log \o new)[i] = log[i]
        /\ \A i \in 1..Len(new) : (log \o new)[Len(log) + i] = new[i]
    BY <1>1, <1>2, AppendedAt
  <2>2. ASSUME NEW i \in 1..(Len(log) + Len(new)), i <= Len(log)
        PROVE  (log \o new)[i].type # "abandoned"
    <3>1. i \in 1..Len(log)
      BY <2>1, <2>2
    <3>2. QED
      BY <1>4, <2>1, <3>1 DEF Closing
  <2>3. ASSUME NEW i \in 1..(Len(log) + Len(new)), i > Len(log)
        PROVE  (log \o new)[i].type # "abandoned"
    <3>1. i - Len(log) \in 1..Len(new) /\ Len(log) + (i - Len(log)) = i
      BY <2>1, <2>3
    <3>2. (log \o new)[i] = new[i - Len(log)]
      BY <2>1, <3>1
    <3>3. QED
      BY <1>3, <3>1, <3>2
  <2>4. \A i \in 1..(Len(log) + Len(new)) : i <= Len(log) \/ i > Len(log)
    BY <2>1
  <2>5. QED
    BY <2>1, <2>2, <2>3, <2>4
<1>9. Accounted(row'[w])
  BY <1>2, <1>5, <1>7, <1>8 DEF Accounted, log
<1>10. status \notin {"Absent", "Draft"}
  BY <1>3 DEF Outcome
<1>11. QED
  BY <1>2, <1>6, <1>9, <1>10 DEF RowLogInv

\* What is left after an update continues from what the update has written.
LEMMA RemainingAfter ==
  ASSUME NEW p \in Jobs, NEW log \in Seq(Event), NEW todo \in Seq(Update),
         Remaining(p, log, todo), Len(todo) # 1,
         By(p, todo[1].types) \in Seq(Event)
  PROVE  Remaining(p, log \o By(p, todo[1].types), Tail(todo))
<1> DEFINE new == By(p, todo[1].types)
<1>1. ASSUME NEW type \in {"plan", "route"}, todo[1] = Stage(type)
      PROVE  EndsIn(log \o new, type, p)
  <2>1. Len(new) = 1 /\ new[1] = [type |-> type, by |-> p]
    BY <1>1, ByOne DEF Stage
  <2>2. new \in Seq(Event)
    OBVIOUS
  <2> HIDE DEF new
  <2>3. /\ Len(log) \in Nat
        /\ log \o new \in Seq(Event)
        /\ Len(log \o new) = Len(log) + Len(new)
        /\ \A i \in 1..Len(new) : (log \o new)[Len(log) + i] = new[i]
    BY <2>2, AppendedAt
  <2>4. /\ Len(log \o new) = Len(log) + 1
        /\ (log \o new)[Len(log) + 1] = new[1]
    BY <2>1, <2>3
  <2>5. log \o new # <<>>
    BY <2>3, <2>4, EmptySeq
  <2>6. QED
    BY <2>1, <2>4, <2>5 DEF EndsIn
<1>2. PICK end \in DOMAIN StatusAfter :
        \/ todo = <<Stage("plan"), Stage("route"), Answer(end)>>
        \/ todo = <<Stage("route"), Answer(end)>>
  BY DEF Remaining
<1>3. CASE todo = <<Stage("plan"), Stage("route"), Answer(end)>>
  <2>1. todo[1] = Stage("plan") /\ Tail(todo) = <<Stage("route"), Answer(end)>>
    BY <1>3
  <2>2. EndsIn(log \o new, "plan", p)
    BY <1>1, <2>1
  <2>3. QED
    BY <2>1, <2>2 DEF Remaining
<1>4. CASE todo = <<Stage("route"), Answer(end)>>
  <2>1. todo[1] = Stage("route") /\ Tail(todo) = <<Answer(end)>>
    BY <1>4
  <2>2. EndsIn(log \o new, "route", p)
    BY <1>1, <2>1
  <2>3. QED
    BY <2>1, <2>2 DEF Remaining
<1>5. QED
  BY <1>2, <1>3, <1>4

\* How a process comes to have updates left: it had them before, its agents
\* have just ended, or it has just made the one before.
LEMMA HowUpdatesCome ==
  ASSUME IInv, [Next]_vars, NEW p \in Jobs, job'[p].pc \in Updating
  PROVE  \/ /\ job[p].pc \in Updating
            /\ job'[p].snap = job[p].snap
            /\ job'[p].todo = job[p].todo
         \/ \E result \in {"completed", "approval_required", "failed"} :
              job'[p].todo = UpdatesFor(result, "Recovering")
         \/ /\ CommitUpdate(p)
            /\ Len(job[p].todo) # 1
            /\ job'[p].snap = NextState(p)
            /\ job'[p].todo = Tail(job[p].todo)
<1> DEFINE Same(q) ==
             /\ job'[q].pc \in Updating => job[q].pc \in Updating
             /\ job'[q].snap = job[q].snap
             /\ job'[q].todo = job[q].todo
           Nothing(q) == job'[q].pc \notin Updating
<1>1. job \in [Jobs -> Job] /\ job[p] \in Job
  BY DEF IInv, TypeOK
<1>2. CASE UNCHANGED job
  BY <1>2
<1>3. ASSUME NEW q \in Jobs, NEW j, job' = [job EXCEPT ![q] = j],
             q # p \/ j.pc \notin Updating
      PROVE  Same(p) \/ Nothing(p)
  BY <1>1, <1>3
<1>4. ASSUME NEW q \in Jobs, Drop(q)
      PROVE  Same(p) \/ Nothing(p)
  BY <1>3, <1>4 DEF Drop, Idle, Updating
<1>5. ASSUME NEW q \in Jobs, NEW W, job' = [job EXCEPT ![q] = Claiming(W)]
      PROVE  Same(p) \/ Nothing(p)
  BY <1>3, <1>5 DEF Claiming, Idle, Updating
<1>6. ASSUME NEW q \in Jobs, NEW w \in Workflows, IsCandidate(q, w),
             NextCandidate(q, w)
      PROVE  Same(p) \/ Nothing(p)
  <2>1. PICK j \in Job : j.pc \notin Claimed /\ job' = [job EXCEPT ![q] = j]
    BY <1>6, NextCandidateIsFine
  <2>2. QED
    BY <1>3, <2>1 DEF Claimed, Updating
<1>7. ASSUME NEW q \in Jobs, TryCandidate(q)
      PROVE  Same(p) \/ Nothing(p)
  <2>1. PICK w \in Workflows : Claim(q, w) \/ Abandon(q, w) \/ LoseCandidate(q, w)
    BY <1>7 DEF TryCandidate
  <2>2. CASE Claim(q, w)
    BY <1>3, <2>2 DEF Claim, Idle, Updating
  <2>3. CASE Abandon(q, w) \/ LoseCandidate(q, w)
    BY <1>6, <2>3 DEF Abandon, LoseCandidate
  <2>4. QED
    BY <2>1, <2>2, <2>3
<1>8. ASSUME NEW q \in Jobs, RecoverAsync(q)
      PROVE  Same(p) \/ Nothing(p)
  <2>1. CASE Drop(q)
    BY <1>4, <2>1
  <2>2. CASE job' = [job EXCEPT ![q] = [job[q] EXCEPT !.pc = "agents",
                                                      !.snap = row[job[q].wf]]]
    <3>1. job[q] \in Job
      BY DEF IInv, TypeOK
    <3>2. QED
      BY <1>3, <2>2, <3>1 DEF Job, Updating
  <2>3. QED
    BY <1>8, <2>1, <2>2 DEF RecoverAsync
<1>9. ASSUME NEW q \in Jobs, job[q].pc = "agents",
             NEW result \in {"completed", "approval_required", "failed"},
             Persist(q, result)
      PROVE  \/ Same(p)
             \/ job'[p].todo = UpdatesFor(result, "Recovering")
  <2>1. job[q].snap.status = "Recovering"
    BY <1>9 DEF IInv, JobInv, Executing
  <2>2. job' = [job EXCEPT ![q] = [job[q] EXCEPT !.pc = "check",
                  !.todo = UpdatesFor(result, "Recovering"), !.since = 0]]
    BY <1>9, <2>1 DEF Persist, IInv, TypeOK
  <2>3. CASE q # p
    BY <1>1, <2>2, <2>3
  <2>4. CASE q = p
    <3>1. job'[p].todo = UpdatesFor(result, "Recovering")
      BY <1>1, <2>2, <2>4 DEF Job
    <3>2. QED
      BY <3>1
  <2>5. QED
    BY <2>3, <2>4
<1>10. ASSUME NEW q \in Jobs, CheckVersion(q) \/ CountEvents(q)
       PROVE  Same(p) \/ Nothing(p)
  <2>1. CASE Drop(q)
    BY <1>4, <2>1
  <2>2. CASE CheckVersion(q) /\ ~Drop(q)
    <3>1. job' = [job EXCEPT ![q].pc = "count"] /\ job[q].pc = "check"
      BY <2>2 DEF CheckVersion
    <3>2. CASE q # p
      BY <1>1, <3>1, <3>2
    <3>3. CASE q = p
      <4>1. job'[p] = [job[p] EXCEPT !.pc = "count"] /\ job[p].pc = "check"
        BY <1>1, <3>1, <3>3
      <4>2. QED
        BY <1>1, <4>1 DEF Job, Updating
    <3>4. QED
      BY <3>2, <3>3
  <2>3. CASE CountEvents(q)
    <3>1. /\ job' = [job EXCEPT ![q] =
               [@ EXCEPT !.pc = "commit", !.count = Len(row[job[q].wf].log)]]
          /\ job[q].pc = "count"
      BY <2>3 DEF CountEvents
    <3>2. CASE q # p
      BY <1>1, <3>1, <3>2
    <3>3. CASE q = p
      <4>1. PICK n : job'[p] = [job[p] EXCEPT !.pc = "commit", !.count = n]
        BY <1>1, <3>1, <3>3
      <4>2. QED
        BY <1>1, <3>1, <3>3, <4>1 DEF Job, Updating
    <3>4. QED
      BY <3>2, <3>3
  <2>4. QED
    BY <1>10, <2>1, <2>2, <2>3
<1>11. ASSUME NEW q \in Jobs, CommitUpdate(q)
       PROVE  \/ Same(p) \/ Nothing(p)
              \/ /\ CommitUpdate(p)
                 /\ Len(job[p].todo) # 1
                 /\ job'[p].snap = NextState(p)
                 /\ job'[p].todo = Tail(job[p].todo)
  <2>1. CASE q # p
    BY <1>1, <1>11, <2>1 DEF CommitUpdate
  <2>2. CASE q = p /\ Len(job[p].todo) = 1
    <3>1. job'[p] = Idle
      BY <1>1, <1>11, <2>2 DEF CommitUpdate
    <3>2. QED
      BY <3>1 DEF Idle, Updating
  <2>3. CASE q = p /\ Len(job[p].todo) # 1
    <3>1. job'[p] = [job[p] EXCEPT !.pc = "check", !.snap = NextState(p),
                                   !.todo = Tail(job[p].todo),
                                   !.count = 0, !.since = 0]
      BY <1>1, <1>11, <2>3 DEF CommitUpdate
    <3>2. job'[p].snap = NextState(p) /\ job'[p].todo = Tail(job[p].todo)
      BY <1>1, <3>1 DEF Job
    <3>3. QED
      BY <1>11, <2>3, <3>2
  <2>4. QED
    BY <2>1, <2>2, <2>3
<1>12. CASE Tick
  <2>1. CASE HoldsTimestamp(p)
    <3>1. job'[p] = [job[p] EXCEPT !.since = LesserOf(job[p].since + 1, SinceLimit)]
      BY <1>12, <2>1 DEF Tick
    <3>2. job'[p].pc = job[p].pc /\ job'[p].snap = job[p].snap
          /\ job'[p].todo = job[p].todo
      BY <1>1, <3>1 DEF Job
    <3>3. QED
      BY <3>2
  <2>2. CASE ~HoldsTimestamp(p)
    <3>1. job'[p] = job[p]
      BY <1>12, <2>2 DEF Tick
    <3>2. QED
      BY <3>1
  <2>3. QED
    BY <2>1, <2>2
<1>13. ASSUME NEW q \in Jobs, Execute(q) \/ CancelRun(q) \/ Crash(q)
       PROVE  \/ Same(p) \/ Nothing(p)
              \/ \E result \in {"completed", "approval_required", "failed"} :
                   job'[p].todo = UpdatesFor(result, "Recovering")
              \/ /\ CommitUpdate(p)
                 /\ Len(job[p].todo) # 1
                 /\ job'[p].snap = NextState(p)
                 /\ job'[p].todo = Tail(job[p].todo)
  <2>1. CASE RunAgents(q) \/ CancelRun(q)
    BY <1>9, <2>1 DEF RunAgents, CancelRun
  <2>2. CASE CommitStale(q) \/ Crash(q)
    BY <1>4, <2>2 DEF CommitStale, Crash
  <2>3. CASE RecoverAsync(q) \/ CheckVersion(q) \/ CountEvents(q)
    BY <1>8, <1>10, <2>3
  <2>4. CASE CommitUpdate(q)
    BY <1>11, <2>4
  <2>5. QED
    BY <1>13, <2>1, <2>2, <2>3, <2>4 DEF Execute
<1>14. CASE \E w \in Workflows : Start(w)
  BY <1>2, <1>14 DEF Start
<1>15. CASE \E q \in Workers : ScanForWork(q)
  BY <1>5, <1>15 DEF ScanForWork, Jobs
<1>16. CASE \E q \in Triggers, w \in Workflows : TriggerImmediate(q, w)
  BY <1>5, <1>16 DEF TriggerImmediate, Jobs
<1>17. CASE \E q \in Workers : CancelRun(q)
  BY <1>13, <1>17 DEF Jobs
<1>18. QED
  BY <1>2, <1>7, <1>12, <1>13, <1>14, <1>15, <1>16, <1>17 DEF Next, vars

-------------------------------------------------------------------------------
(* The invariant and what follows from it.                                 *)

\* An execution begins with all of its updates.
LEMMA AllRemain ==
  ASSUME NEW p, NEW log,
         NEW result \in {"completed", "approval_required", "failed"}
  PROVE  Remaining(p, log, UpdatesFor(result, "Recovering"))
<1>1. CASE result = "failed"
  BY <1>1 DEF UpdatesFor, Remaining, Failure
<1>2. CASE result = "completed"
  <2>1. UpdatesFor(result, "Recovering") =
          <<Stage("plan"), Stage("route"), Answer("completed")>>
    BY <1>2 DEF UpdatesFor, Stage, Answer, StatusAfter
  <2>2. QED
    BY <2>1 DEF Remaining, StatusAfter
<1>3. CASE result = "approval_required"
  <2>1. UpdatesFor(result, "Recovering") =
          <<Stage("plan"), Stage("route"), Answer("approval_required")>>
    BY <1>3 DEF UpdatesFor, Stage, Answer, StatusAfter
  <2>2. QED
    BY <2>1 DEF Remaining, StatusAfter
<1>4. QED
  BY <1>1, <1>2, <1>3

\* Before the first submission every log is empty.
LEMMA InitLog == Init => LogInv
<1> SUFFICES ASSUME Init PROVE LogInv
  OBVIOUS
<1>1. ASSUME NEW w \in Workflows PROVE RowLogInv(row[w])
  <2>1. /\ row[w].status = "Absent"
        /\ row[w].log = <<>>
        /\ row[w].attempts = 0
    BY DEF Init, AbsentRow
  <2>2. \A P : ClaimsIn(<<>>, P) = {}
    BY DEF ClaimsIn
  <2>3. Cardinality(ClaimsIn(<<>>, Workers)) = 0
    BY <2>2, FS_EmptySet
  <2>4. Chained(<<>>)
    BY DEF Chained
  <2>5. Accounted(row[w])
    BY <2>1, <2>2, <2>3 DEF Accounted
  <2>6. QED
    BY <2>1, <2>4, <2>5 DEF RowLogInv
<1>2. ASSUME NEW p \in Jobs PROVE job[p].pc \notin Updating
  BY DEF Init, Idle, Updating
<1>3. QED
  BY <1>1, <1>2 DEF LogInv

\* Every step keeps the logs in order.
LEMMA NextLog == IInv /\ LogInv /\ [Next]_vars => LogInv'
<1> SUFFICES ASSUME IInv, LogInv, [Next]_vars PROVE LogInv'
  OBVIOUS
<1>1. ASSUME NEW w \in Workflows PROVE RowLogInv(row'[w])
  <2>1. CASE row'[w] = row[w]
    BY <2>1 DEF LogInv
  <2>2. CASE row'[w] # row[w]
    BY <2>2, Writers, StartRow, ClaimRow, AbandonRow, CommitRow
  <2>3. QED
    BY <2>1, <2>2
<1>2. ASSUME NEW p \in Jobs, job'[p].pc \in Updating
      PROVE  Remaining(p, job'[p].snap.log, job'[p].todo)
  <2>1. CASE /\ job[p].pc \in Updating
             /\ job'[p].snap = job[p].snap
             /\ job'[p].todo = job[p].todo
    BY <2>1 DEF LogInv
  <2>2. ASSUME NEW result \in {"completed", "approval_required", "failed"},
               job'[p].todo = UpdatesFor(result, "Recovering")
        PROVE  Remaining(p, job'[p].snap.log, job'[p].todo)
    BY <2>2, AllRemain
  <2>3. CASE /\ CommitUpdate(p)
             /\ Len(job[p].todo) # 1
             /\ job'[p].snap = NextState(p)
             /\ job'[p].todo = Tail(job[p].todo)
    <3>1. PICK w \in Workflows : w = job[p].wf
      BY <2>3, CommitStoresNextState DEF CommitUpdate
    <3>2. /\ By(p, job[p].todo[1].types) \in Seq(Event)
          /\ Remaining(p, row[w].log, job[p].todo)
          /\ NextState(p).log = row[w].log \o By(p, job[p].todo[1].types)
      BY <2>3, <3>1, CommitFacts
    <3>3. row[w].log \in Seq(Event)
      BY RowFacts
    <3>4. job[p].todo \in Seq(Update)
      BY DEF IInv, TypeOK, Job
    <3>5. Remaining(p, row[w].log \o By(p, job[p].todo[1].types),
                    Tail(job[p].todo))
      BY <2>3, <3>2, <3>3, <3>4, RemainingAfter
    <3>6. QED
      BY <2>3, <3>2, <3>5
  <2>4. QED
    BY <1>2, <2>1, <2>2, <2>3, HowUpdatesCome
<1>3. QED
  BY <1>1, <1>2 DEF LogInv, RowLogInv, Accounted

\* The invariant of the logs holds beside that of the fences.
THEOREM LogInvariant == Spec => []LogInv
BY InitLog, NextLog, InductiveInvariant, PTL DEF Spec

\* However many processes run the agents for one workflow, no route or answer
\* in its log comes after anything but the plan or route of the same run.
THEOREM RunsDoNotInterleave == Spec => []ExecutionsDoNotInterleave
<1>1. LogInv => ExecutionsDoNotInterleave
  BY DEF LogInv, RowLogInv, Chained, FollowsItsOwn, ExecutionsDoNotInterleave
<1>2. QED
  BY <1>1, LogInvariant, PTL

\* A log has a closing event exactly if its workflow has an outcome, the one the
\* event names, and then as its last event.
THEOREM OutcomeLogged == Spec => []OutcomeMatchesLog
<1>1. LogInv => OutcomeMatchesLog
  BY DEF LogInv, RowLogInv, Matches, OutcomeMatchesLog
<1>2. QED
  BY <1>1, LogInvariant, PTL

\* The attempt counter is the number of claims by workers and never passes its
\* limit, a trigger claims only a fresh Draft, and a workflow is abandoned only
\* when its attempts are used up.
THEOREM ClaimsAccounted == Spec => []ClaimsAreAccounted
<1>1. IInv /\ LogInv => ClaimsAreAccounted
  <2> SUFFICES ASSUME IInv, LogInv, NEW w \in Workflows
               PROVE  /\ row[w].attempts = Cardinality(ClaimsBy(w, Workers))
                      /\ row[w].attempts <= MaxAttempts
                      /\ ClaimsBy(w, Triggers) \subseteq {2}
                      /\ \A i \in DOMAIN row[w].log :
                           row[w].log[i].type = "abandoned" =>
                             row[w].attempts = MaxAttempts
    BY DEF ClaimsAreAccounted
  <2>1. row[w].attempts <= MaxAttempts
    BY DEF IInv, RowInv
  <2>2. Accounted(row[w])
    BY DEF LogInv, RowLogInv
  <2>3. \A P : ClaimsBy(w, P) = ClaimsIn(row[w].log, P)
    BY DEF ClaimsBy, ClaimsIn
  <2>4. QED
    BY <2>1, <2>2, <2>3 DEF Accounted
<1>2. QED
  BY <1>1, InductiveInvariant, LogInvariant, PTL
===============================================================================
