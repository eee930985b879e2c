------------------------ MODULE WorkflowApprovalProofs ------------------------
(***************************************************************************)
(* The safety of WorkflowApproval for any number of workflows and requests.*)
(*                                                                         *)
(* A request acts on a copy of the row it read before anybody else could   *)
(* decide.  The argument is that this copy is the row itself until some    *)
(* decision is recorded, because nothing but a decision changes a workflow *)
(* that waits for one; and that a recorded decision changes no more.       *)
(***************************************************************************)
EXTENDS WorkflowApproval, TLAPS, SequenceTheorems, FiniteSetTheorems

-------------------------------------------------------------------------------
(* The inductive invariant.                                                *)

\* A workflow without any trace of a decision.
Pristine(w) ==
  /\ row[w].status # "Rejected"
  /\ row[w].decision = "none"
  /\ decisions[w] = <<>>
  /\ cases[w] = 0
  /\ \A i \in DOMAIN row[w].log : row[w].log[i] = "execution"

RowInv(w) == Pristine(w) \/ \E d \in Decision : DecidedAs(w, d)

Deciding == {"find", "check", "count", "commit"}

\* What a request with the memory r may rely on.
ReqInv(r) ==
  /\ r.pc # "idle" => r.wf \in Workflows /\ r.want \in Decision
  /\ r.pc \in Deciding =>
       /\ r.snap.status = "WaitingForApproval"
       /\ r.snap.decision = "none"
       /\ \/ row[r.wf] = r.snap
          \/ r.snap.version < row[r.wf].version /\ decisions[r.wf] # <<>>
  /\ r.pc = "commit" /\ row[r.wf] = r.snap => r.count = Len(r.snap.log)
  /\ r.pc \in {"recheck", "stale"} => decisions[r.wf] # <<>>
  /\ r.pc \in {"read", "ok"} => decisions[r.wf] = <<r.want>>
  /\ r.pc = "conflict" => \E d \in Decision \ {r.want} : decisions[r.wf] = <<d>>

IInv ==
  /\ TypeOK
  /\ \A w \in Workflows : RowInv(w)
  /\ \A a \in Requests : ReqInv(req[a])

-------------------------------------------------------------------------------
(* Logs and counts.                                                        *)

\* A type that does not occur is counted as none.
LEMMA CountNone ==
  ASSUME NEW log, NEW type, \A i \in DOMAIN log : log[i] # type
  PROVE  CountOf(type, log) = 0
<1>1. {i \in DOMAIN log : log[i] = type} = {}
  OBVIOUS
<1> QED
  BY <1>1, FS_EmptySet DEF CountOf

\* A type that occurs in one place is counted once.
LEMMA CountOne ==
  ASSUME NEW log, NEW type, NEW k \in DOMAIN log,
         \A i \in DOMAIN log : log[i] = type <=> i = k
  PROVE  CountOf(type, log) = 1
<1>1. {i \in DOMAIN log : log[i] = type} = {k}
  OBVIOUS
<1> QED
  BY <1>1, FS_Singleton DEF CountOf

\* The events appended after a count of all that are stored are the new ones.
LEMMA AppendedExactly ==
  ASSUME NEW S, NEW log \in Seq(S), NEW new \in Seq(S)
  PROVE  log \o SubSeq(log \o new, Len(log) + 1, Len(log \o new)) = log \o new
<1> DEFINE all == log \o new
           rest == SubSeq(all, Len(log) + 1, Len(all))
<1>1. /\ Len(log) \in Nat
      /\ Len(new) \in Nat
      /\ all \in Seq(S)
      /\ Len(all) = Len(log) + Len(new)
      /\ \A i \in 1..Len(all) :
           all[i] = IF i <= Len(log) THEN log[i] ELSE new[i - Len(log)]
  BY LenProperties, ConcatProperties
<1>2. \A i \in (Len(log) + 1)..Len(all) : all[i] \in S
  BY <1>1, ElementOfSeq
<1> HIDE DEF all
<1>3. /\ rest \in Seq(S)
      /\ Len(rest) = Len(new)
      /\ \A i \in 1..Len(new) : rest[i] = all[Len(log) + i]
  <2>1. /\ rest \in Seq(S)
        /\ Len(rest) = IF Len(log) + 1 <= Len(all)
                       THEN Len(all) - (Len(log) + 1) + 1 ELSE 0
        /\ \A i \in 1..(Len(all) - (Len(log) + 1) + 1) :
             rest[i] = all[Len(log) + 1 + i - 1]
    BY <1>1, <1>2, SubSeqProperties
  <2> QED
    BY <1>1, <2>1
<1>4. \A i \in 1..Len(new) : rest[i] = new[i]
  BY <1>1, <1>3
<1>5. rest = new
  BY <1>1, <1>3, <1>4, SeqEqual
<1> QED
  BY <1>5 DEF all

\* An undecided workflow agrees with itself, and a decided one is not undecided.
LEMMA PristineAgrees ==
  ASSUME NEW w \in Workflows, Pristine(w)
  PROVE  Undecided(w)
BY CountNone DEF Pristine, Undecided

\* A decision counts its traces in the log it is appended to.
LEMMA DecisionCounts ==
  ASSUME NEW log \in Seq(EventType),
         \A i \in DOMAIN log : log[i] = "execution",
         NEW new \in {<<"approval">>, <<"approval", "action_completed">>}
  PROVE  /\ log \o new \in Seq(EventType)
         /\ CountOf("approval", log \o new) = 1
         /\ CountOf("action_completed", log \o new) = Len(new) - 1
<1>1. new \in Seq(EventType) /\ Len(new) \in {1, 2}
  <2>1. CASE new = <<"approval">>
    BY <2>1 DEF EventType
  <2>2. CASE new = <<"approval", "action_completed">>
    BY <2>2 DEF EventType
  <2> QED
    BY <2>1, <2>2
<1>2. /\ Len(log) \in Nat
      /\ DOMAIN log = 1..Len(log)
      /\ log \o new \in Seq(EventType)
      /\ DOMAIN (log \o new) = 1..(Len(log) + Len(new))
      /\ \A i \in 1..(Len(log) + Len(new)) :
           (log \o new)[i] = IF i <= Len(log) THEN log[i] ELSE new[i - Len(log)]
  BY <1>1, LenProperties, ConcatProperties
<1> DEFINE all == log \o new
<1> HIDE DEF all
<1>3. CASE new = <<"approval">>
  <2>1. /\ DOMAIN all = 1..(Len(log) + 1)
        /\ \A i \in DOMAIN all :
             all[i] = IF i <= Len(log) THEN "execution" ELSE "approval"
    BY <1>2, <1>3 DEF all
  <2>2. CountOf("approval", all) = 1
    <3>1. Len(log) + 1 \in DOMAIN all
      BY <1>2, <2>1
    <3>2. \A i \in DOMAIN all : all[i] = "approval" <=> i = Len(log) + 1
      BY <1>2, <2>1
    <3> QED
      BY <3>1, <3>2, CountOne
  <2>3. CountOf("action_completed", all) = 0
    BY <2>1, CountNone
  <2> QED
    BY <1>2, <1>3, <2>2, <2>3 DEF all
<1>4. CASE new = <<"approval", "action_completed">>
  <2>1. /\ DOMAIN all = 1..(Len(log) + 2)
        /\ \A i \in DOMAIN all :
             all[i] = IF i <= Len(log) THEN "execution"
                      ELSE IF i = Len(log) + 1 THEN "approval"
                      ELSE "action_completed"
    BY <1>2, <1>4 DEF all
  <2>2. CountOf("approval", all) = 1
    <3>1. Len(log) + 1 \in DOMAIN all
      BY <1>2, <2>1
    <3>2. \A i \in DOMAIN all : all[i] = "approval" <=> i = Len(log) + 1
      BY <1>2, <2>1
    <3> QED
      BY <3>1, <3>2, CountOne
  <2>3. CountOf("action_completed", all) = 1
    <3>1. Len(log) + 2 \in DOMAIN all
      BY <1>2, <2>1
    <3>2. \A i \in DOMAIN all : all[i] = "action_completed" <=> i = Len(log) + 2
      BY <1>2, <2>1
    <3> QED
      BY <3>1, <3>2, CountOne
  <2> QED
    BY <1>2, <1>4, <2>2, <2>3 DEF all
<1> QED
  BY <1>3, <1>4

-------------------------------------------------------------------------------
(* Steps of one request that leave the tables alone.                       *)

\* A request that holds nothing relies on nothing.
LEMMA IdleIsFine ==
  AbsentRow \in Row /\ Idle \in Request /\ ReqInv(Idle)
<1>1. AbsentRow \in Row
  BY DEF AbsentRow, Row, Status, Outcome
<1>2. Idle \in Request
  BY <1>1 DEF Idle, Request, PC
<1>3. ReqInv(Idle)
  BY DEF Idle, ReqInv, Deciding
<1> QED
  BY <1>1, <1>2, <1>3

\* A request may change its own memory to anything that satisfies ReqInv.
LEMMA LocalStep ==
  ASSUME IInv, NEW a \in Requests, NEW r \in Request, ReqInv(r),
         req' = [req EXCEPT ![a] = r],
         UNCHANGED <<row, disputes, decisions, cases>>
  PROVE  IInv'
<1>1. TypeOK'
  BY DEF IInv, TypeOK
<1>2. \A w \in Workflows : RowInv(w)'
  BY DEF IInv, RowInv, Pristine, DecidedAs
<1>3. ASSUME NEW b \in Requests
      PROVE  ReqInv(req[b])'
  <2>1. req'[b] = IF b = a THEN r ELSE req[b]
    BY DEF IInv, TypeOK
  <2>2. ReqInv(req'[b])
    BY <2>1 DEF IInv
  <2> QED
    BY <2>2 DEF ReqInv
<1> QED
  BY <1>1, <1>2, <1>3 DEF IInv

\* What is known of a request and of the row it is about.
LEMMA Engaged ==
  ASSUME IInv, NEW a \in Requests, req[a].pc # "idle"
  PROVE  /\ req[a] \in Request
         /\ ReqInv(req[a])
         /\ req[a].wf \in Workflows
         /\ req[a].want \in Decision
         /\ row[req[a].wf] \in Row
         /\ RowInv(req[a].wf)
BY DEF IInv, TypeOK, ReqInv

\* The decisions table and the decision column of a row say the same.
LEMMA DecisionColumn ==
  ASSUME NEW w \in Workflows, RowInv(w)
  PROVE  \/ row[w].decision = "none" /\ decisions[w] = <<>>
         \/ row[w].decision \in Decision /\ decisions[w] = <<row[w].decision>>
BY DEF RowInv, Pristine, DecidedAs

\* A posted decision starts a request on the row as it is, or is answered by it.
LEMMA ApproveAsyncStep ==
  ASSUME IInv, NEW a \in Requests, NEW w \in Workflows, NEW d \in Decision,
         ApproveAsync(a, w, d)
  PROVE  IInv'
<1>1. row[w] \in Row /\ RowInv(w)
  BY DEF IInv, TypeOK
<1>2. CASE row[w].decision = "none" /\ row[w].status = "WaitingForApproval"
  <2> DEFINE r == [Idle EXCEPT !.pc = "find", !.wf = w, !.want = d,
                               !.snap = row[w], !.tracked = TRUE]
  <2>1. r \in Request
    BY <1>1, IdleIsFine DEF Request, PC
  <2>2. ReqInv(r)
    BY <1>1, <1>2 DEF Idle, ReqInv, Deciding
  <2>3. req' = [req EXCEPT ![a] = r] /\ UNCHANGED <<row, disputes, decisions, cases>>
    BY <1>2 DEF ApproveAsync
  <2> HIDE DEF r
  <2> QED
    BY <2>1, <2>2, <2>3, LocalStep
<1>3. CASE ~(row[w].decision = "none" /\ row[w].status = "WaitingForApproval")
  <2> DEFINE r == [Idle EXCEPT !.pc = EarlyAnswer(w, d), !.wf = w, !.want = d,
                               !.reply = IF EarlyAnswer(w, d) = "ok" THEN row[w]
                                         ELSE AbsentRow]
  <2>1. EarlyAnswer(w, d) \in {"ok", "conflict", "invalid_transition"}
    BY DEF EarlyAnswer
  <2>2. r \in Request
    BY <1>1, <2>1, IdleIsFine DEF Request, PC, Answer
  <2>3. /\ r.pc = EarlyAnswer(w, d)
        /\ r.wf = w
        /\ r.want = d
    BY DEF Idle
  <2>4. EarlyAnswer(w, d) = "ok" => decisions[w] = <<d>>
    BY <1>1, DecisionColumn DEF EarlyAnswer
  <2>5. EarlyAnswer(w, d) = "conflict" =>
          \E e \in Decision \ {d} : decisions[w] = <<e>>
    BY <1>1, DecisionColumn DEF EarlyAnswer
  <2> HIDE DEF r
  <2>6. ReqInv(r)
    BY <2>1, <2>3, <2>4, <2>5 DEF ReqInv, Deciding
  <2>7. req' = [req EXCEPT ![a] = r] /\ UNCHANGED <<row, disputes, decisions, cases>>
    BY <1>3 DEF ApproveAsync, r
  <2> QED
    BY <2>2, <2>6, <2>7, LocalStep
<1> QED
  BY <1>2, <1>3

\* A look-up that finds a decision compares it.
LEMMA ComparedAnswer ==
  ASSUME IInv, NEW a \in Requests, req[a].pc # "idle", Recorded(a) # <<>>
  PROVE  \/ Compared(a) = "read" /\ decisions[req[a].wf] = <<req[a].want>>
         \/ /\ Compared(a) = "conflict"
            /\ \E d \in Decision \ {req[a].want} : decisions[req[a].wf] = <<d>>
<1> DEFINE w == req[a].wf
<1>1. w \in Workflows /\ RowInv(w)
  BY Engaged
<1>2. PICK d \in Decision : decisions[w] = <<d>>
  BY <1>1, DecisionColumn DEF Recorded
<1>3. Recorded(a)[1] = d
  BY <1>2 DEF Recorded
<1> QED
  BY <1>2, <1>3 DEF Compared

\* Going on to another place with the same memory.
LEMMA GotoStep ==
  ASSUME IInv, NEW a \in Requests, req[a].pc # "idle",
         NEW pc \in PC, Goto(a, pc),
         UNCHANGED <<row, disputes, decisions, cases>>,
         ReqInv([req[a] EXCEPT !.pc = pc])
  PROVE  IInv'
<1>1. req' = [req EXCEPT ![a] = [req[a] EXCEPT !.pc = pc]]
  BY DEF Goto
<1>2. [req[a] EXCEPT !.pc = pc] \in Request
  BY Engaged DEF Request
<1> QED
  BY <1>1, <1>2, LocalStep

\* The look-up goes on, or compares the decision it finds.
LEMMA FindDecisionStep ==
  ASSUME IInv, NEW a \in Requests, FindDecision(a)
  PROVE  IInv'
<1>1. req[a].pc = "find"
  BY DEF FindDecision
<1>2. req[a] \in Request /\ ReqInv(req[a])
  BY <1>1, Engaged
<1> DEFINE pc == IF Recorded(a) = <<>> THEN "check" ELSE Compared(a)
           r == [req[a] EXCEPT !.pc = pc]
<1>3. Goto(a, pc) /\ UNCHANGED <<row, disputes, decisions, cases>>
  BY DEF FindDecision
<1>4. pc \in PC
  BY DEF Compared, PC, Answer
<1> HIDE DEF pc
<1>5. /\ r.pc = pc /\ r.wf = req[a].wf /\ r.want = req[a].want
      /\ r.snap = req[a].snap /\ r.count = req[a].count
  BY <1>2 DEF Request
<1>6. \/ pc = "check"
      \/ pc = "read" /\ decisions[req[a].wf] = <<req[a].want>>
      \/ /\ pc = "conflict"
         /\ \E d \in Decision \ {req[a].want} : decisions[req[a].wf] = <<d>>
  BY <1>1, ComparedAnswer DEF pc
<1> HIDE DEF r
<1>7. ReqInv(r)
  BY <1>1, <1>2, <1>5, <1>6 DEF ReqInv, Deciding
<1> QED
  BY <1>1, <1>3, <1>4, <1>7, GotoStep DEF r

\* The version check only turns a request away when a decision overtook it.
LEMMA CheckVersionStep ==
  ASSUME IInv, NEW a \in Requests, CheckVersion(a)
  PROVE  IInv'
<1>1. req[a].pc = "check"
  BY DEF CheckVersion
<1>2. req[a] \in Request /\ ReqInv(req[a])
  BY <1>1, Engaged
<1> DEFINE pc == IF row[req[a].wf].version = req[a].snap.version THEN "count"
                 ELSE "stale"
           r == [req[a] EXCEPT !.pc = pc]
<1>3. Goto(a, pc) /\ UNCHANGED <<row, disputes, decisions, cases>>
  BY DEF CheckVersion
<1>4. pc \in PC
  BY DEF PC, Answer
<1>5. pc = "stale" => decisions[req[a].wf] # <<>>
  BY <1>1, <1>2 DEF ReqInv, Deciding
<1>6. pc \in {"count", "stale"}
  OBVIOUS
<1> HIDE DEF pc
<1>7. /\ r.pc = pc /\ r.wf = req[a].wf /\ r.want = req[a].want
      /\ r.snap = req[a].snap /\ r.count = req[a].count
  BY <1>2 DEF Request
<1> HIDE DEF r
<1>8. ReqInv(r)
  BY <1>1, <1>2, <1>5, <1>6, <1>7 DEF ReqInv, Deciding
<1> QED
  BY <1>1, <1>3, <1>4, <1>8, GotoStep DEF r

\* The count is the length of the log the request read, or it comes too late.
LEMMA CountEventsStep ==
  ASSUME IInv, NEW a \in Requests, CountEvents(a)
  PROVE  IInv'
<1>1. req[a].pc = "count"
  BY DEF CountEvents
<1>2. /\ req[a] \in Request /\ ReqInv(req[a])
      /\ row[req[a].wf] \in Row
  BY <1>1, Engaged
<1> DEFINE r == [req[a] EXCEPT !.pc = "commit", !.count = Len(row[req[a].wf].log)]
<1>3. Len(row[req[a].wf].log) \in Nat
  BY <1>2, LenProperties DEF Row
<1>4. r \in Request
  BY <1>2, <1>3 DEF Request, PC
<1>5. ReqInv(r)
  <2>1. /\ r.pc = "commit" /\ r.wf = req[a].wf /\ r.want = req[a].want
        /\ r.snap = req[a].snap /\ r.count = Len(row[req[a].wf].log)
    BY <1>2 DEF Request
  <2> HIDE DEF r
  <2> QED
    BY <1>1, <1>2, <2>1 DEF ReqInv, Deciding
<1>6. /\ req' = [req EXCEPT ![a] = r]
      /\ UNCHANGED <<row, disputes, decisions, cases>>
  BY DEF CountEvents
<1> HIDE DEF r
<1> QED
  BY <1>4, <1>5, <1>6, LocalStep

\* A request whose version no longer matches was overtaken by a decision.
LEMMA LoseRaceStep ==
  ASSUME IInv, NEW a \in Requests, LoseRace(a)
  PROVE  IInv'
<1>1. req[a].pc = "commit"
  BY DEF LoseRace
<1>2. req[a] \in Request /\ ReqInv(req[a])
  BY <1>1, Engaged
<1> DEFINE r == [req[a] EXCEPT !.pc = "recheck", !.tracked = FALSE]
<1>3. r \in Request
  BY <1>2 DEF Request, PC
<1>4. decisions[req[a].wf] # <<>>
  BY <1>1, <1>2 DEF LoseRace, VersionMatches, ReqInv, Deciding
<1>5. ReqInv(r)
  <2>1. r.pc = "recheck" /\ r.wf = req[a].wf /\ r.want = req[a].want
    BY <1>2 DEF Request
  <2> HIDE DEF r
  <2> QED
    BY <1>1, <1>2, <1>4, <2>1 DEF ReqInv, Deciding
<1>6. /\ req' = [req EXCEPT ![a] = r]
      /\ UNCHANGED <<row, disputes, decisions, cases>>
  BY DEF LoseRace
<1> HIDE DEF r
<1> QED
  BY <1>3, <1>5, <1>6, LocalStep

\* The loser of a race finds a decision to compare with.
LEMMA DecisionWasRecordedStep ==
  ASSUME IInv, NEW a \in Requests, DecisionWasRecorded(a)
  PROVE  IInv'
<1>1. req[a].pc = "recheck"
  BY DEF DecisionWasRecorded
<1>2. req[a] \in Request /\ ReqInv(req[a])
  BY <1>1, Engaged
<1>3. Recorded(a) # <<>>
  BY <1>1, <1>2 DEF ReqInv, Recorded
<1> DEFINE r == [req[a] EXCEPT !.pc = Compared(a)]
<1>4. Goto(a, Compared(a)) /\ UNCHANGED <<row, disputes, decisions, cases>>
  BY <1>3 DEF DecisionWasRecorded
<1>5. \/ Compared(a) = "read" /\ decisions[req[a].wf] = <<req[a].want>>
      \/ /\ Compared(a) = "conflict"
         /\ \E d \in Decision \ {req[a].want} : decisions[req[a].wf] = <<d>>
  BY <1>1, <1>3, ComparedAnswer
<1>6. r.pc = Compared(a) /\ r.wf = req[a].wf /\ r.want = req[a].want
  BY <1>2 DEF Request
<1> HIDE DEF r
<1>7. ReqInv(r)
  BY <1>1, <1>2, <1>5, <1>6 DEF ReqInv, Deciding
<1>8. Compared(a) \in PC
  BY <1>5 DEF PC, Answer
<1> QED
  BY <1>1, <1>4, <1>7, <1>8, GotoStep DEF r

\* The last read changes the answer's contents and not its truth.
LEMMA ReadWorkflowStep ==
  ASSUME IInv, NEW a \in Requests, ReadWorkflow(a)
  PROVE  IInv'
<1>1. req[a].pc = "read"
  BY DEF ReadWorkflow
<1>2. req[a] \in Request /\ ReqInv(req[a]) /\ row[req[a].wf] \in Row
  BY <1>1, Engaged
<1> DEFINE reply == IF req[a].tracked
                    THEN [req[a].snap EXCEPT !.log = row[req[a].wf].log]
                    ELSE row[req[a].wf]
           r == [req[a] EXCEPT !.pc = "ok", !.reply = reply]
<1>3. reply \in Row
  BY <1>2 DEF Request, Row
<1>4. req' = [req EXCEPT ![a] = r] /\ UNCHANGED <<row, disputes, decisions, cases>>
  BY DEF ReadWorkflow
<1> HIDE DEF reply
<1>5. r \in Request
  BY <1>2, <1>3 DEF Request, PC, Answer
<1>6. ReqInv(r)
  <2>1. r.pc = "ok" /\ r.wf = req[a].wf /\ r.want = req[a].want
    BY <1>2 DEF Request
  <2> HIDE DEF r
  <2> QED
    BY <1>1, <1>2, <2>1 DEF ReqInv, Deciding
<1> HIDE DEF r
<1> QED
  BY <1>4, <1>5, <1>6, LocalStep

\* A request that ends forgets everything.
LEMMA AbortStep ==
  ASSUME IInv, NEW a \in Requests, Abort(a)
  PROVE  IInv'
BY IdleIsFine, LocalStep DEF Abort

-------------------------------------------------------------------------------
(* Steps that write a row.                                                 *)

\* A write to an undecided row undoes nothing another request relies on, if the
\* row was not waiting for a decision or the write is the decision.
LEMMA OthersUndisturbed ==
  ASSUME IInv, NEW w \in Workflows, decisions[w] = <<>>,
         NEW new \in Row, new.version = row[w].version + 1, NEW made,
         row' = [row EXCEPT ![w] = new],
         decisions' = [decisions EXCEPT ![w] = made],
         row[w].status # "WaitingForApproval" \/ made # <<>>,
         NEW b \in Requests, req'[b] = req[b]
  PROVE  ReqInv(req[b])'
<1> DEFINE r == req[b]
<1>1. /\ row[w] \in Row
      /\ \A u \in Workflows : /\ row'[u] = IF u = w THEN new ELSE row[u]
                              /\ decisions'[u] = IF u = w THEN made ELSE decisions[u]
  BY DEF IInv, TypeOK
<1>2. r \in Request /\ ReqInv(r)
  BY DEF IInv, TypeOK
<1>3. CASE r.pc = "idle"
  BY <1>3 DEF ReqInv, Deciding
<1>4. CASE r.pc # "idle" /\ r.wf # w
  <2>1. r.wf \in Workflows
    BY <1>2, <1>4 DEF ReqInv
  <2>2. row'[r.wf] = row[r.wf] /\ decisions'[r.wf] = decisions[r.wf]
    BY <1>1, <1>4, <2>1
  <2> QED
    BY <1>2, <2>2 DEF ReqInv
<1>5. CASE r.pc # "idle" /\ r.wf = w
  <2>1. r.pc \notin {"recheck", "stale", "read", "ok", "conflict"}
    BY <1>2, <1>5 DEF ReqInv
  <2>2. r.pc \in Deciding => row[w] = r.snap
    BY <1>2, <1>5 DEF ReqInv
  <2>3. /\ row[w].version \in Nat
        /\ new.version > row[w].version
    BY <1>1 DEF Row
  <2>4. r.pc \in Deciding =>
          r.snap.version < row'[w].version /\ decisions'[w] # <<>>
    BY <1>1, <1>2, <1>5, <2>2, <2>3 DEF ReqInv
  <2>5. r.pc = "commit" => row'[w] # r.snap
    BY <1>1, <2>2, <2>3 DEF Deciding
  <2> QED
    BY <1>2, <1>5, <2>1, <2>4, <2>5 DEF ReqInv
<1> QED
  BY <1>3, <1>4, <1>5

\* The rows that are not written keep what is known of them.
LEMMA OtherRows ==
  ASSUME IInv, NEW w \in Workflows, NEW new, NEW made, NEW opened,
         row' = [row EXCEPT ![w] = new],
         decisions' = [decisions EXCEPT ![w] = made],
         cases' = [cases EXCEPT ![w] = opened],
         UNCHANGED disputes,
         NEW u \in Workflows, u # w
  PROVE  RowInv(u)'
<1>1. /\ row'[u] = row[u]
      /\ decisions'[u] = decisions[u]
      /\ cases'[u] = cases[u]
  BY DEF IInv, TypeOK
<1> QED
  BY <1>1 DEF IInv, RowInv, Pristine, DecidedAs

\* A workflow that execution may still change has not been decided on.
LEMMA NotDecidedYet ==
  ASSUME IInv, NEW w \in Workflows,
         row[w].status \notin {"Completed", "Rejected"}
  PROVE  Pristine(w)
BY DEF IInv, RowInv, DecidedAs, DecidedStatus, Decision

\* A step of execution leaves a workflow without a trace of a decision.
LEMMA ExecutesStep ==
  ASSUME IInv, NEW w \in Workflows,
         NEW from \in {"Absent", "Draft", "Recovering"},
         NEW to \in {"Draft", "Recovering"} \cup Outcome,
         Executes(w, from, to)
  PROVE  IInv'
<1> DEFINE log == Append(row[w].log, "execution")
           new == Executed(row[w], to)
<1>1. Pristine(w)
  BY NotDecidedYet DEF Executes
<1>2. row[w] \in Row
  BY DEF IInv, TypeOK
<1>3. /\ row[w].status = from
      /\ row' = [row EXCEPT ![w] = new]
      /\ UNCHANGED <<disputes, decisions, cases, req>>
  BY DEF Executes
<1>4. /\ log \in Seq(EventType)
      /\ \A i \in DOMAIN log : log[i] = "execution"
  <2>1. row[w].log \in Seq(EventType) /\ "execution" \in EventType
    BY <1>2 DEF Row, EventType
  <2>2. /\ log \in Seq(EventType)
        /\ \A i \in DOMAIN log :
             \/ i \in DOMAIN row[w].log /\ log[i] = row[w].log[i]
             \/ log[i] = "execution"
    BY <2>1, AppendProperties
  <2> QED
    BY <1>1, <2>2 DEF Pristine
<1> HIDE DEF log
<1>5. /\ new \in Row
      /\ new.status = to
      /\ new.version = row[w].version + 1
      /\ new.decision = row[w].decision
      /\ new.log = log
  <2>1. to \in Status /\ row[w].version + 1 \in Nat
    BY <1>2 DEF Status, Row
  <2> QED
    BY <1>2, <1>4, <2>1 DEF Executed, Row, log
<1> HIDE DEF new
<1>6. TypeOK'
  BY <1>3, <1>5 DEF IInv, TypeOK
<1>7. row'[w] = new
  BY <1>3 DEF IInv, TypeOK
<1>8. Pristine(w)'
  BY <1>1, <1>3, <1>4, <1>5, <1>7 DEF Pristine, Outcome
<1>9. /\ decisions' = [decisions EXCEPT ![w] = decisions[w]]
      /\ cases' = [cases EXCEPT ![w] = cases[w]]
  BY <1>3 DEF IInv, TypeOK
<1>10. ASSUME NEW u \in Workflows PROVE RowInv(u)'
  <2>1. CASE u = w
    BY <1>8, <2>1 DEF RowInv
  <2>2. CASE u # w
    BY <1>3, <1>9, <2>2, OtherRows
  <2> QED
    BY <2>1, <2>2
<1>11. ASSUME NEW b \in Requests PROVE ReqInv(req[b])'
  <2>1. decisions[w] = <<>> /\ row[w].status # "WaitingForApproval"
    BY <1>1, <1>3 DEF Pristine
  <2>2. req'[b] = req[b]
    BY <1>3
  <2> QED
    BY <1>3, <1>5, <1>9, <2>1, <2>2, OthersUndisturbed
<1> QED
  BY <1>6, <1>10, <1>11 DEF IInv

\* A request whose version still matches commits on an undecided row, and
\* stores exactly the events of its decision.
LEMMA Committing ==
  ASSUME IInv, NEW a \in Requests, CommitDecision(a)
  PROVE  /\ req[a].wf \in Workflows
         /\ req[a].want \in Decision
         /\ row[req[a].wf] = req[a].snap
         /\ row[req[a].wf].status = "WaitingForApproval"
         /\ Pristine(req[a].wf)
         /\ row' = [row EXCEPT ![req[a].wf] =
              [status   |-> DecidedStatus(req[a].want),
               version  |-> row[req[a].wf].version + 1,
               decision |-> req[a].want,
               log      |-> row[req[a].wf].log \o DecisionEvents(a)]]
         /\ decisions' = [decisions EXCEPT ![req[a].wf] = <<req[a].want>>]
         /\ cases' = [cases EXCEPT ![req[a].wf] = IF OpensCase(a) THEN 1 ELSE 0]
<1> DEFINE w == req[a].wf
<1>1. req[a].pc = "commit" /\ VersionMatches(a)
  BY DEF CommitDecision
<1>2. /\ req[a] \in Request
      /\ ReqInv(req[a])
      /\ w \in Workflows
      /\ req[a].want \in Decision
      /\ row[w] \in Row
  BY <1>1, Engaged
<1>3. row[w] = req[a].snap
  <2>1. req[a].snap.version = row[w].version /\ row[w].version \in Nat
    BY <1>1, <1>2 DEF VersionMatches, Row
  <2> QED
    BY <1>1, <1>2, <2>1 DEF ReqInv, Deciding
<1>4. row[w].status = "WaitingForApproval" /\ req[a].count = Len(row[w].log)
  BY <1>1, <1>2, <1>3 DEF ReqInv, Deciding
<1>5. Pristine(w)
  BY <1>2, <1>4, NotDecidedYet
<1>6. /\ decisions[w] = <<>> /\ cases[w] = 0
      /\ Append(<<>>, req[a].want) = <<req[a].want>>
  BY <1>5 DEF Pristine
<1>7. row[w].log \o SubSeq(row[w].log \o DecisionEvents(a),
                           req[a].count + 1,
                           Len(row[w].log \o DecisionEvents(a)))
        = row[w].log \o DecisionEvents(a)
  <2>1. row[w].log \in Seq(EventType)
    BY <1>2 DEF Row
  <2>2. DecisionEvents(a) \in Seq(EventType)
    <3>1. /\ <<"approval">> \in Seq(EventType)
          /\ <<"approval", "action_completed">> \in Seq(EventType)
      BY DEF EventType
    <3> QED
      BY <3>1 DEF DecisionEvents
  <2> QED
    BY <1>4, <2>1, <2>2, AppendedExactly
<1>8. row' = [row EXCEPT ![w] =
         [status   |-> DecidedStatus(req[a].want),
          version  |-> row[w].version + 1,
          decision |-> req[a].want,
          log      |-> row[w].log \o DecisionEvents(a)]]
  BY <1>2, <1>3, <1>7 DEF CommitDecision, IInv, TypeOK
<1>9. decisions' = [decisions EXCEPT ![w] = <<req[a].want>>]
  BY <1>2, <1>6 DEF CommitDecision, IInv, TypeOK
<1>10. cases' = [cases EXCEPT ![w] = IF OpensCase(a) THEN 1 ELSE 0]
  BY <1>2, <1>6 DEF CommitDecision, IInv, TypeOK
<1> QED
  BY <1>2, <1>3, <1>4, <1>5, <1>8, <1>9, <1>10

\* A commit leaves the five traces of one decision and disturbs no other request.
LEMMA CommitDecisionStep ==
  ASSUME IInv, NEW a \in Requests, CommitDecision(a)
  PROVE  IInv'
<1> PICK w \in Workflows, d \in Decision : w = req[a].wf /\ d = req[a].want
  BY Committing
<1> DEFINE log == row[w].log \o DecisionEvents(a)
           new == [status |-> DecidedStatus(d), version |-> row[w].version + 1,
                   decision |-> d, log |-> log]
           opened == IF OpensCase(a) THEN 1 ELSE 0
           r == [req[a] EXCEPT !.pc = "read", !.tracked = FALSE]
<1>1. /\ row[w].status = "WaitingForApproval"
      /\ Pristine(w)
      /\ row' = [row EXCEPT ![w] = new]
      /\ decisions' = [decisions EXCEPT ![w] = <<d>>]
      /\ cases' = [cases EXCEPT ![w] = opened]
  BY Committing
<1>2. /\ req' = [req EXCEPT ![a] = r]
      /\ UNCHANGED disputes
      /\ req[a].pc = "commit"
  BY DEF CommitDecision
<1>3. row[w] \in Row /\ req[a] \in Request
  BY <1>1 DEF IInv, TypeOK
<1>4. /\ log \in Seq(EventType)
      /\ CountOf("approval", log) = 1
      /\ CountOf("action_completed", log) = opened
  <2>1. /\ row[w].log \in Seq(EventType)
        /\ \A i \in DOMAIN row[w].log : row[w].log[i] = "execution"
    BY <1>1, <1>3 DEF Row, Pristine
  <2>2. /\ DecisionEvents(a) \in {<<"approval">>, <<"approval", "action_completed">>}
        /\ Len(DecisionEvents(a)) - 1 = opened
    BY DEF DecisionEvents
  <2> QED
    BY <2>1, <2>2, DecisionCounts
<1>5. opened = IF d = "approve" /\ w \in disputes THEN 1 ELSE 0
  BY DEF OpensCase
<1>6. DecidedStatus(d) \in Status
  BY DEF DecidedStatus, Status, Outcome
<1> HIDE DEF log, opened
<1>7. /\ new \in Row
      /\ new.version = row[w].version + 1
      /\ new.status = DecidedStatus(d)
      /\ new.decision = d
      /\ new.log = log
  BY <1>1, <1>3, <1>4, <1>6 DEF Row
<1> HIDE DEF new
<1>8. r \in Request /\ r.pc = "read" /\ r.wf = w /\ r.want = d
  BY <1>3 DEF Request, PC
<1> HIDE DEF r
<1>9. /\ row'[w] = new
      /\ decisions'[w] = <<d>>
      /\ cases'[w] = opened
  BY <1>1 DEF IInv, TypeOK
<1>10. TypeOK'
  <2>1. <<d>> \in Seq(Decision) /\ opened \in Nat
    BY <1>1 DEF opened
  <2> QED
    BY <1>1, <1>2, <1>7, <1>8, <2>1 DEF IInv, TypeOK
<1>11. DecidedAs(w, d)'
  BY <1>2, <1>4, <1>5, <1>7, <1>9 DEF DecidedAs
<1>12. ASSUME NEW u \in Workflows PROVE RowInv(u)'
  <2>1. CASE u = w
    BY <1>1, <1>11, <2>1 DEF RowInv
  <2>2. CASE u # w
    BY <1>1, <1>2, <2>2, OtherRows
  <2> QED
    BY <2>1, <2>2
<1>13. ASSUME NEW b \in Requests PROVE ReqInv(req[b])'
  <2>1. CASE b = a
    <3>1. req'[a] = r
      BY <1>2 DEF IInv, TypeOK
    <3>2. req'[a].pc = "read" /\ req'[a].wf = w /\ req'[a].want = d
      BY <1>8, <3>1
    <3> QED
      BY <1>1, <1>9, <2>1, <3>2 DEF ReqInv, Deciding
  <2>2. CASE b # a
    <3>1. req'[b] = req[b]
      BY <1>2, <2>2 DEF IInv, TypeOK
    <3>2. decisions[w] = <<>> /\ <<d>> # <<>>
      BY <1>1 DEF Pristine
    <3> QED
      BY <1>1, <1>7, <3>1, <3>2, OthersUndisturbed
  <2> QED
    BY <2>1, <2>2
<1> QED
  BY <1>10, <1>12, <1>13 DEF IInv

-------------------------------------------------------------------------------
(* The theorems.                                                           *)

\* The initial state satisfies the inductive invariant.
LEMMA InitSatisfies ==
  Init => IInv
<1> SUFFICES ASSUME Init PROVE IInv
  OBVIOUS
<1>1. TypeOK
  <2>1. <<>> \in Seq(Decision)
    OBVIOUS
  <2> QED
    BY <2>1, IdleIsFine DEF Init, TypeOK
<1>2. \A w \in Workflows : RowInv(w)
  BY DEF Init, RowInv, Pristine, AbsentRow
<1>3. \A a \in Requests : ReqInv(req[a])
  BY DEF Init, ReqInv, Idle, Deciding
<1> QED
  BY <1>1, <1>2, <1>3 DEF IInv

\* Every step of the specification preserves the inductive invariant.
LEMMA StepPreserves ==
  IInv /\ [Next]_vars => IInv'
<1> SUFFICES ASSUME IInv, [Next]_vars PROVE IInv'
  OBVIOUS
<1>1. CASE \E w \in Workflows : Execution(w)
  <2>1. PICK w \in Workflows : Execution(w)
    BY <1>1
  <2>2. CASE Executes(w, "Absent", "Draft")
    BY <2>2, ExecutesStep
  <2>3. CASE Executes(w, "Draft", "Recovering")
    BY <2>3, ExecutesStep
  <2>4. CASE \E to \in Outcome : Executes(w, "Recovering", to)
    BY <2>4, ExecutesStep
  <2> QED
    BY <2>1, <2>2, <2>3, <2>4 DEF Execution
<1>2. CASE \E a \in Requests, w \in Workflows, d \in Decision : ApproveAsync(a, w, d)
  BY <1>2, ApproveAsyncStep
<1>3. CASE \E a \in Requests : Step(a)
  BY <1>3, FindDecisionStep, CheckVersionStep, CountEventsStep, CommitDecisionStep,
     LoseRaceStep, DecisionWasRecordedStep, ReadWorkflowStep DEF Step
<1>4. CASE \E a \in Requests : Abort(a)
  BY <1>4, AbortStep
<1>5. CASE UNCHANGED vars
  BY <1>5 DEF vars, IInv, TypeOK, RowInv, Pristine, DecidedAs, ReqInv
<1> QED
  BY <1>1, <1>2, <1>3, <1>4, <1>5 DEF Next

\* The inductive invariant holds in every reachable state.
THEOREM InductiveInvariant == Spec => []IInv
<1>1. Init => IInv
  BY InitSatisfies
<1>2. IInv /\ [Next]_vars => IInv'
  BY StepPreserves
<1> QED
  BY <1>1, <1>2, PTL DEF Spec

\* The tables and the memory of the requests keep their types.
THEOREM TypeCorrect == Spec => []TypeOK
<1>1. IInv => TypeOK
  BY DEF IInv
<1> QED
  BY <1>1, InductiveInvariant, PTL

\* Status, decision column, decisions table, event log and support case agree
\* on every workflow, for any number of requests racing to decide on it.
THEOREM RecordsAgree == Spec => []DecisionRecordsAgree
<1>1. IInv => DecisionRecordsAgree
  BY PristineAgrees DEF IInv, RowInv, DecisionRecordsAgree
<1> QED
  BY <1>1, InductiveInvariant, PTL

\* A request is told "ok", "conflict" or "stale" only when that is true of the
\* decisions table, at the answer and ever after.
THEOREM AnswersTrue == Spec => []AnswersAreTrue
<1>1. IInv => AnswersAreTrue
  <2> SUFFICES ASSUME IInv, NEW a \in Requests
               PROVE  /\ req[a].pc = "ok" => decisions[req[a].wf] = <<req[a].want>>
                      /\ req[a].pc = "conflict" =>
                           decisions[req[a].wf] \in
                             {<<d>> : d \in Decision \ {req[a].want}}
                      /\ req[a].pc = "stale" => decisions[req[a].wf] # <<>>
    BY DEF AnswersAreTrue
  <2>1. ReqInv(req[a])
    BY DEF IInv
  <2> QED
    BY <2>1 DEF ReqInv
<1> QED
  BY <1>1, InductiveInvariant, PTL

\* No step of any request or of execution touches a workflow that is decided.
LEMMA FinalStep ==
  ASSUME IInv, [Next]_vars, NEW w \in Workflows, decisions[w] # <<>>
  PROVE  UNCHANGED <<row[w], decisions[w], cases[w]>>
<1>1. ~Pristine(w)
  BY DEF Pristine
<1>2. ASSUME NEW u \in Workflows, Execution(u)
      PROVE  UNCHANGED <<row[w], decisions[w], cases[w]>>
  <2>1. row[u].status \in {"Absent", "Draft", "Recovering"}
    BY <1>2 DEF Execution, Executes
  <2>2. u # w
    BY <1>1, <2>1, NotDecidedYet
  <2>3. /\ \E v : row' = [row EXCEPT ![u] = v]
        /\ UNCHANGED <<decisions, cases>>
    BY <1>2 DEF Execution, Executes
  <2> QED
    BY <2>2, <2>3 DEF IInv, TypeOK
<1>3. ASSUME NEW a \in Requests, CommitDecision(a)
      PROVE  UNCHANGED <<row[w], decisions[w], cases[w]>>
  <2>1. req[a].wf # w
    BY <1>1, <1>3, Committing
  <2> QED
    BY <1>3, <2>1, Committing DEF IInv, TypeOK
<1>4. CASE UNCHANGED <<row, decisions, cases>>
  BY <1>4
<1>5. \/ \E u \in Workflows : Execution(u)
      \/ \E a \in Requests : CommitDecision(a)
      \/ UNCHANGED <<row, decisions, cases>>
  BY DEF Next, Step, vars, ApproveAsync, FindDecision, CheckVersion, CountEvents,
         LoseRace, DecisionWasRecorded, ReadWorkflow, Abort
<1> QED
  BY <1>2, <1>3, <1>4, <1>5

\* A recorded decision is never changed, repeated or undone.
THEOREM DecisionFinal == Spec => DecisionIsFinal
<1>1. IInv /\ [Next]_vars =>
        [\A w \in Workflows :
           decisions[w] # <<>> =>
             UNCHANGED <<row[w], decisions[w], cases[w]>>]_vars
  BY FinalStep
<1> QED
  BY <1>1, InductiveInvariant, PTL DEF Spec, DecisionIsFinal

\* Seen from outside, the three steps of execution and the commit of a decision
\* are steps of WorkflowLifecycle, and nothing else a request does is visible.
THEOREM LifecycleRefined == Spec => ImplementsLifecycle
<1> DEFINE status   == [w \in Workflows |-> row[w].status]
           attempts == [w \in Workflows |-> 0]
           decision == [w \in Workflows |-> row[w].decision]
<1>1. Init => Lifecycle!Init
  BY DEF Init, AbsentRow, Lifecycle!Init
<1>2. ASSUME IInv, [Next]_vars
      PROVE  [Lifecycle!Next]_(Lifecycle!vars)
  <2>1. row \in [Workflows -> Row]
    BY <1>2 DEF IInv, TypeOK
  <2>2. attempts' = attempts
    OBVIOUS
  <2> HIDE DEF status, attempts, decision
  <2>3. CASE row' = row
    BY <2>3 DEF Lifecycle!vars, status, attempts, decision
  <2>4. ASSUME NEW w \in Workflows, NEW from, NEW to \in Status,
               Executes(w, from, to)
        PROVE  /\ status[w] = from
               /\ status' = [status EXCEPT ![w] = to]
               /\ decision' = decision
    <3>1. Executed(row[w], to).status = to
      BY <2>1 DEF Executed, Row
    <3>2. Executed(row[w], to).decision = row[w].decision
      BY <2>1 DEF Executed, Row
    <3>3. row' = [row EXCEPT ![w] = Executed(row[w], to)]
      BY <2>1, <2>4 DEF Executes
    <3>4. \A v \in Workflows :
            /\ row'[v].status = IF v = w THEN to ELSE row[v].status
            /\ row'[v].decision = row[v].decision
      BY <2>1, <3>1, <3>2, <3>3
    <3>5. status' = [status EXCEPT ![w] = to]
      BY <3>4 DEF status
    <3>6. decision' = decision
      BY <3>4 DEF decision
    <3>7. status[w] = from
      BY <2>4 DEF Executes, status
    <3> QED
      BY <3>5, <3>6, <3>7
  <2>5. ASSUME NEW w \in Workflows, Execution(w)
        PROVE  Lifecycle!Next
    <3>1. CASE Executes(w, "Absent", "Draft")
      <4>1. Lifecycle!Submit(w)
        BY <2>2, <2>4, <3>1
        DEF Lifecycle!Submit, Status, status, attempts, decision
      <4> QED
        BY <4>1 DEF Lifecycle!Next
    <3>2. CASE Executes(w, "Draft", "Recovering")
      <4>1. Lifecycle!PickUp(w)
        BY <2>2, <2>4, <3>2
        DEF Lifecycle!PickUp, Status, status, attempts, decision
      <4> QED
        BY <4>1 DEF Lifecycle!Next
    <3>3. ASSUME NEW to \in Outcome, Executes(w, "Recovering", to)
          PROVE  Lifecycle!Next
      <4>1. /\ status' = [status EXCEPT ![w] = to]
            /\ decision' = decision
            /\ status[w] = "Recovering"
            /\ attempts' = attempts
        BY <2>2, <2>4, <3>3 DEF Outcome, Status, attempts
      <4>2. to \in Lifecycle!Outcome
        BY DEF Outcome, Lifecycle!Outcome
      <4>3. \E s \in Lifecycle!Outcome : status' = [status EXCEPT ![w] = s]
        BY <4>1, <4>2
      <4>4. Lifecycle!Finish(w)
        BY <4>1, <4>3, Zenon DEF Lifecycle!Finish, status, attempts, decision
      <4> QED
        BY <4>4 DEF Lifecycle!Next
    <3> QED
      BY <2>5, <3>1, <3>2, <3>3 DEF Execution
  <2>6. ASSUME NEW a \in Requests, CommitDecision(a)
        PROVE  Lifecycle!Next
    <3>1. PICK w \in Workflows, d \in Decision : w = req[a].wf /\ d = req[a].want
      BY <1>2, <2>6, Committing
    <3>2. PICK r : r = [status |-> DecidedStatus(d), version |-> row[w].version + 1,
                        decision |-> d, log |-> row[w].log \o DecisionEvents(a)]
      OBVIOUS
    <3>3. row' = [row EXCEPT ![w] = r] /\ row[w].status = "WaitingForApproval"
      BY <1>2, <2>6, <3>1, <3>2, Committing
    <3>4. r.status = DecidedStatus(d) /\ r.decision = d
      BY <3>2
    <3>5. \A v \in Workflows :
            /\ row'[v].status = IF v = w THEN DecidedStatus(d) ELSE row[v].status
            /\ row'[v].decision = IF v = w THEN d ELSE row[v].decision
      BY <2>1, <3>3, <3>4
    <3>6. status' = [status EXCEPT ![w] = DecidedStatus(d)]
      BY <3>5 DEF status
    <3>7. decision' = [decision EXCEPT ![w] = d]
      BY <3>5 DEF decision
    <3>8. status[w] = "WaitingForApproval"
      BY <3>3 DEF status
    <3>9. Lifecycle!Decide(w)
      BY <2>2, <3>6, <3>7, <3>8
      DEF Lifecycle!Decide, Decision, DecidedStatus, status, attempts, decision
    <3> QED
      BY <3>9 DEF Lifecycle!Next
  <2>7. \/ row' = row
        \/ \E w \in Workflows : Execution(w)
        \/ \E a \in Requests : CommitDecision(a)
    BY <1>2
    DEF Next, Step, vars, ApproveAsync, FindDecision, CheckVersion, CountEvents,
        LoseRace, DecisionWasRecorded, ReadWorkflow, Abort
  <2> QED
    BY <2>3, <2>5, <2>6, <2>7
<1> QED
  BY <1>1, <1>2, InductiveInvariant, PTL
  DEF Spec, ImplementsLifecycle, Lifecycle!Safety
===============================================================================
