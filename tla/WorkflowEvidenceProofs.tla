------------------------- MODULE WorkflowEvidenceProofs -------------------------
(***************************************************************************)
(* The safety of WorkflowEvidence for any number of workflows, uploads and *)
(* contents.                                                               *)
(*                                                                         *)
(* What an upload checked in its list step may be outdated when it         *)
(* inserts.  Duplicates are excluded all the same, by the unique index;    *)
(* the limit is kept only while no two uploads are in progress at once.    *)
(***************************************************************************)
EXTENDS WorkflowEvidence, TLAPS, SequenceTheorems

-------------------------------------------------------------------------------
(* The inductive invariant.                                                *)

Distinct(s) == \A i, j \in DOMAIN s : s[i] = s[j] => i = j

\* A trigger task for a workflow that announced files only exists once some are
\* stored.
TriggerInv(w) ==
  w \in triggers =>
    /\ status[w] # "Absent"
    /\ expects[w] => files[w] # <<>>

StoresNothing(u) == \A w \in Workflows : StoredBy(u, w) = {}

UploadInv(u) ==
  /\ up[u].pc # "idle" =>
       /\ up[u].wf \in Workflows
       /\ up[u].batch \in Batches
       /\ status[up[u].wf] # "Absent"
  /\ up[u].pc \in {"idle", "list", "insert", "rejected"} => StoresNothing(u)
  /\ up[u].pc = "insert" => Distinct(up[u].batch)
  /\ up[u].pc \in {"trigger", "ok"} =>
       /\ StoredBy(u, up[u].wf) = Sent(u)
       /\ files[up[u].wf] # <<>>
  /\ \A w \in Workflows :
       StoredBy(u, w) \in IF up[u].wf = w THEN {{}, Sent(u)} ELSE {{}}

\* As long as uploads are made one after the other.
SerialInv ==
  ~overlap =>
    /\ AtMostMaximumFiles
    /\ \A u, v \in InProgress : u = v
    /\ \A u \in Uploads :
         up[u].pc = "insert" =>
           Len(files[up[u].wf]) + Len(up[u].batch) <= MaximumFiles

IInv ==
  /\ TypeOK
  /\ NoDuplicateContent
  /\ \A w \in Workflows : TriggerInv(w)
  /\ \A u \in Uploads : UploadInv(u)
  /\ SerialInv

-------------------------------------------------------------------------------
(* Batches and rows.                                                       *)

\* A batch is a sequence of at least one and at most MaximumFiles contents.
LEMMA BatchIsSeq ==
  ASSUME NEW b \in Batches
  PROVE  /\ b \in Seq(Contents)
         /\ Len(b) \in Nat \ {0}
         /\ DOMAIN b = 1..Len(b)
<1>1. PICK n \in 1..MaximumFiles : b \in [1..n -> Contents]
  BY DEF Batches
<1>2. n \in Nat /\ MaximumFiles \in Nat
  BY <1>1, EvidenceAssumption
<1>3. b \in Seq(Contents) /\ Len(b) = n
  BY <1>1, <1>2
<1> QED
  BY <1>1, <1>2, <1>3

\* The rows of a request carry its contents, in order, and its name.
LEMMA RowsProperties ==
  ASSUME NEW u \in Uploads, up[u].batch \in Batches
  PROVE  /\ RowsOf(u) \in Seq(File)
         /\ Len(RowsOf(u)) = Len(up[u].batch)
         /\ \A i \in 1..Len(up[u].batch) :
              RowsOf(u)[i] = [content |-> up[u].batch[i], by |-> u]
<1> PICK b : b = up[u].batch
  OBVIOUS
<1> DEFINE rows == [i \in 1..Len(b) |-> [content |-> b[i], by |-> u]]
<1>1. /\ b \in Seq(Contents) /\ Len(b) \in Nat /\ DOMAIN b = 1..Len(b)
  BY BatchIsSeq, EvidenceAssumption
<1>2. \A i \in 1..Len(b) : b[i] \in Contents
  BY <1>1
<1>3. \A i \in 1..Len(b) : [content |-> b[i], by |-> u] \in File
  BY <1>2 DEF File
<1>4. rows \in Seq(File) /\ Len(rows) = Len(b)
  BY <1>1, <1>3
<1>5. RowsOf(u) = rows
  BY <1>1 DEF RowsOf
<1> QED
  BY <1>4, <1>5

-------------------------------------------------------------------------------
(* Steps that leave the evidence table alone.                              *)

\* What a request has stored is still there when neither it nor the table moves.
LEMMA UploadKept ==
  ASSUME NEW u \in Uploads, UploadInv(u), up'[u] = up[u], files' = files,
         \A w \in Workflows : status[w] # "Absent" => status'[w] # "Absent"
  PROVE  UploadInv(u)'
<1>1. /\ \A w \in Workflows : StoredBy(u, w)' = StoredBy(u, w)
      /\ Sent(u)' = Sent(u)
  BY DEF StoredBy, Sent
<1>2. StoresNothing(u)' <=> StoresNothing(u)
  BY <1>1 DEF StoresNothing
<1>3. up[u].pc # "idle" => up[u].wf \in Workflows
  BY DEF UploadInv
<1>4. up[u].pc \in {"trigger", "ok"} =>
        StoredBy(u, up[u].wf)' = Sent(u)' /\ files'[up[u].wf] # <<>>
  BY <1>1, <1>3 DEF UploadInv
<1>5. \A w \in Workflows :
        StoredBy(u, w)' \in IF up[u].wf = w THEN {{}, Sent(u)'} ELSE {{}}
  BY <1>1 DEF UploadInv
<1> QED
  BY <1>2, <1>3, <1>4, <1>5 DEF UploadInv

\* A step of submission, of a trigger or of execution.
LEMMA EnvironmentKeeps ==
  ASSUME IInv, TypeOK', UNCHANGED <<up, files, overlap>>,
         \A w \in Workflows : TriggerInv(w)',
         \A w \in Workflows : status[w] # "Absent" => status'[w] # "Absent"
  PROVE  IInv'
<1>1. NoDuplicateContent'
  BY DEF IInv, NoDuplicateContent
<1>2. \A u \in Uploads : UploadInv(u)'
  BY UploadKept DEF IInv
<1>3. SerialInv'
  BY DEF IInv, SerialInv, AtMostMaximumFiles, InProgress
<1> QED
  BY <1>1, <1>2, <1>3 DEF IInv

\* A step of one upload request that stores nothing.
LEMMA UploadKeeps ==
  ASSUME IInv, NEW u \in Uploads, NEW r \in Upload,
         up' = [up EXCEPT ![u] = r],
         UNCHANGED <<execution, disputes, expects, files>>,
         overlap' \in BOOLEAN,
         triggers' \subseteq Workflows,
         \A w \in Workflows : TriggerInv(w)',
         UploadInv(u)',
         SerialInv'
  PROVE  IInv'
<1>1. TypeOK'
  BY DEF IInv, TypeOK, execution, Lifecycle!TypeOK
<1>2. NoDuplicateContent'
  BY DEF IInv, NoDuplicateContent
<1>3. ASSUME NEW v \in Uploads PROVE UploadInv(v)'
  <2>1. CASE v = u
    BY <2>1
  <2>2. CASE v # u
    <3>1. up'[v] = up[v]
      BY <2>2 DEF IInv, TypeOK
    <3> QED
      BY <3>1, UploadKept DEF IInv, execution
  <2> QED
    BY <2>1, <2>2
<1> QED
  BY <1>1, <1>2, <1>3 DEF IInv

\* The trigger tasks of a workflow do not depend on the upload requests.
LEMMA TriggersKept ==
  ASSUME IInv, UNCHANGED <<status, expects, files, triggers>>
  PROVE  \A w \in Workflows : TriggerInv(w)'
BY DEF IInv, TriggerInv

\* A workflow that appears has no trigger yet, and gets one only when no files
\* are to follow.
LEMMA SubmitStep ==
  ASSUME IInv, NEW w \in Workflows, NEW e \in BOOLEAN, Submit(w, e)
  PROVE  IInv'
<1>1. /\ status[w] = "Absent"
      /\ status' = [status EXCEPT ![w] = "Draft"]
      /\ expects' = [expects EXCEPT ![w] = e]
      /\ triggers' = IF ~e THEN triggers \cup {w} ELSE triggers
      /\ UNCHANGED <<attempts, decision, disputes, files, up, overlap>>
  BY DEF Submit, Lifecycle!Submit, TriggersAtOnce
<1>2. TypeOK'
  BY <1>1 DEF IInv, TypeOK, Lifecycle!TypeOK, Lifecycle!Statuses
<1>3. \A v \in Workflows : status[v] # "Absent" => status'[v] # "Absent"
  BY <1>1 DEF IInv, TypeOK, Lifecycle!TypeOK
<1>4. ASSUME NEW v \in Workflows PROVE TriggerInv(v)'
  <2>1. CASE v = w
    <3>1. w \notin triggers
      BY <1>1 DEF IInv, TriggerInv
    <3>2. status'[w] = "Draft" /\ expects'[w] = e
      BY <1>1 DEF IInv, TypeOK, Lifecycle!TypeOK
    <3> QED
      BY <1>1, <2>1, <3>1, <3>2 DEF TriggerInv
  <2>2. CASE v # w
    <3>1. status'[v] = status[v] /\ expects'[v] = expects[v]
      BY <1>1, <2>2 DEF IInv, TypeOK, Lifecycle!TypeOK
    <3>2. v \in triggers' <=> v \in triggers
      BY <1>1, <2>2
    <3> QED
      BY <1>1, <3>1, <3>2 DEF IInv, TriggerInv
  <2> QED
    BY <2>1, <2>2
<1> QED
  BY <1>1, <1>2, <1>3, <1>4, EnvironmentKeeps

\* Execution as the lifecycle has it: no workflow becomes absent again.
LEMMA LifecycleKeeps ==
  ASSUME IInv, NEW w \in Workflows,
         \/ Lifecycle!PickUp(w) \/ Lifecycle!Recover(w)
         \/ Lifecycle!Finish(w) \/ Lifecycle!Decide(w)
         \/ UNCHANGED execution
  PROVE  /\ Lifecycle!TypeOK'
         /\ \A v \in Workflows : status[v] # "Absent" => status'[v] # "Absent"
<1>1. Lifecycle!TypeOK /\ MaxAttempts \in Nat
  BY EvidenceAssumption DEF IInv, TypeOK
<1>2. CASE Lifecycle!PickUp(w)
  BY <1>1, <1>2 DEF Lifecycle!PickUp, Lifecycle!TypeOK, Lifecycle!Statuses
<1>3. CASE Lifecycle!Recover(w)
  <2>1. attempts[w] + 1 \in 0..MaxAttempts
    BY <1>1, <1>3 DEF Lifecycle!Recover, Lifecycle!TypeOK
  <2> QED
    BY <1>1, <1>3, <2>1
    DEF Lifecycle!Recover, Lifecycle!TypeOK, Lifecycle!Statuses
<1>4. CASE Lifecycle!Finish(w)
  BY <1>1, <1>4
  DEF Lifecycle!Finish, Lifecycle!TypeOK, Lifecycle!Statuses, Lifecycle!Outcome
<1>5. CASE Lifecycle!Decide(w)
  BY <1>1, <1>5
  DEF Lifecycle!Decide, Lifecycle!TypeOK, Lifecycle!Statuses, Lifecycle!Outcome
<1>6. CASE UNCHANGED execution
  BY <1>1, <1>6 DEF execution, Lifecycle!TypeOK
<1> QED
  BY <1>2, <1>3, <1>4, <1>5, <1>6

\* A trigger, its loss, the worker and the course of an execution.
LEMMA ExecutionStep ==
  ASSUME IInv, NEW w \in Workflows,
         RunTrigger(w) \/ LoseTrigger(w) \/ RecoverByWorker(w) \/ Execution(w)
  PROVE  IInv'
<1>1. /\ \/ Lifecycle!PickUp(w) \/ Lifecycle!Recover(w)
         \/ Lifecycle!Finish(w) \/ Lifecycle!Decide(w)
         \/ UNCHANGED execution
      /\ triggers' \subseteq triggers
      /\ UNCHANGED <<disputes, expects, files, up, overlap>>
  BY DEF RunTrigger, LoseTrigger, RecoverByWorker, Execution
<1>2. /\ Lifecycle!TypeOK'
      /\ \A v \in Workflows : status[v] # "Absent" => status'[v] # "Absent"
  BY <1>1, LifecycleKeeps
<1>3. TypeOK'
  BY <1>1, <1>2 DEF IInv, TypeOK
<1>4. \A v \in Workflows : TriggerInv(v)'
  BY <1>1, <1>2 DEF IInv, TriggerInv
<1> QED
  BY <1>1, <1>2, <1>3, <1>4, EnvironmentKeeps

-------------------------------------------------------------------------------
(* The steps of an upload request.                                         *)

\* A request that begins has stored nothing yet, and it is alone or overlaps.
LEMMA BeginUploadStep ==
  ASSUME IInv, NEW u \in Uploads, NEW w \in Workflows, NEW batch \in Batches,
         BeginUpload(u, w, batch)
  PROVE  IInv'
<1> DEFINE pc == IF w \in disputes THEN "list" ELSE "rejected"
           r == [pc |-> pc, wf |-> w, batch |-> batch]
<1>1. /\ up[u].pc = "idle" /\ status[w] # "Absent"
      /\ up' = [up EXCEPT ![u] = r]
      /\ overlap' = (overlap \/ InProgress # {})
      /\ UNCHANGED <<execution, disputes, expects, triggers, files>>
  BY DEF BeginUpload
<1>2. pc \in {"list", "rejected"}
  OBVIOUS
<1> HIDE DEF pc
<1>3. r \in Upload
  BY <1>2 DEF Upload, PC, Answer
<1>4. r.pc = pc /\ r.wf = w /\ r.batch = batch
  OBVIOUS
<1> HIDE DEF r
<1>5. up'[u] = r /\ \A v \in Uploads : v # u => up'[v] = up[v]
  BY <1>1 DEF IInv, TypeOK
<1>6. StoresNothing(u)'
  <2>1. StoresNothing(u)
    BY <1>1 DEF IInv, UploadInv
  <2> QED
    BY <1>1, <2>1 DEF StoresNothing, StoredBy
<1>7. UploadInv(u)'
  <2>1. status'[w] # "Absent"
    BY <1>1 DEF execution
  <2> QED
    BY <1>2, <1>4, <1>5, <1>6, <2>1 DEF UploadInv, StoresNothing
<1>8. SerialInv'
  <2>1. CASE overlap \/ InProgress # {}
    BY <1>1, <2>1 DEF SerialInv
  <2>2. CASE ~overlap /\ InProgress = {}
    <3>1. \A v \in Uploads : up[v].pc \notin {"list", "insert", "trigger"}
      BY <2>2 DEF InProgress
    <3>2. \A v \in Uploads : v # u => v \notin InProgress'
      BY <1>5, <3>1 DEF InProgress
    <3>3. \A v \in Uploads : up'[v].pc # "insert"
      BY <1>2, <1>4, <1>5, <3>1
    <3>4. AtMostMaximumFiles'
      BY <1>1, <2>2 DEF IInv, SerialInv, AtMostMaximumFiles
    <3>5. InProgress' \subseteq Uploads
      BY DEF InProgress
    <3> QED
      BY <3>2, <3>3, <3>4, <3>5 DEF SerialInv
  <2> QED
    BY <2>1, <2>2
<1>9. overlap' \in BOOLEAN /\ triggers' \subseteq Workflows
  BY <1>1 DEF IInv, TypeOK
<1>10. \A v \in Workflows : TriggerInv(v)'
  BY <1>1, TriggersKept DEF execution
<1> QED
  BY <1>1, <1>3, <1>7, <1>8, <1>9, <1>10, UploadKeeps

\* A request that goes on to another place, storing nothing, starts nothing that
\* was not in progress.
LEMMA GotoKeeps ==
  ASSUME IInv, NEW u \in InProgress, NEW pc \in PC \ {"idle"}, Goto(u, pc),
         UNCHANGED <<execution, disputes, expects, files, overlap>>,
         triggers' \subseteq Workflows,
         \A w \in Workflows : TriggerInv(w)',
         pc \in {"list", "insert", "rejected"} => StoresNothing(u),
         pc \in {"trigger", "ok"} => up[u].pc = "trigger",
         pc = "insert" => Accepts(files[up[u].wf], up[u].batch)
  PROVE  IInv'
<1> DEFINE r == [up[u] EXCEPT !.pc = pc]
<1>1. u \in Uploads /\ up[u].pc \in {"list", "insert", "trigger"}
  BY DEF InProgress
<1>2. up[u] \in Upload /\ UploadInv(u)
  BY <1>1 DEF IInv, TypeOK
<1>3. up' = [up EXCEPT ![u] = r]
  BY DEF Goto
<1>4. r \in Upload /\ r.pc = pc /\ r.wf = up[u].wf /\ r.batch = up[u].batch
  BY <1>2 DEF Upload
<1> HIDE DEF r
<1>5. up'[u] = r /\ \A v \in Uploads : v # u => up'[v] = up[v]
  BY <1>1, <1>3 DEF IInv, TypeOK
<1>6. /\ \A w \in Workflows : StoredBy(u, w)' = StoredBy(u, w)
      /\ Sent(u)' = Sent(u)
  BY <1>4, <1>5 DEF StoredBy, Sent
<1>7. pc = "insert" => Distinct(up[u].batch)
  BY DEF Accepts, Distinct
<1>8. /\ up[u].wf \in Workflows
      /\ up[u].batch \in Batches
      /\ status'[up[u].wf] # "Absent"
  BY <1>1, <1>2 DEF UploadInv, execution
<1>9. UploadInv(u)'
  <2>1. StoresNothing(u)' <=> StoresNothing(u)
    BY <1>6 DEF StoresNothing
  <2>2. pc \in {"trigger", "ok"} =>
          StoredBy(u, up[u].wf)' = Sent(u)' /\ files'[up[u].wf] # <<>>
    <3> SUFFICES ASSUME pc \in {"trigger", "ok"}
                 PROVE  StoredBy(u, up[u].wf)' = Sent(u)' /\ files'[up[u].wf] # <<>>
      OBVIOUS
    <3> PICK w \in Workflows : w = up[u].wf
      BY <1>8
    <3>1. StoredBy(u, w) = Sent(u) /\ files[w] # <<>>
      BY <1>2 DEF UploadInv
    <3>2. StoredBy(u, up[u].wf)' = StoredBy(u, w)'
      BY <1>4, <1>5 DEF StoredBy
    <3> QED
      BY <1>6, <3>1, <3>2
  <2>3. \A w \in Workflows :
          StoredBy(u, w)' \in IF up[u].wf = w THEN {{}, Sent(u)'} ELSE {{}}
    BY <1>2, <1>6 DEF UploadInv
  <2> QED
    BY <1>4, <1>5, <1>7, <1>8, <2>1, <2>2, <2>3 DEF UploadInv
<1>10. SerialInv'
  <2> SUFFICES ASSUME ~overlap PROVE SerialInv'
    BY DEF SerialInv
  <2>1. SerialInv
    BY DEF IInv
  <2>2. AtMostMaximumFiles'
    BY <2>1 DEF SerialInv, AtMostMaximumFiles
  <2>3. InProgress' \subseteq InProgress
    BY <1>1, <1>5 DEF InProgress
  <2>4. ASSUME NEW v \in Uploads, up'[v].pc = "insert"
        PROVE  Len(files'[up'[v].wf]) + Len(up'[v].batch) <= MaximumFiles
    <3>1. CASE v = u
      BY <1>4, <1>5, <2>4, <3>1 DEF Accepts
    <3>2. CASE v # u
      BY <1>5, <2>1, <2>4, <3>2 DEF SerialInv
    <3> QED
      BY <3>1, <3>2
  <2> QED
    BY <2>1, <2>2, <2>3, <2>4 DEF SerialInv
<1>11. overlap' \in BOOLEAN
  BY DEF IInv, TypeOK
<1> QED
  BY <1>1, <1>3, <1>4, <1>9, <1>10, <1>11, UploadKeeps

\* The list step checks count and contents, and stores nothing.
LEMMA ListEvidenceStep ==
  ASSUME IInv, NEW u \in Uploads, ListEvidence(u)
  PROVE  IInv'
<1> DEFINE pc == IF Accepts(files[up[u].wf], up[u].batch) THEN "insert"
                 ELSE "rejected"
<1>1. /\ up[u].pc = "list" /\ Goto(u, pc)
      /\ UNCHANGED <<execution, disputes, expects, triggers, files, overlap>>
  BY DEF ListEvidence
<1>2. u \in InProgress /\ StoresNothing(u)
  BY <1>1 DEF InProgress, IInv, UploadInv
<1>3. /\ pc \in PC \ {"idle"}
      /\ pc \in {"insert", "rejected"}
      /\ pc = "insert" => Accepts(files[up[u].wf], up[u].batch)
  BY DEF PC, Answer
<1>4. /\ triggers' \subseteq Workflows
      /\ \A w \in Workflows : TriggerInv(w)'
  BY <1>1, TriggersKept DEF IInv, TypeOK, execution
<1> HIDE DEF pc
<1> QED
  BY <1>1, <1>2, <1>3, <1>4, GotoKeeps

\* The trigger comes after the rows are stored.
LEMMA TriggerAfterUploadStep ==
  ASSUME IInv, NEW u \in Uploads, TriggerAfterUpload(u)
  PROVE  IInv'
<1>1. /\ up[u].pc = "trigger" /\ Goto(u, "ok")
      /\ triggers' = triggers \cup {up[u].wf}
      /\ UNCHANGED <<execution, disputes, expects, files, overlap>>
  BY DEF TriggerAfterUpload
<1>2. /\ u \in InProgress
      /\ up[u].wf \in Workflows
      /\ status[up[u].wf] # "Absent"
      /\ files[up[u].wf] # <<>>
  BY <1>1 DEF InProgress, IInv, UploadInv
<1>3. triggers' \subseteq Workflows
  BY <1>1, <1>2 DEF IInv, TypeOK
<1>4. \A w \in Workflows : TriggerInv(w)'
  BY <1>1, <1>2 DEF IInv, TriggerInv, execution
<1>5. "ok" \in PC \ {"idle"}
  BY DEF PC, Answer
<1> QED
  BY <1>1, <1>2, <1>3, <1>4, <1>5, GotoKeeps

\* A request that dies has stored its batch or nothing.
LEMMA AbortStep ==
  ASSUME IInv, NEW u \in Uploads, Abort(u)
  PROVE  IInv'
<1>1. /\ u \in InProgress /\ Goto(u, "gone")
      /\ UNCHANGED <<execution, disputes, expects, triggers, files, overlap>>
  BY DEF Abort
<1>2. /\ triggers' \subseteq Workflows
      /\ \A w \in Workflows : TriggerInv(w)'
  BY <1>1, TriggersKept DEF IInv, TypeOK, execution
<1>3. "gone" \in PC \ {"idle"}
  BY DEF PC, Answer
<1> QED
  BY <1>1, <1>2, <1>3, GotoKeeps

\* An insertion whose batch collides ends the request and stores nothing.
LEMMA CollisionStep ==
  ASSUME IInv, NEW u \in Uploads, InsertEvidence(u), Collides(u)
  PROVE  IInv'
<1>1. /\ up[u].pc = "insert" /\ Goto(u, "rejected")
      /\ files' = files
      /\ UNCHANGED <<execution, disputes, expects, triggers, overlap>>
  BY DEF InsertEvidence, Stored, IInv, TypeOK
<1>2. u \in InProgress /\ StoresNothing(u)
  BY <1>1 DEF InProgress, IInv, UploadInv
<1>3. /\ triggers' \subseteq Workflows
      /\ \A w \in Workflows : TriggerInv(w)'
  BY <1>1, TriggersKept DEF IInv, TypeOK, execution
<1>4. "rejected" \in PC \ {"idle"}
  BY DEF PC, Answer
<1> QED
  BY <1>1, <1>2, <1>3, <1>4, GotoKeeps

\* The n old rows are followed by the m of the batch b, stored by u.
Extended(old, new, b, u, n, m) ==
  /\ DOMAIN old = 1..n
  /\ DOMAIN b = 1..m
  /\ DOMAIN new = 1..(n + m)
  /\ \A i \in 1..n : i \in 1..(n + m) /\ new[i] = old[i]
  /\ \A j \in 1..m : /\ j + n \in 1..(n + m)
                     /\ new[j + n] = [content |-> b[j], by |-> u]
  /\ \A i \in 1..(n + m) : i \in 1..n \/ \E j \in 1..m : i = j + n

\* These rows carry the batch b of u.
Carry(rows, b, u) ==
  /\ rows \in Seq(File)
  /\ Len(rows) \in Nat \ {0}
  /\ DOMAIN b = 1..Len(rows)
  /\ \A i \in 1..Len(rows) : rows[i] = [content |-> b[i], by |-> u]

\* The new table is longer by the length of the batch.
Grown(old, new, b) == Len(new) = Len(old) + Len(b)

\* Appending rows that carry a batch extends a table by it.
LEMMA ConcatExtends ==
  ASSUME NEW old \in Seq(File), NEW rows, NEW b, NEW u, Carry(rows, b, u)
  PROVE  /\ old \o rows \in Seq(File)
         /\ old \o rows # <<>>
         /\ Len(old \o rows) = Len(old) + Len(rows)
         /\ Len(old) \in Nat
         /\ Extended(old, old \o rows, b, u, Len(old), Len(rows))
<1> USE DEF Carry
<1> PICK n, m : n = Len(old) /\ m = Len(rows)
  OBVIOUS
<1> DEFINE new == old \o rows
<1>1. n \in Nat /\ m \in Nat \ {0} /\ DOMAIN old = 1..n /\ DOMAIN b = 1..m
  BY LenProperties
<1>2. /\ new \in Seq(File)
      /\ Len(new) = n + m
      /\ \A i \in 1..(n + m) : new[i] = IF i <= n THEN old[i] ELSE rows[i - n]
  BY ConcatProperties
<1>3. DOMAIN new = 1..(n + m)
  BY <1>2, LenProperties
<1> HIDE DEF new
<1>4. ASSUME NEW i \in 1..n PROVE i \in 1..(n + m) /\ new[i] = old[i]
  BY <1>1, <1>2
<1>5. ASSUME NEW j \in 1..m
      PROVE  /\ j + n \in 1..(n + m)
             /\ new[j + n] = [content |-> b[j], by |-> u]
  <2>1. j + n \in 1..(n + m) /\ ~(j + n <= n) /\ j + n - n = j
    BY <1>1
  <2>2. new[j + n] = rows[j]
    BY <1>2, <2>1
  <2> QED
    BY <2>1, <2>2
<1>6. ASSUME NEW i \in 1..(n + m), i \notin 1..n
      PROVE  \E j \in 1..m : i = j + n
  <2>1. i - n \in 1..m /\ i = (i - n) + n
    BY <1>1, <1>6
  <2> QED
    BY <2>1
<1>7. Extended(old, new, b, u, n, m)
  BY <1>1, <1>3, <1>4, <1>5, <1>6 DEF Extended
<1>8. new # <<>>
  <2>1. 1 \in DOMAIN new
    BY <1>1, <1>3
  <2> QED
    BY <2>1
<1> QED
  BY <1>1, <1>2, <1>7, <1>8 DEF new

\* The table after an insertion: the old rows, then those of the batch.
LEMMA InsertedRows ==
  ASSUME IInv, NEW u \in Uploads, InsertEvidence(u), ~Collides(u),
         NEW w, w = up[u].wf, NEW b, b = up[u].batch
  PROVE  /\ w \in Workflows
         /\ files' \in [Workflows -> Seq(File)]
         /\ \A v \in Workflows : v # w => files'[v] = files[v]
         /\ files'[w] # <<>>
         /\ Grown(files[w], files'[w], b)
         /\ \E n, m \in Nat : Extended(files[w], files'[w], b, u, n, m)
<1> DEFINE rows == RowsOf(u)
           new  == files[w] \o rows
<1>1. up[u].pc = "insert"
  BY DEF InsertEvidence
<1>2. w \in Workflows /\ b \in Batches
  BY <1>1 DEF IInv, UploadInv
<1>3. files \in [Workflows -> Seq(File)]
  BY DEF IInv, TypeOK
<1>4. /\ rows \in Seq(File)
      /\ Len(rows) = Len(b)
      /\ \A i \in 1..Len(b) : rows[i] = [content |-> b[i], by |-> u]
  BY <1>2, RowsProperties
<1>5. Len(b) \in Nat \ {0} /\ DOMAIN b = 1..Len(b)
  BY <1>2, BatchIsSeq
<1>6. files' = [files EXCEPT ![w] = new]
  BY DEF InsertEvidence, Stored
<1> HIDE DEF rows
<1>7. files[w] \in Seq(File)
  BY <1>2, <1>3
<1>8. /\ new \in Seq(File)
      /\ new # <<>>
      /\ Len(new) = Len(files[w]) + Len(rows)
      /\ Len(files[w]) \in Nat
      /\ Extended(files[w], new, b, u, Len(files[w]), Len(rows))
  <2>1. Carry(rows, b, u)
    BY <1>4, <1>5 DEF Carry
  <2> QED
    BY <1>7, <2>1, ConcatExtends
<1> HIDE DEF new
<1>9. files'[w] = new /\ files' \in [Workflows -> Seq(File)]
  BY <1>2, <1>3, <1>6, <1>8
<1>10. \A v \in Workflows : v # w => files'[v] = files[v]
  BY <1>2, <1>3, <1>6
<1>11. \E n, m \in Nat : Extended(files[w], new, b, u, n, m)
  <2>1. Len(rows) \in Nat
    BY <1>4, <1>5
  <2> QED
    BY <1>8, <2>1
<1> QED
  BY <1>2, <1>4, <1>8, <1>9, <1>10, <1>11 DEF Grown

\* No collision with what is stored and none within the batch: no duplicates.
LEMMA InsertKeepsDistinct ==
  ASSUME IInv, NEW u \in Uploads, InsertEvidence(u), ~Collides(u)
  PROVE  NoDuplicateContent'
<1> PICK w, b : w = up[u].wf /\ b = up[u].batch
  OBVIOUS
<1>1. /\ w \in Workflows
      /\ \A v \in Workflows : v # w => files'[v] = files[v]
  BY InsertedRows
<1> PICK n \in Nat, m \in Nat : Extended(files[w], files'[w], b, u, n, m)
  BY InsertedRows
<1>2. /\ DOMAIN files[w] = 1..n
      /\ DOMAIN b = 1..m
      /\ DOMAIN files'[w] = 1..(n + m)
      /\ \A i \in 1..n : i \in 1..(n + m) /\ files'[w][i] = files[w][i]
      /\ \A j \in 1..m : /\ j + n \in 1..(n + m)
                         /\ files'[w][j + n] = [content |-> b[j], by |-> u]
      /\ \A i \in 1..(n + m) : i \in 1..n \/ \E j \in 1..m : i = j + n
  BY DEF Extended
<1>3. /\ \A i, j \in 1..n : files[w][i].content = files[w][j].content => i = j
      /\ \A i, j \in 1..m : b[i] = b[j] => i = j
      /\ \A i \in 1..n, j \in 1..m : files[w][i].content # b[j]
  <2>1. \A i, j \in 1..n : files[w][i].content = files[w][j].content => i = j
    BY <1>1, <1>2 DEF IInv, NoDuplicateContent
  <2>2. \A i, j \in 1..m : b[i] = b[j] => i = j
    <3>1. Distinct(b)
      BY DEF IInv, UploadInv, InsertEvidence
    <3> QED
      BY <1>2, <3>1 DEF Distinct
  <2>3. \A j \in 1..m : b[j] \notin ContentOf(files[w])
    BY <1>2 DEF Collides
  <2>4. \A i \in 1..n : files[w][i].content \in ContentOf(files[w])
    BY <1>2 DEF ContentOf
  <2> QED
    BY <2>1, <2>2, <2>3, <2>4
<1>4. /\ \A i \in 1..n : files'[w][i].content = files[w][i].content
      /\ \A j \in 1..m : files'[w][j + n].content = b[j]
  <2>1. ASSUME NEW i \in 1..n PROVE files'[w][i].content = files[w][i].content
    BY <1>2
  <2>2. ASSUME NEW j \in 1..m PROVE files'[w][j + n].content = b[j]
    <3>1. files'[w][j + n] = [content |-> b[j], by |-> u]
      BY <1>2
    <3> QED
      BY <3>1
  <2> QED
    BY <2>1, <2>2
<1>5. ASSUME NEW i \in 1..(n + m), NEW j \in 1..(n + m),
             files'[w][i].content = files'[w][j].content
      PROVE  i = j
  <2>1. CASE i \in 1..n /\ j \in 1..n
    BY <1>3, <1>4, <1>5, <2>1
  <2>2. CASE i \in 1..n /\ \E k \in 1..m : j = k + n
    BY <1>3, <1>4, <1>5, <2>2
  <2>3. CASE j \in 1..n /\ \E k \in 1..m : i = k + n
    BY <1>3, <1>4, <1>5, <2>3
  <2>4. CASE (\E k \in 1..m : i = k + n) /\ (\E k \in 1..m : j = k + n)
    <3>1. PICK k \in 1..m, l \in 1..m : i = k + n /\ j = l + n
      BY <2>4
    <3>2. b[k] = b[l]
      BY <1>4, <1>5, <3>1
    <3> QED
      BY <1>3, <3>1, <3>2
  <2> QED
    BY <1>2, <2>1, <2>2, <2>3, <2>4
<1>6. ASSUME NEW v \in Workflows, NEW i \in DOMAIN files'[v],
             NEW j \in DOMAIN files'[v],
             files'[v][i].content = files'[v][j].content
      PROVE  i = j
  <2>1. CASE v = w
    BY <1>2, <1>5, <1>6, <2>1
  <2>2. CASE v # w
    BY <1>1, <1>6, <2>2 DEF IInv, NoDuplicateContent
  <2> QED
    BY <2>1, <2>2
<1> QED
  BY <1>6 DEF NoDuplicateContent

\* The request that inserts has stored all of its batch; nobody else's rows in
\* the table change.
LEMMA InsertStores ==
  ASSUME IInv, NEW u \in Uploads, InsertEvidence(u), ~Collides(u),
         NEW w, w = up[u].wf
  PROVE  /\ StoredBy(u, w)' = Sent(u)
         /\ \A x \in Workflows : x # w => StoredBy(u, x)' = {}
         /\ \A v \in Uploads, x \in Workflows :
              v # u => StoredBy(v, x)' = StoredBy(v, x)
<1> PICK b : b = up[u].batch
  OBVIOUS
<1>1. /\ w \in Workflows
      /\ \A v \in Workflows : v # w => files'[v] = files[v]
  BY InsertedRows
<1> PICK n \in Nat, m \in Nat : Extended(files[w], files'[w], b, u, n, m)
  BY InsertedRows
<1>2. /\ DOMAIN files[w] = 1..n
      /\ DOMAIN b = 1..m
      /\ DOMAIN files'[w] = 1..(n + m)
      /\ \A i \in 1..n : i \in 1..(n + m) /\ files'[w][i] = files[w][i]
      /\ \A j \in 1..m : /\ j + n \in 1..(n + m)
                         /\ files'[w][j + n] = [content |-> b[j], by |-> u]
      /\ \A i \in 1..(n + m) : i \in 1..n \/ \E j \in 1..m : i = j + n
  BY DEF Extended
<1>3. StoresNothing(u)
  BY DEF IInv, UploadInv, InsertEvidence
<1>4. \A v \in Uploads, x \in Workflows :
        x # w => StoredBy(v, x)' = StoredBy(v, x)
  BY <1>1 DEF StoredBy
<1>5. ASSUME NEW v \in Uploads, v # u
      PROVE  StoredBy(v, w)' = StoredBy(v, w)
  <2>1. ASSUME NEW c \in Contents, NEW i \in 1..(n + m),
               files'[w][i] = [content |-> c, by |-> v]
        PROVE  i \in 1..n /\ files[w][i] = [content |-> c, by |-> v]
    <3>1. ASSUME NEW j \in 1..m, i = j + n
          PROVE  FALSE
      <4>1. [content |-> b[j], by |-> u].by = [content |-> c, by |-> v].by
        BY <1>2, <2>1, <3>1
      <4> QED
        BY <1>5, <4>1
    <3> QED
      BY <1>2, <2>1, <3>1
  <2>2. ASSUME NEW c \in Contents, NEW i \in 1..n,
               files[w][i] = [content |-> c, by |-> v]
        PROVE  i \in 1..(n + m) /\ files'[w][i] = [content |-> c, by |-> v]
    BY <1>2, <2>2
  <2> QED
    BY <1>2, <2>1, <2>2 DEF StoredBy
<1>6. StoredBy(u, w)' = Sent(u)
  <2>1. ASSUME NEW c \in Contents, NEW i \in 1..n
        PROVE  files[w][i] # [content |-> c, by |-> u]
    BY <1>1, <1>2, <1>3 DEF StoresNothing, StoredBy
  <2>2. ASSUME NEW c \in Contents, NEW i \in 1..(n + m),
               files'[w][i] = [content |-> c, by |-> u]
        PROVE  \E j \in 1..m : b[j] = c
    <3>1. PICK j \in 1..m : i = j + n
      BY <1>2, <2>1, <2>2
    <3>2. [content |-> b[j], by |-> u].content = [content |-> c, by |-> u].content
      BY <1>2, <2>2, <3>1
    <3> QED
      BY <3>2
  <2>3. ASSUME NEW c \in Contents, NEW j \in 1..m, b[j] = c
        PROVE  /\ j + n \in 1..(n + m)
               /\ files'[w][j + n] = [content |-> c, by |-> u]
    BY <1>2, <2>3
  <2> QED
    BY <1>2, <2>2, <2>3 DEF StoredBy, Sent
<1> QED
  BY <1>1, <1>3, <1>4, <1>5, <1>6 DEF StoresNothing

\* An insertion stores the whole batch, and while uploads are made one after the
\* other it keeps the limit that the list step checked.
LEMMA InsertionStep ==
  ASSUME IInv, NEW u \in Uploads, InsertEvidence(u), ~Collides(u)
  PROVE  IInv'
<1> PICK w, b : w = up[u].wf /\ b = up[u].batch
  OBVIOUS
<1> DEFINE r == [up[u] EXCEPT !.pc = "trigger"]
<1>1. /\ up[u].pc = "insert"
      /\ up' = [up EXCEPT ![u] = r]
      /\ UNCHANGED <<execution, disputes, expects, triggers, overlap>>
  BY DEF InsertEvidence, Goto
<1>2. up[u] \in Upload /\ UploadInv(u) /\ b \in Batches
  BY <1>1 DEF IInv, TypeOK, UploadInv
<1>3. r \in Upload /\ r.pc = "trigger" /\ r.wf = w /\ r.batch = b
  BY <1>2 DEF Upload, PC
<1> HIDE DEF r
<1>4. up'[u] = r /\ \A v \in Uploads : v # u => up'[v] = up[v]
  BY <1>1 DEF IInv, TypeOK
<1>5. /\ w \in Workflows
      /\ files' \in [Workflows -> Seq(File)]
      /\ \A v \in Workflows : v # w => files'[v] = files[v]
      /\ files'[w] # <<>>
      /\ Len(files'[w]) = Len(files[w]) + Len(b)
  <2>1. w \in Workflows /\ \A v \in Workflows : v # w => files'[v] = files[v]
    BY InsertedRows
  <2>2. files' \in [Workflows -> Seq(File)] /\ files'[w] # <<>>
    BY InsertedRows
  <2>3. Grown(files[w], files'[w], b)
    BY InsertedRows
  <2> QED
    BY <2>1, <2>2, <2>3 DEF Grown
<1>6. TypeOK'
  BY <1>1, <1>3, <1>5 DEF IInv, TypeOK, Lifecycle!TypeOK, execution
<1>7. NoDuplicateContent'
  BY InsertKeepsDistinct
<1>8. ASSUME NEW v \in Workflows PROVE TriggerInv(v)'
  BY <1>1, <1>5 DEF IInv, TriggerInv, execution
<1>9. /\ StoredBy(u, w)' = Sent(u)
      /\ \A x \in Workflows : x # w => StoredBy(u, x)' = {}
      /\ \A v \in Uploads, x \in Workflows :
           v # u => StoredBy(v, x)' = StoredBy(v, x)
  BY InsertStores
<1>10. Sent(u)' = Sent(u) /\ \A v \in Uploads : v # u => Sent(v)' = Sent(v)
  BY <1>3, <1>4 DEF Sent
<1>11. ASSUME NEW v \in Uploads PROVE UploadInv(v)'
  <2>1. CASE v = u
    <3>1. StoredBy(u, up[u].wf)' = Sent(u)'
      <4>1. StoredBy(u, up[u].wf)' = StoredBy(u, w)'
        BY <1>3, <1>4 DEF StoredBy
      <4> QED
        BY <1>9, <1>10, <4>1
    <3>2. \A x \in Workflows :
            StoredBy(u, x)' \in IF w = x THEN {{}, Sent(u)'} ELSE {{}}
      BY <1>9, <1>10
    <3>3. status'[w] # "Absent"
      BY <1>1, <1>2 DEF UploadInv, execution
    <3> QED
      BY <1>2, <1>3, <1>4, <1>5, <2>1, <3>1, <3>2, <3>3 DEF UploadInv
  <2>2. CASE v # u
    <3>1. UploadInv(v) /\ up'[v] = up[v]
      BY <1>4, <2>2 DEF IInv
    <3>2. StoresNothing(v)' <=> StoresNothing(v)
      BY <1>9, <2>2 DEF StoresNothing
    <3>3. up[v].pc # "idle" => up[v].wf \in Workflows /\ status'[up[v].wf] # "Absent"
      BY <1>1, <3>1 DEF UploadInv, execution
    <3>4. up[v].pc \in {"trigger", "ok"} =>
            StoredBy(v, up[v].wf)' = Sent(v)' /\ files'[up[v].wf] # <<>>
      <4> SUFFICES ASSUME up[v].pc \in {"trigger", "ok"}
                   PROVE  /\ StoredBy(v, up[v].wf)' = Sent(v)'
                          /\ files'[up[v].wf] # <<>>
        OBVIOUS
      <4> PICK x \in Workflows : x = up[v].wf
        BY <3>3
      <4>1. StoredBy(v, x) = Sent(v) /\ files[x] # <<>>
        BY <3>1 DEF UploadInv
      <4>2. StoredBy(v, up[v].wf)' = StoredBy(v, x)'
        BY <3>1 DEF StoredBy
      <4>3. StoredBy(v, x)' = Sent(v)'
        BY <1>9, <1>10, <2>2, <4>1
      <4>4. files'[x] # <<>>
        BY <1>5, <4>1
      <4> QED
        BY <4>2, <4>3, <4>4
    <3>5. \A x \in Workflows :
            StoredBy(v, x)' \in IF up[v].wf = x THEN {{}, Sent(v)'} ELSE {{}}
      BY <1>9, <1>10, <2>2, <3>1 DEF UploadInv
    <3> QED
      BY <3>1, <3>2, <3>3, <3>4, <3>5 DEF UploadInv
  <2> QED
    BY <2>1, <2>2
<1>12. SerialInv'
  <2> SUFFICES ASSUME ~overlap PROVE SerialInv'
    BY <1>1 DEF SerialInv
  <2>1. /\ AtMostMaximumFiles
        /\ \A v, x \in InProgress : v = x
        /\ Len(files[w]) + Len(b) <= MaximumFiles
    BY <1>1 DEF IInv, SerialInv
  <2>2. AtMostMaximumFiles'
    BY <1>5, <2>1 DEF AtMostMaximumFiles
  <2>3. InProgress' \subseteq InProgress
    BY <1>1, <1>4 DEF InProgress
  <2>4. \A v \in Uploads : up'[v].pc # "insert"
    <3>1. u \in InProgress
      BY <1>1 DEF InProgress
    <3>2. \A v \in Uploads : v # u => up[v].pc # "insert"
      BY <2>1, <3>1 DEF InProgress
    <3> QED
      BY <1>3, <1>4, <3>2
  <2> QED
    BY <2>1, <2>2, <2>3, <2>4 DEF SerialInv
<1> QED
  BY <1>6, <1>7, <1>8, <1>11, <1>12 DEF IInv

-------------------------------------------------------------------------------
(* The theorems.                                                           *)

\* The initial state satisfies the inductive invariant.
LEMMA InitSatisfies ==
  Init => IInv
<1> SUFFICES ASSUME Init PROVE IInv
  OBVIOUS
<1>1. TypeOK
  <2>1. /\ <<>> \in Seq(File)
        /\ [pc |-> "idle", wf |-> NoWorkflow, batch |-> <<>>] \in Upload
    BY DEF Upload, PC
  <2>2. Lifecycle!TypeOK
    BY EvidenceAssumption DEF Init, Lifecycle!Init, Lifecycle!TypeOK, Lifecycle!Statuses
  <2> QED
    BY <2>1, <2>2 DEF Init, TypeOK
<1>2. NoDuplicateContent
  BY DEF Init, NoDuplicateContent
<1>3. \A w \in Workflows : TriggerInv(w)
  BY DEF Init, TriggerInv
<1>4. \A u \in Uploads : StoresNothing(u)
  BY DEF Init, StoresNothing, StoredBy
<1>5. \A u \in Uploads : UploadInv(u)
  BY <1>4 DEF Init, UploadInv, StoresNothing
<1>6. SerialInv
  <2>1. \A w \in Workflows : Len(files[w]) = 0
    BY DEF Init
  <2> QED
    BY <2>1, EvidenceAssumption DEF Init, SerialInv, AtMostMaximumFiles, InProgress
<1> QED
  BY <1>1, <1>2, <1>3, <1>5, <1>6 DEF IInv

\* Every step of the specification preserves the inductive invariant.
LEMMA StepPreserves ==
  IInv /\ [Next]_vars => IInv'
<1> SUFFICES ASSUME IInv, [Next]_vars PROVE IInv'
  OBVIOUS
<1>1. CASE \E w \in Workflows : Environment(w)
  BY <1>1, SubmitStep, ExecutionStep DEF Environment
<1>2. CASE \E u \in Uploads : Handle(u)
  BY <1>2, BeginUploadStep, ListEvidenceStep, CollisionStep, InsertionStep,
     TriggerAfterUploadStep, AbortStep DEF Handle
<1>3. CASE UNCHANGED vars
  <2>1. UNCHANGED <<up, files, overlap, status, expects, triggers>>
    BY <1>3 DEF vars, execution
  <2>2. TypeOK'
    BY <1>3 DEF IInv, TypeOK, Lifecycle!TypeOK, vars, execution
  <2>3. \A w \in Workflows : TriggerInv(w)'
    BY <2>1, TriggersKept
  <2> QED
    BY <2>1, <2>2, <2>3, EnvironmentKeeps
<1> QED
  BY <1>1, <1>2, <1>3 DEF Next

\* The inductive invariant holds in every reachable state.
THEOREM InductiveInvariant == Spec => []IInv
<1>1. Init => IInv
  BY InitSatisfies
<1>2. IInv /\ [Next]_vars => IInv'
  BY StepPreserves
<1> QED
  BY <1>1, <1>2, PTL DEF Spec

\* Tables and requests keep their types.
THEOREM TypeCorrect == Spec => []TypeOK
<1>1. IInv => TypeOK
  BY DEF IInv
<1> QED
  BY <1>1, InductiveInvariant, PTL

\* However many requests race, no content is attached to a workflow twice.
THEOREM ContentsDistinct == Spec => []NoDuplicateContent
<1>1. IInv => NoDuplicateContent
  BY DEF IInv
<1> QED
  BY <1>1, InductiveInvariant, PTL

\* A request stores all of its batch or nothing, and answers accordingly.
THEOREM BatchesWhole == Spec => []StoredInFull
<1>1. IInv => StoredInFull
  BY DEF IInv, UploadInv, StoresNothing, StoredInFull
<1> QED
  BY <1>1, InductiveInvariant, PTL

\* Uploads that never overlap keep the limit, whatever becomes of each.
THEOREM SerialLimit == Spec => []SerialUploadsKeepLimit
<1>1. IInv => SerialUploadsKeepLimit
  BY DEF IInv, SerialInv, SerialUploadsKeepLimit
<1> QED
  BY <1>1, InductiveInvariant, PTL

\* The immediate trigger never starts a workflow ahead of its announced files.
THEOREM TriggerWaits == Spec => TriggerWaitsForEvidence
<1> DEFINE Waits ==
      \A w \in Workflows :
        /\ expects[w]
        /\ status[w] = "Draft"
        /\ status'[w] = "Recovering"
        /\ attempts'[w] = attempts[w]
        => files[w] # <<>>
<1>1. ASSUME IInv, [Next]_vars PROVE Waits
  <2> SUFFICES ASSUME NEW w \in Workflows, expects[w], status[w] = "Draft",
                      status'[w] = "Recovering", attempts'[w] = attempts[w]
               PROVE  files[w] # <<>>
    OBVIOUS
  <2>1. /\ status \in [Workflows -> Lifecycle!Statuses]
        /\ attempts \in [Workflows -> 0..MaxAttempts]
        /\ MaxAttempts \in Nat
    BY <1>1, EvidenceAssumption DEF IInv, TypeOK, Lifecycle!TypeOK
  <2>2. CASE RunTrigger(w)
    BY <1>1, <2>2 DEF RunTrigger, IInv, TriggerInv
  <2>3. ASSUME NEW v \in Workflows, RunTrigger(v), v # w PROVE FALSE
    BY <2>1, <2>3 DEF RunTrigger, Lifecycle!PickUp, execution
  <2>4. ASSUME NEW v \in Workflows, NEW e \in BOOLEAN, Submit(v, e) PROVE FALSE
    BY <2>1, <2>4 DEF Submit, Lifecycle!Submit
  <2>5. ASSUME NEW v \in Workflows, RecoverByWorker(v) PROVE FALSE
    BY <2>1, <2>5 DEF RecoverByWorker, Lifecycle!Recover
  <2>6. ASSUME NEW v \in Workflows, Execution(v) PROVE FALSE
    <3>1. CASE Lifecycle!Finish(v)
      BY <2>1, <3>1 DEF Lifecycle!Finish, Lifecycle!Outcome
    <3>2. CASE Lifecycle!Decide(v)
      BY <2>1, <3>2 DEF Lifecycle!Decide
    <3> QED
      BY <2>6, <3>1, <3>2 DEF Execution
  <2>7. CASE status' = status
    BY <2>7
  <2>8. \/ \E v \in Workflows :
             \/ RunTrigger(v) \/ RecoverByWorker(v) \/ Execution(v)
             \/ \E e \in BOOLEAN : Submit(v, e)
        \/ status' = status
    BY <1>1 DEF Next, Environment, Handle, LoseTrigger, BeginUpload, ListEvidence,
                InsertEvidence, TriggerAfterUpload, Abort, vars, execution
  <2> QED
    BY <2>2, <2>3, <2>4, <2>5, <2>6, <2>7, <2>8
<1>2. IInv /\ [Next]_vars => [Waits]_vars
  BY <1>1
<1> QED
  BY <1>2, InductiveInvariant, PTL DEF Spec, TriggerWaitsForEvidence
===============================================================================
