---------------------------- MODULE WorkflowEvidence ----------------------------
(***************************************************************************)
(* How evidence files are attached to a dispute, and how that is kept in   *)
(* step with the start of its execution.                                   *)
(*                                                                         *)
(* The web UI submits a workflow, saying whether files will follow, and    *)
(* then uploads them.  The API starts the workflow at once when no files   *)
(* are expected and after the upload otherwise; the recovery worker starts *)
(* it in any case when it has been left alone for too long.                *)
(*                                                                         *)
(* Execution itself is reduced to the steps of WorkflowLifecycle, which    *)
(* WorkflowExecution implements.                                           *)
(***************************************************************************)
EXTENDS Naturals, Sequences, FiniteSets

CONSTANTS
  Workflows,     \* the workflow identifiers
  MaxAttempts,   \* WorkflowRecoveryOptions.MaxAttempts
  Contents,      \* the file contents, told apart by their hash
  MaximumFiles,  \* WorkflowEvidenceService.MaximumFiles
  Uploads,       \* the upload requests, each made once
  NoWorkflow     \* the workflow of a request that has not been made

ASSUME EvidenceAssumption ==
  /\ NoWorkflow \notin Workflows
  /\ MaxAttempts \in Nat \ {0}
  /\ MaximumFiles \in Nat \ {0}

VARIABLES
  status, attempts, decision,  \* execution, as WorkflowLifecycle has it
  disputes,  \* the workflows whose message WorkflowRoutingPolicy calls a dispute
  expects,   \* whether WorkflowRequest.ExpectsEvidence was set
  triggers,  \* the workflows with a TriggerImmediate task still to run
  files,     \* the workflow_evidence table, per workflow
  up,        \* what each upload request holds in memory, and its answer
  overlap    \* history: two upload requests were in progress at once

execution == <<status, attempts, decision>>
vars == <<status, attempts, decision, disputes, expects, triggers, files, up,
          overlap>>

Lifecycle == INSTANCE WorkflowLifecycle

-------------------------------------------------------------------------------
\* A file remembers the request that stored it.
File == [content : Contents, by : Uploads]

Batches == UNION {[1..n -> Contents] : n \in 1..MaximumFiles}

Answer == {"ok", "rejected", "gone"}
PC == {"idle", "list", "insert", "trigger"} \cup Answer

Upload == [pc : PC, wf : Workflows \cup {NoWorkflow}, batch : {<<>>} \cup Batches]

Init ==
  /\ Lifecycle!Init
  /\ disputes \in SUBSET Workflows
  /\ expects = [w \in Workflows |-> FALSE]
  /\ triggers = {}
  /\ files = [w \in Workflows |-> <<>>]
  /\ up = [u \in Uploads |-> [pc |-> "idle", wf |-> NoWorkflow, batch |-> <<>>]]
  /\ overlap = FALSE

-------------------------------------------------------------------------------
(* Submission and execution.                                               *)

\* Mutant: the submission triggers every workflow.
TriggersAtOnce_Always(expectsEvidence) == expectsEvidence \in BOOLEAN

TriggersAtOnce(expectsEvidence) == ~expectsEvidence

\* POST /workflows: the Draft is stored, then the trigger fires unless files
\* are to follow.  A process that dies in between is a LoseTrigger.
Submit(w, expectsEvidence) ==
  /\ Lifecycle!Submit(w)
  /\ expects' = [expects EXCEPT ![w] = expectsEvidence]
  /\ triggers' = IF TriggersAtOnce(expectsEvidence) THEN triggers \cup {w}
                 ELSE triggers
  /\ UNCHANGED <<disputes, files, up, overlap>>

\* The task of a trigger claims its workflow if that is still a Draft.
RunTrigger(w) ==
  /\ w \in triggers
  /\ triggers' = triggers \ {w}
  /\ IF status[w] = "Draft" THEN Lifecycle!PickUp(w) ELSE UNCHANGED execution
  /\ UNCHANGED <<disputes, expects, files, up, overlap>>

\* Trigger tasks live in memory and fail silently.
LoseTrigger(w) ==
  /\ w \in triggers
  /\ triggers' = triggers \ {w}
  /\ UNCHANGED <<execution, disputes, expects, files, up, overlap>>

\* Mutant: the worker leaves workflows alone that wait for their files.
Scanned_WithoutExpected(w) == ~expects[w]

\* The scan of the recovery worker does not look at evidence at all.
Scanned(w) == w \in Workflows

\* Mutant: attempts are counted but not limited.
RecoverByWorker_Unlimited(w) ==
  /\ status[w] \in {"Draft", "Recovering"}
  /\ status' = [status EXCEPT ![w] = "Recovering"]
  /\ attempts' = [attempts EXCEPT ![w] = @ + 1]
  /\ UNCHANGED <<decision, disputes, expects, triggers, files, up, overlap>>

RecoverByWorker(w) ==
  /\ Scanned(w)
  /\ Lifecycle!Recover(w)
  /\ UNCHANGED <<disputes, expects, triggers, files, up, overlap>>

Execution(w) ==
  /\ Lifecycle!Finish(w) \/ Lifecycle!Decide(w)
  /\ UNCHANGED <<disputes, expects, triggers, files, up, overlap>>

-------------------------------------------------------------------------------
(* POST /workflows/{id}/evidence.                                          *)

Goto(u, pc) == up' = [up EXCEPT ![u].pc = pc]

InProgress == {u \in Uploads : up[u].pc \in {"list", "insert", "trigger"}}

\* The endpoint and AddAsync check the request and the workflow; they do not
\* look at its status.  Each request is made once.
BeginUpload(u, w, batch) ==
  /\ up[u].pc = "idle"
  /\ status[w] # "Absent"
  /\ up' = [up EXCEPT ![u] =
       [pc |-> IF w \in disputes THEN "list" ELSE "rejected",
        wf |-> w, batch |-> batch]]
  /\ overlap' = (overlap \/ InProgress # {})
  /\ UNCHANGED <<execution, disputes, expects, triggers, files>>

ContentOf(stored) == {stored[i].content : i \in DOMAIN stored}

\* Mutant: the files that are already there are not counted.
Accepts_BatchOnly(stored, batch) ==
  /\ Len(batch) <= MaximumFiles
  /\ \A i \in DOMAIN batch : batch[i] \notin ContentOf(stored)

\* AddAsync: neither too many files nor one content twice.
Accepts(stored, batch) ==
  /\ Len(stored) + Len(batch) <= MaximumFiles
  /\ \A i \in DOMAIN batch :
       /\ batch[i] \notin ContentOf(stored)
       /\ \A j \in DOMAIN batch : i # j => batch[i] # batch[j]

ListEvidence(u) ==
  /\ up[u].pc = "list"
  /\ Goto(u, IF Accepts(files[up[u].wf], up[u].batch) THEN "insert"
             ELSE "rejected")
  /\ UNCHANGED <<execution, disputes, expects, triggers, files, overlap>>

\* Mutant: the database has no unique index on (workflow_id, sha256).
Collides_NoIndex(u) == up[u].batch = <<>>

\* A row of the batch violates the unique index.
Collides(u) ==
  \E i \in DOMAIN up[u].batch : up[u].batch[i] \in ContentOf(files[up[u].wf])

RowsOf(u) ==
  [i \in DOMAIN up[u].batch |-> [content |-> up[u].batch[i], by |-> u]]

\* Mutant: the rows are saved one by one, up to the one that collides.
Stored_RowByRow(u) ==
  LET old == files[up[u].wf] IN
  old \o SelectSeq(RowsOf(u), LAMBDA f : f.content \notin ContentOf(old))

\* SaveChangesAsync stores the whole batch or, when a row collides, nothing.
Stored(u) ==
  IF Collides(u) THEN files[up[u].wf] ELSE files[up[u].wf] \o RowsOf(u)

InsertEvidence(u) ==
  /\ up[u].pc = "insert"
  /\ files' = [files EXCEPT ![up[u].wf] = Stored(u)]
  /\ Goto(u, IF Collides(u) THEN "rejected" ELSE "trigger")
  /\ UNCHANGED <<execution, disputes, expects, triggers, overlap>>

TriggerAfterUpload(u) ==
  /\ up[u].pc = "trigger"
  /\ triggers' = triggers \cup {up[u].wf}
  /\ Goto(u, "ok")
  /\ UNCHANGED <<execution, disputes, expects, files, overlap>>

\* The client goes away, the database fails, or the process dies.
Abort(u) ==
  /\ u \in InProgress
  /\ Goto(u, "gone")
  /\ UNCHANGED <<execution, disputes, expects, triggers, files, overlap>>

-------------------------------------------------------------------------------
Environment(w) ==
  \/ \E e \in BOOLEAN : Submit(w, e)
  \/ RunTrigger(w)
  \/ LoseTrigger(w)
  \/ RecoverByWorker(w)
  \/ Execution(w)

Handle(u) ==
  \/ \E w \in Workflows, batch \in Batches : BeginUpload(u, w, batch)
  \/ ListEvidence(u)
  \/ InsertEvidence(u)
  \/ TriggerAfterUpload(u)
  \/ Abort(u)

Next ==
  \/ \E w \in Workflows : Environment(w)
  \/ \E u \in Uploads : Handle(u)

Spec == Init /\ [][Next]_vars

\* What FulfilsLifecycle establishes of execution, the immediate trigger
\* excepted, which may be lost: a worker comes, and its execution ends.
FairSpec ==
  /\ Spec
  /\ \A w \in Workflows :
       /\ WF_vars(RecoverByWorker(w))
       /\ WF_vars(Execution(w))

-------------------------------------------------------------------------------
(* Properties.                                                             *)

TypeOK ==
  /\ Lifecycle!TypeOK
  /\ disputes \subseteq Workflows
  /\ expects \in [Workflows -> BOOLEAN]
  /\ triggers \subseteq Workflows
  /\ files \in [Workflows -> Seq(File)]
  /\ up \in [Uploads -> Upload]
  /\ overlap \in BOOLEAN

\* No content is attached to a workflow twice, though the check for it and the
\* insertion are not one step and requests race between them.
NoDuplicateContent ==
  \A w \in Workflows : \A i, j \in DOMAIN files[w] :
    files[w][i].content = files[w][j].content => i = j

\* A request stores all of its files or none, and none in another workflow: all
\* when it answers "ok", none when it is rejected, whichever other request made
\* it fail, and never a part of them when the process dies.
StoredBy(u, w) ==
  {c \in Contents :
     \E i \in DOMAIN files[w] : files[w][i] = [content |-> c, by |-> u]}

Sent(u) == {c \in Contents : \E i \in DOMAIN up[u].batch : up[u].batch[i] = c}

StoredInFull ==
  \A u \in Uploads, w \in Workflows :
    /\ StoredBy(u, w) \in IF up[u].wf = w THEN {{}, Sent(u)} ELSE {{}}
    /\ up[u].pc = "ok" /\ up[u].wf = w => StoredBy(u, w) = Sent(u)
    /\ up[u].pc = "rejected" => StoredBy(u, w) = {}

\* "A dispute workflow can contain at most MaximumFiles evidence files."
AtMostMaximumFiles ==
  \A w \in Workflows : Len(files[w]) <= MaximumFiles

\* Requests made one after the other keep the limit, also when some of them are
\* rejected, abandoned or lost on the way.
SerialUploadsKeepLimit == overlap \/ AtMostMaximumFiles

\* The immediate trigger, unlike the worker, never starts a workflow that
\* announced evidence before some of it is stored.
TriggerWaitsForEvidence ==
  [][\A w \in Workflows :
       /\ expects[w]
       /\ status[w] = "Draft"
       /\ status'[w] = "Recovering"
       /\ attempts'[w] = attempts[w]
       => files[w] # <<>>]_vars

\* Evidence that was announced and never arrives does not block a workflow.
AnnouncedEvidenceDoesNotBlock ==
  \A w \in Workflows :
    status[w] = "Draft" /\ expects[w] ~> status[w] \notin {"Draft", "Recovering"}
===============================================================================
