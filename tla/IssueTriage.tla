------------------------------ MODULE IssueTriage ------------------------------
(***************************************************************************)
(* Ralph's heartbeat on the issues of the repository: a run checks out the *)
(* team and routing documents, reads the open squad issues page by page,   *)
(* decides whom each untriaged one goes to, and then labels and comments   *)
(* them one by one.                                                        *)
(*                                                                         *)
(* The workflow has no concurrency group, so that runs overlap, each with  *)
(* what it read; meanwhile people open, edit, close and assign issues and  *)
(* change the documents, and every call of the API may fail.               *)
(***************************************************************************)
EXTENDS TriageRules

CONSTANTS
  Runs,       \* the runs of the heartbeat workflow, each used over and over
  LastIssue,  \* the number of the last issue that is opened
  Texts,      \* what the title and body of an issue may say
  Docs,       \* the versions of team.md and routing.md, on whatever branch
  Team, Routing, \* what either says in a version
  PerPage,    \* issues to a page of the API
  MaxTouches, \* bound: what people do to issues, documents and runs
  MaxFaults   \* bound: calls of the API that fail

ASSUME TriageAssumption ==
  /\ LastIssue \in Nat /\ PerPage \in Nat \ {0}
  /\ MaxTouches \in Nat /\ MaxFaults \in Nat
  /\ Texts # {} /\ Docs # {}
  /\ \A d \in Docs : \A table \in {RosterTable(Team[d]), Routing[d].modules} :
       /\ table.rows \in Seq(Range(table.rows))
       /\ \A row \in Range(table.rows), column \in table.columns :
            IsFiniteSet(Cell(row, column))

VARIABLES
  docs,      \* the documents on the default branch
  versions,  \* history: every version a run has checked out
  issues,    \* the issues, by number
  runs,      \* what each run holds in memory
  touches, faults

vars == <<docs, versions, issues, runs, touches, faults>>

-------------------------------------------------------------------------------
Numbers == 1..LastIssue

\* The labels a run knows: one for each member of its roster.
MemberLabels == [d \in Docs |->
  LET roster == Roster(Team[d]) IN {roster[i].name : i \in DOMAIN roster}]
Labels == UNION {MemberLabels[d] : d \in Docs}

\* Whom a text goes to under given documents.
Decisions ==
  [d \in Docs |-> [text \in Texts |-> Decision(text, Team[d], Routing[d])]]

Decided(text, d) == Decisions[d][text]

Issue ==
  [state : {"new", "open", "closed"},
   pr : BOOLEAN,                \* the issues API lists pull requests as well
   text : Texts,
   labels : SUBSET Labels,      \* its squad:* labels
   comments : SUBSET Labels,    \* the assignments announced by a comment
   texts : SUBSET Texts,        \* history: what it has said
   assigned : SUBSET Labels,    \* history: the labels people gave it
   labelled : SUBSET Labels]    \* history: the labels it ever had

Result == [number : Numbers, label : Labels]

Run ==
  [pc : {"idle", "fetch", "label", "comment"},
   docs : Docs,
   page : Nat \ {0},
   all : Seq([number : Numbers, text : Texts, labels : SUBSET Labels,
              pr : BOOLEAN]),
   results : Seq(Result)]

\* A run that is not under way holds nothing; nor does an issue not yet opened.
Idle == [pc |-> "idle", docs |-> CHOOSE d \in Docs : TRUE, page |-> 1,
         all |-> <<>>, results |-> <<>>]

NewIssue ==
  [state |-> "new", pr |-> FALSE, text |-> CHOOSE text \in Texts : TRUE,
   labels |-> {}, comments |-> {}, texts |-> {}, assigned |-> {}, labelled |-> {}]

Init ==
  /\ docs \in Docs
  /\ versions = {}
  /\ issues = [n \in Numbers |-> NewIssue]
  /\ runs = [r \in Runs |-> Idle]
  /\ touches = 0 /\ faults = 0

-------------------------------------------------------------------------------
(* People.                                                                 *)

Touch ==
  /\ touches < MaxTouches
  /\ touches' = touches + 1
  /\ UNCHANGED <<runs, faults>>

\* An issue is opened with the label squad, or a pull request is.
Open(n, text, pr) ==
  /\ issues[n].state = "new"
  /\ n > 1 => issues[n - 1].state # "new"
  /\ issues' = [issues EXCEPT ![n].state = "open", ![n].text = text,
                              ![n].pr = pr, ![n].texts = {text}]
  /\ UNCHANGED <<docs, versions, runs, touches, faults>>

Close(n) ==
  /\ issues[n].state = "open"
  /\ issues' = [issues EXCEPT ![n].state = "closed"]
  /\ Touch
  /\ UNCHANGED <<docs, versions>>

Edit(n, text) ==
  /\ issues[n].state = "open" /\ text # issues[n].text
  /\ issues' = [issues EXCEPT ![n].text = text, ![n].texts = @ \cup {text}]
  /\ Touch
  /\ UNCHANGED <<docs, versions>>

Assign(n, label) ==
  /\ issues[n].state = "open" /\ label \notin issues[n].labels
  /\ issues' = [issues EXCEPT ![n].labels = @ \cup {label},
                              ![n].assigned = @ \cup {label},
                              ![n].labelled = @ \cup {label}]
  /\ Touch
  /\ UNCHANGED <<docs, versions>>

Unassign(n, label) ==
  /\ issues[n].state = "open" /\ label \in issues[n].labels
  /\ issues' = [issues EXCEPT ![n].labels = @ \ {label}]
  /\ Touch
  /\ UNCHANGED <<docs, versions>>

Commit(d) ==
  /\ d # docs
  /\ docs' = d
  /\ Touch
  /\ UNCHANGED <<versions, issues>>

-------------------------------------------------------------------------------
(* A run of the heartbeat.                                                 *)

Set(r, run) == runs' = [runs EXCEPT ![r] = run]

Fault ==
  /\ faults < MaxFaults
  /\ faults' = faults + 1
  /\ UNCHANGED <<docs, versions, issues, touches>>

\* actions/checkout takes the documents of the ref the run was started on.
CheckOut(r, d) ==
  /\ runs[r].pc = "idle"
  /\ Set(r, [Idle EXCEPT !.pc = "fetch", !.docs = d])
  /\ versions' = versions \cup {d}
  /\ UNCHANGED <<docs, issues, faults>>

\* The schedule and the events of issues start a run on the default branch, and
\* so does a pull request that is merged into it.
Start(r) == CheckOut(r, docs) /\ UNCHANGED touches

\* A pull request that is closed unmerged, or merged into another branch, and a
\* manual dispatch start a run on a ref of their own, with any documents.
StartElsewhere(r, d) ==
  /\ touches < MaxTouches
  /\ touches' = touches + 1
  /\ CheckOut(r, d)

\* The issues API: a page of the open issues, the newest first.
Listing ==
  LET newest == [i \in Numbers |-> LastIssue + 1 - i] IN
  Kept(newest, {i \in Numbers : issues[newest[i]].state = "open"})

Listed(n) == [number |-> n, text |-> issues[n].text,
              labels |-> issues[n].labels, pr |-> issues[n].pr]

Page(listing, page) ==
  LET first == (page - 1) * PerPage IN
  [i \in {j \in 1..PerPage : first + j <= Len(listing)} |->
     Listed(listing[first + i])]

\* isUntriagedIssue
IsUntriaged(issue, memberLabels) ==
  ~issue.pr /\ issue.labels \cap memberLabels = {}

\* Mutant: the decisions are paired with the untriaged issues by position.
Results_ByPosition(all, d) ==
  LET open    == SelectSeq(all, LAMBDA i : IsUntriaged(i, MemberLabels[d]))
      decided == SelectSeq([k \in DOMAIN open |->
                              Decided(open[k].text, d)],
                           LAMBDA label : label # Empty)
  IN [k \in DOMAIN decided |-> [number |-> open[k].number, label |-> decided[k]]]

\* main: the decisions on the untriaged issues, as often as they were listed.
Results(all, d) ==
  LET goes(i) == /\ IsUntriaged(i, MemberLabels[d])
                 /\ Decided(i.text, d) # Empty
      triaged == Kept(all, {k \in DOMAIN all : goes(all[k])})
  IN [k \in DOMAIN triaged |->
        [number |-> triaged[k].number, label |-> Decided(triaged[k].text, d)]]

\* Mutant: only the first page is read.
LastPage_First(page) == page = page

LastPage(page) == Len(page) < PerPage

\* fetchSquadIssues reads pages until one is short; issues that are opened or
\* closed meanwhile shift the rest from page to page.  The decisions follow.
FetchPage(r) ==
  /\ runs[r].pc = "fetch"
  /\ \E listing \in {Listing} : \E page \in {Page(listing, runs[r].page)} :
       IF ~LastPage(page)
       THEN Set(r, [runs[r] EXCEPT !.page = @ + 1, !.all = @ \o page])
       ELSE \E results \in {Results(runs[r].all \o page, runs[r].docs)} :
              Set(r, IF results = <<>> THEN Idle
                     ELSE [Idle EXCEPT !.pc = "label", !.results = results])
  /\ UNCHANGED <<docs, versions, issues, touches, faults>>

\* A request fails, or the ref lacks a document, and the job with it: nothing is
\* applied.
FailFetch(r) ==
  /\ runs[r].pc = "fetch"
  /\ Set(r, Idle)
  /\ Fault

\* Mutant: the end of the results is not noticed.
NextResult_Unchecked(run) == [run EXCEPT !.pc = "label", !.results = Tail(@)]

\* What follows a result that was applied or given up.
NextResult(run) ==
  IF Len(run.results) = 1 THEN Idle
  ELSE [run EXCEPT !.pc = "label", !.results = Tail(@)]

AddLabel(r) ==
  /\ runs[r].pc = "label"
  /\ LET result == Head(runs[r].results) IN
     issues' = [issues EXCEPT ![result.number].labels = @ \cup {result.label},
                              ![result.number].labelled = @ \cup {result.label}]
  /\ Set(r, [runs[r] EXCEPT !.pc = "comment"])
  /\ UNCHANGED <<docs, versions, touches, faults>>

CreateComment(r) ==
  /\ runs[r].pc = "comment"
  /\ LET result == Head(runs[r].results) IN
     issues' = [issues EXCEPT ![result.number].comments = @ \cup {result.label}]
  /\ Set(r, NextResult(runs[r]))
  /\ UNCHANGED <<docs, versions, touches, faults>>

\* Mutant: a failure of one call does not keep the other from being made.
FailApply_GoOn(r) ==
  /\ runs[r].pc \in {"label", "comment"}
  /\ Set(r, IF runs[r].pc = "label" THEN [runs[r] EXCEPT !.pc = "comment"]
            ELSE NextResult(runs[r]))
  /\ Fault

\* Either call fails, is logged, and ends the work on this issue.
FailApply(r) ==
  /\ runs[r].pc \in {"label", "comment"}
  /\ Set(r, NextResult(runs[r]))
  /\ Fault

-------------------------------------------------------------------------------
People ==
  \/ \E n \in Numbers :
       \/ \E text \in Texts, pr \in BOOLEAN : Open(n, text, pr)
       \/ \E text \in Texts : Edit(n, text)
       \/ Close(n)
       \/ \E label \in Labels : Assign(n, label) \/ Unassign(n, label)
  \/ \E d \in Docs : Commit(d)

Proceed(r) == FetchPage(r) \/ AddLabel(r) \/ CreateComment(r)

Heartbeat(r) ==
  \/ Start(r)
  \/ \E d \in Docs : StartElsewhere(r, d)
  \/ Proceed(r)
  \/ FailFetch(r)
  \/ FailApply(r)

Next == People \/ \E r \in Runs : Heartbeat(r)

Spec == Init /\ [][Next]_vars

\* Runs are started by the schedule and end; of their calls, only so many fail.
FairSpec ==
  /\ Spec
  /\ \A r \in Runs : WF_vars(Start(r)) /\ WF_vars(Proceed(r))

-------------------------------------------------------------------------------
(* Properties.                                                             *)

TypeOK ==
  /\ docs \in Docs /\ versions \subseteq Docs
  /\ issues \in [Numbers -> Issue]
  /\ runs \in [Runs -> Run]
  /\ \A r \in Runs : runs[r].pc \in {"label", "comment"} <=> runs[r].results # <<>>
  /\ touches \in 0..MaxTouches /\ faults \in 0..MaxFaults

\* However runs overlap, and on whatever refs they were started, an issue is not
\* given to one whom nothing names: whoever owns it was named by a person or is
\* the decision on a text the issue has had, under documents that a run checked
\* out.  With one text and one such version there is one owner at most.
OwnersAreDecided ==
  \A n \in Numbers : \A label \in issues[n].labels \ issues[n].assigned :
    \E text \in issues[n].texts, d \in versions :
      label = Decided(text, d)

\* A comment that announces an owner is only found on an issue that was given
\* to that owner, though the label and the comment are calls of their own and
\* people may have reassigned the issue in between.
CommentsTellTheTruth ==
  \A n \in Numbers : issues[n].comments \subseteq issues[n].labelled

\* An issue that names a module goes to the primary owner of the most specific
\* one, however many paths, keywords and roles match besides, if that is the name
\* of a member that normalisation neither empties nor makes another's.
MatchingModules(text, routing) ==
  LET modules == Modules(routing) IN
  {modules[i] : i \in {j \in DOMAIN modules : Includes(text, modules[j].path)}}

MostSpecific(text, routing) ==
  {m \in MatchingModules(text, routing) :
     \A other \in MatchingModules(text, routing) :
       other = m \/ Length(other.path) < Length(m.path)}

Recognised(names) ==
  {name \in names :
     /\ NormalizeName(name) # Empty
     /\ \A other \in names \ {name} : NormalizeName(other) # NormalizeName(name)}

ModuleOwners == [d \in Docs |-> [text \in Texts |->
  {m.primary : m \in MostSpecific(text, Routing[d])}
    \cap Recognised(MemberLabels[d])]]

ModuleOwnerGetsIssue ==
  \A n \in Numbers :
    ModuleOwners[docs][issues[n].text] \subseteq {Decided(issues[n].text, docs)}

\* Every squad issue gets an owner or is closed, whatever runs fail, overlap or
\* miss it because the pages shift, if the team has a lead to fall back on.
HasLead == [d \in Docs |-> Lead(Roster(Team[d])) # NoMember]

Pending(n) ==
  issues[n].state = "open" /\ ~issues[n].pr /\ issues[n].labels = {}

EveryIssueGetsOwner ==
  \A n \in Numbers :
    Pending(n) ~> (~Pending(n) \/ ~HasLead[docs])
===============================================================================
