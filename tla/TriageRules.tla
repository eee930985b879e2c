------------------------------ MODULE TriageRules ------------------------------
(***************************************************************************)
(* How ralph-triage.js reads the team and the routing document, and whom   *)
(* it gives an issue to.                                                   *)
(*                                                                         *)
(* A text is the set of the fragments that occur in it, so that one text   *)
(* includes another when it has all of its fragments, the empty text is    *)
(* included in every other, and the size of a text grows with inclusion as *)
(* its length does.  A table has columns, found by their headings, and     *)
(* rows, from a column to a cell.                                          *)
(***************************************************************************)
EXTENDS Naturals, Sequences, FiniteSets, SequencesExt

Empty == {}
Length(text) == Cardinality(text)
Includes(text, part) == part \subseteq text

\* A fragment that normalizeName drops: dashes, emoji, letters beyond ASCII.
Sign == "sign"
NormalizeName(text) == text \ {Sign}

\* parseTableSection finds no heading it knows, or no table under it.
NoTable == [columns |-> {}, rows |-> <<>>]

\* findColumnIndex, for the columns a table has to have.
HasColumns(table, columns) == columns \subseteq table.columns

\* A cell of a column the table does not have, or of a row that is too short.
Cell(row, column) == IF column \in DOMAIN row THEN row[column] ELSE Empty

\* The elements of a sequence at the given positions, in order: SelectSeq as a
\* recursive function, which can be reasoned about.
Kept(s, positions) ==
  LET kept[n \in 0..Len(s)] ==
        IF n = 0 THEN <<>>
        ELSE IF n \in positions THEN Append(kept[n - 1], s[n]) ELSE kept[n - 1]
  IN kept[Len(s)]

-------------------------------------------------------------------------------
(* The documents.                                                          *)

Excluded(name) == name \in {{"scribe"}, {"ralph"}}

\* The section "Members" or, when there is none, "Team Roster".
RosterTable(team) ==
  IF team.members # NoTable THEN team.members ELSE team.roster

\* parseRoster: the members that have a name and a role.  The label of a
\* member is the name.
Roster(team) ==
  LET table     == RosterTable(team)
      member(r) == [name |-> Cell(r, "name"), role |-> Cell(r, "role")]
      named(r)  == /\ Empty \notin {Cell(r, "name"), Cell(r, "role")}
                   /\ ~Excluded(Cell(r, "name"))
      rows      == Kept(table.rows, {i \in DOMAIN table.rows : named(table.rows[i])})
  IN IF HasColumns(table, {"name", "role"})
     THEN [i \in DOMAIN rows |-> member(rows[i])] ELSE <<>>

\* parseRoutingRules: keywords are the non-empty parts of the examples.
Rules(routing) ==
  LET table    == routing.rules
      rule(r)  == [agent |-> Cell(r, "agent"),
                   keywords |-> IF /\ HasColumns(table, {"examples"})
                                   /\ "examples" \in DOMAIN r
                                THEN r["examples"] ELSE <<>>]
      valid(r) == Empty \notin {Cell(r, "work type"), Cell(r, "agent")}
      rows     == Kept(table.rows, {i \in DOMAIN table.rows : valid(table.rows[i])})
  IN IF HasColumns(table, {"work type", "agent"})
     THEN [i \in DOMAIN rows |-> rule(rows[i])] ELSE <<>>

\* parseModuleOwnership: a secondary owner made of dashes is none, as is every
\* name of which normalisation leaves nothing.
Modules(routing) ==
  LET table     == routing.modules
      owners(r) == [path |-> Cell(r, "module"), primary |-> Cell(r, "primary"),
                    secondary |-> NormalizeName(Cell(r, "secondary"))]
      valid(r)  == Empty \notin {Cell(r, "module"), Cell(r, "primary")}
      rows      == Kept(table.rows, {i \in DOMAIN table.rows : valid(table.rows[i])})
  IN IF HasColumns(table, {"module", "primary"})
     THEN [i \in DOMAIN rows |-> owners(rows[i])] ELSE <<>>

-------------------------------------------------------------------------------
(* The decision.                                                           *)

NoMember == [name |-> Empty, role |-> Empty]

First(members, Test(_)) ==
  LET i == SelectInSeq(members, Test) IN
  IF i = 0 THEN NoMember ELSE members[i]

FirstOf(members) == First(members, LAMBDA m : m # NoMember)

Overlap(a, b) == Includes(a, b) \/ Includes(b, a)

\* Mutant: a part of a name is as good as the name.
FindMember_Partial(target, roster) ==
  LET t == NormalizeName(target) IN
  IF t = Empty THEN NoMember
  ELSE First(roster, LAMBDA m : Overlap(t, NormalizeName(m.name)))

\* findMember: by name, by role, by a part of either.
FindMember(target, roster) ==
  LET t == NormalizeName(target) IN
  IF t = Empty THEN NoMember
  ELSE FirstOf(<<
    First(roster, LAMBDA m : NormalizeName(m.name) = t),
    First(roster, LAMBDA m : NormalizeName(m.role) = t),
    First(roster, LAMBDA m : Overlap(t, NormalizeName(m.name))),
    First(roster, LAMBDA m : Overlap(t, NormalizeName(m.role)))>>)

NoModule == [path |-> Empty, primary |-> Empty, secondary |-> Empty]

\* findBestModuleMatch: the longest path in the text, the first of several.
BestModule(text, modules) ==
  LET best[n \in 0..Len(modules)] ==
        IF n = 0 THEN NoModule
        ELSE IF /\ Includes(text, modules[n].path)
                /\ Length(modules[n].path) > Length(best[n - 1].path)
             THEN modules[n] ELSE best[n - 1]
  IN best[Len(modules)]

\* The score of a rule: the number of its keywords that match, then their length.
Score(text, rule) ==
  FoldLeft(LAMBDA sum, k : IF Includes(text, k) THEN sum + 100 + Length(k)
                           ELSE sum,
           0, rule.keywords)

NoRule == [agent |-> Empty, keywords |-> <<>>]

\* findBestRuleMatch: the first of the rules with the best score.
BestRule(text, rules) ==
  FoldLeft(LAMBDA best, rule :
             IF Score(text, rule) > Score(text, best) THEN rule ELSE best,
           NoRule, rules)

\* The words of a role, and those of an issue that call for it.
RoleKeywords ==
  {[role |-> {"frontend", "ui"}, issue |-> {"ui", "frontend", "css"}],
   [role |-> {"backend", "api", "server"}, issue |-> {"api", "backend", "database"}],
   [role |-> {"test", "qa"}, issue |-> {"test", "bug", "fix"}]}

\* findRoleKeywordMatch
RoleMatch(text, roster) ==
  First(roster, LAMBDA m :
    \E k \in RoleKeywords : k.role \cap m.role # {} /\ k.issue \cap text # {})

\* findLeadFallback
Lead(roster) == First(roster, LAMBDA m : m.role \cap {"lead", "architect"} # {})

\* triageIssue: the label of the member who gets an issue, Empty for nobody.
Decision(text, team, routing) ==
  LET roster == Roster(team)
      module == BestModule(text, Modules(routing))
      rule   == BestRule(text, Rules(routing))
  IN FirstOf(<<FindMember(module.primary, roster),
               FindMember(module.secondary, roster),
               FindMember(rule.agent, roster),
               RoleMatch(text, roster),
               Lead(roster)>>).name
===============================================================================
