--------------------------- MODULE IssueTriageProofs ---------------------------
(***************************************************************************)
(* Overlapping triage runs, for every number of runs, issues, texts and    *)
(* versions of the documents.                                              *)
(*                                                                         *)
(* A run holds what it read, which people and other runs change meanwhile. *)
(* What it holds stays explained by what the issues have said and by the   *)
(* documents that were checked out, both of which only grow: every result  *)
(* a run has still to apply is the decision on a text the issue has had,   *)
(* under documents that a run has checked out.                             *)
(***************************************************************************)
EXTENDS IssueTriage, TLAPS, SequenceTheorems, FiniteSetTheorems,
        WellFoundedInduction

-------------------------------------------------------------------------------
(* Selections.                                                             *)

\* A set of numbers has a least one.
LEMMA LeastNumber ==
  ASSUME NEW S, S \subseteq Nat, S # {}
  PROVE  \E m \in S : \A n \in S : m <= n
<1> DEFINE R == OpToRel(<, Nat)
<1>1. IsWellFoundedOn(R, Nat)
  BY NatLessThanWellFounded
<1> HIDE DEF R
<1>2. PICK m \in S : \A n \in S : ~(<<n, m>> \in R)
  BY <1>1, WFMin
<1>3. ASSUME NEW n \in S PROVE m <= n
  <2>1. m \in Nat /\ n \in Nat
    OBVIOUS
  <2>2. n < m => <<n, m>> \in R
    BY <2>1 DEF R, OpToRel
  <2>3. QED
    BY <1>2, <2>1, <2>2
<1>4. QED
  BY <1>3

\* Min returns it.
LEMMA MinIsElement ==
  ASSUME NEW S, S \subseteq Nat, S # {}
  PROVE  Min(S) \in S
BY LeastNumber DEF Min

\* It is the least.
LEMMA MinIsLeast ==
  ASSUME NEW S, S \subseteq Nat, NEW x \in S
  PROVE  Min(S) \in S /\ Min(S) <= x
BY LeastNumber DEF Min

\* The function that Kept computes with.
Keeps(s, positions, f, n) ==
  f = [i \in 0..n |->
         IF i = 0 THEN <<>>
         ELSE IF i \in positions THEN Append(f[i - 1], s[i]) ELSE f[i - 1]]

\* There is such a function of every length, by the least length without one.
LEMMA KeepsExists ==
  ASSUME NEW s, NEW positions, NEW n \in Nat
  PROVE  \E f : Keeps(s, positions, f, n)
<1> DEFINE Without == {m \in Nat : ~ \E f : Keeps(s, positions, f, m)}
<1>1. SUFFICES ASSUME Without # {} PROVE FALSE
  OBVIOUS
<1>2. PICK m \in Without : \A k \in Without : m <= k
  BY <1>1, LeastNumber
<1>3. m \in Nat /\ ~ \E f : Keeps(s, positions, f, m)
  OBVIOUS
<1>4. CASE m = 0
  <2> DEFINE f == [i \in 0..0 |-> <<>>]
  <2>1. Keeps(s, positions, f, m)
    BY <1>4 DEF Keeps
  <2>2. QED
    BY <1>3, <2>1
<1>5. CASE m # 0
  <2>1. m - 1 \in Nat /\ m - 1 \notin Without
    BY <1>2, <1>3, <1>5
  <2>2. PICK f : Keeps(s, positions, f, m - 1)
    BY <2>1
  <2> DEFINE last == IF m \in positions THEN Append(f[m - 1], s[m]) ELSE f[m - 1]
             g == [i \in 0..m |-> IF i = m THEN last ELSE f[i]]
  <2>3. ASSUME NEW i \in 0..m
        PROVE  g[i] = IF i = 0 THEN <<>>
                      ELSE IF i \in positions THEN Append(g[i - 1], s[i])
                      ELSE g[i - 1]
    <3>1. CASE i = m
      <4>1. g[i] = last /\ g[i - 1] = f[m - 1]
        BY <1>3, <1>5, <3>1
      <4>2. QED
        BY <1>5, <3>1, <4>1
    <3>2. CASE i # m
      <4>1. i \in 0..(m - 1)
        BY <1>3, <3>2
      <4>2. f[i] = IF i = 0 THEN <<>>
                   ELSE IF i \in positions THEN Append(f[i - 1], s[i])
                   ELSE f[i - 1]
        BY <2>2, <4>1 DEF Keeps
      <4>3. g[i] = f[i] /\ (i # 0 => g[i - 1] = f[i - 1])
        BY <1>3, <4>1
      <4>4. QED
        BY <4>2, <4>3
    <3>3. QED
      BY <3>1, <3>2
  <2>4. DOMAIN g = 0..m
    OBVIOUS
  <2> HIDE DEF g
  <2>5. Keeps(s, positions, g, m)
    <3>1. g = [i \in 0..m |-> g[i]]
      BY <2>4 DEF g
    <3>2. QED
      BY <2>3, <3>1 DEF Keeps
  <2>6. QED
    BY <1>3, <2>5
<1>6. QED
  BY <1>4, <1>5

\* What is kept of a sequence is a sequence of the elements at the positions.
LEMMA KeptIsSeq ==
  ASSUME NEW s, Len(s) \in Nat, NEW positions
  PROVE  Kept(s, positions) \in Seq({s[i] : i \in positions \cap (1..Len(s))})
<1> DEFINE T == {s[i] : i \in positions \cap (1..Len(s))}
           n == Len(s)
<1>1. PICK f : Keeps(s, positions, f, n) /\ Kept(s, positions) = f[n]
  <2> DEFINE f == CHOOSE f : Keeps(s, positions, f, n)
  <2>1. Keeps(s, positions, f, n)
    BY KeepsExists
  <2>2. Kept(s, positions) = f[n]
    BY DEF Kept, Keeps
  <2>3. QED
    BY <2>1, <2>2
<1> DEFINE Without == {m \in 0..n : f[m] \notin Seq(T)}
<1>2. ASSUME Without # {} PROVE FALSE
  <2>1. Without \subseteq Nat
    OBVIOUS
  <2>2. PICK m \in Without : \A k \in Without : m <= k
    BY <1>2, <2>1, LeastNumber
  <2>3. m \in 0..n /\ f[m] \notin Seq(T)
    OBVIOUS
  <2>4. f[m] = IF m = 0 THEN <<>>
               ELSE IF m \in positions THEN Append(f[m - 1], s[m]) ELSE f[m - 1]
    BY <1>1, <2>3 DEF Keeps
  <2>5. CASE m = 0
    <3>1. <<>> \in Seq(T)
      BY EmptySeq
    <3>2. QED
      BY <2>3, <2>4, <2>5, <3>1
  <2>6. CASE m # 0
    <3>1. m - 1 \in 0..n /\ m \in 1..n
      BY <2>3, <2>6
    <3>2. m - 1 \notin Without
      BY <2>2, <2>3, <2>6
    <3>3. f[m - 1] \in Seq(T)
      BY <3>1, <3>2
    <3>4. m \in positions => s[m] \in T
      BY <3>1
    <3> HIDE DEF T, Without
    <3>5. m \in positions => Append(f[m - 1], s[m]) \in Seq(T)
      BY <3>3, <3>4, AppendProperties
    <3>6. QED
      BY <2>3, <2>4, <2>6, <3>3, <3>5
  <2>7. QED
    BY <2>5, <2>6
<1>3. n \in 0..n
  OBVIOUS
<1>4. QED
  BY <1>1, <1>2, <1>3

-------------------------------------------------------------------------------
(* Decisions.                                                              *)

\* What First returns, for the set of the positions that pass its test.
Chosen(members, passed) ==
  LET i == IF passed # {} THEN Min(passed) ELSE 0 IN
  IF i = 0 THEN NoMember ELSE members[i]

\* It is one of the members, or none.
LEMMA ChosenIsMember ==
  ASSUME NEW members, NEW passed, passed \subseteq 1..Len(members),
         Len(members) \in Nat
  PROVE  \/ Chosen(members, passed) = NoMember
         \/ \E i \in 1..Len(members) : Chosen(members, passed) = members[i]
<1>1. CASE passed = {}
  BY <1>1 DEF Chosen
<1>2. CASE passed # {}
  <2>1. passed \subseteq Nat
    OBVIOUS
  <2>2. Min(passed) \in passed
    BY <1>2, <2>1, MinIsElement
  <2>3. QED
    BY <1>2, <2>2 DEF Chosen
<1>3. QED
  BY <1>1, <1>2

\* A member of a roster, or none.
IsMember(m, roster) == m = NoMember \/ \E i \in 1..Len(roster) : m = roster[i]

\* The first of several choices that is one of them.
LEMMA FirstOfIsMember ==
  ASSUME NEW roster, NEW members, Len(members) \in Nat,
         \A i \in 1..Len(members) : IsMember(members[i], roster)
  PROVE  IsMember(FirstOf(members), roster)
<1> DEFINE passed == {i \in 1..Len(members) : members[i] # NoMember}
<1>1. FirstOf(members) = Chosen(members, passed)
  BY DEF FirstOf, First, SelectInSeq, Chosen
<1> HIDE DEF passed
<1>2. passed \subseteq 1..Len(members)
  BY DEF passed
<1>3. \/ FirstOf(members) = NoMember
      \/ \E i \in 1..Len(members) : FirstOf(members) = members[i]
  BY <1>1, <1>2, ChosenIsMember
<1>4. CASE FirstOf(members) = NoMember
  BY <1>4 DEF IsMember
<1>5. CASE \E i \in 1..Len(members) : FirstOf(members) = members[i]
  BY <1>5
<1>6. QED
  BY <1>3, <1>4, <1>5

\* findMember finds a member, or none.
LEMMA FindMemberIsMember ==
  ASSUME NEW target, NEW roster, Len(roster) \in Nat
  PROVE  IsMember(FindMember(target, roster), roster)
<1> DEFINE t == NormalizeName(target)
           ByName == {i \in 1..Len(roster) : NormalizeName(roster[i].name) = t}
           ByRole == {i \in 1..Len(roster) : NormalizeName(roster[i].role) = t}
           ByPartOfName ==
             {i \in 1..Len(roster) : Overlap(t, NormalizeName(roster[i].name))}
           ByPartOfRole ==
             {i \in 1..Len(roster) : Overlap(t, NormalizeName(roster[i].role))}
           choices == <<Chosen(roster, ByName), Chosen(roster, ByRole),
                        Chosen(roster, ByPartOfName), Chosen(roster, ByPartOfRole)>>
<1>1. FindMember(target, roster) =
        IF t = Empty THEN NoMember ELSE FirstOf(choices)
  BY DEF FindMember, First, SelectInSeq, Chosen
<1>2. /\ ByName \subseteq 1..Len(roster)
      /\ ByRole \subseteq 1..Len(roster)
      /\ ByPartOfName \subseteq 1..Len(roster)
      /\ ByPartOfRole \subseteq 1..Len(roster)
  OBVIOUS
<1> HIDE DEF t, ByName, ByRole, ByPartOfName, ByPartOfRole
<1>3. /\ IsMember(Chosen(roster, ByName), roster)
      /\ IsMember(Chosen(roster, ByRole), roster)
      /\ IsMember(Chosen(roster, ByPartOfName), roster)
      /\ IsMember(Chosen(roster, ByPartOfRole), roster)
  BY <1>2, ChosenIsMember DEF IsMember
<1>4. Len(choices) = 4 /\ \A i \in 1..4 : IsMember(choices[i], roster)
  BY <1>3
<1> HIDE DEF choices
<1>5. IsMember(FirstOf(choices), roster)
  BY <1>4, FirstOfIsMember
<1>6. QED
  BY <1>1, <1>5 DEF IsMember

\* The document has a roster, which is a sequence.
LEMMA RosterIsSeq ==
  ASSUME NEW d \in Docs
  PROVE  Roster(Team[d]) \in Seq(Range(Roster(Team[d])))
<1> DEFINE team == Team[d]
           table == RosterTable(team)
           Named(r) == /\ Empty \notin {Cell(r, "name"), Cell(r, "role")}
                       /\ ~Excluded(Cell(r, "name"))
           positions == {i \in DOMAIN table.rows : Named(table.rows[i])}
           rows == Kept(table.rows, positions)
           member(r) == [name |-> Cell(r, "name"), role |-> Cell(r, "role")]
<1>1. Roster(team) = IF HasColumns(table, {"name", "role"})
                     THEN [i \in DOMAIN rows |-> member(rows[i])] ELSE <<>>
  BY DEF Roster
<1>2. Len(table.rows) \in Nat
  <2>1. table.rows \in Seq(Range(table.rows))
    BY TriageAssumption
  <2>2. QED
    BY <2>1, LenProperties
<1> HIDE DEF table, positions
<1>3. PICK n \in Nat : DOMAIN rows = 1..n
  BY <1>2, KeptIsSeq, LenProperties
<1> HIDE DEF rows, member
<1>4. PICK k \in Nat : /\ DOMAIN Roster(team) = 1..k
                       /\ Roster(team) = [i \in 1..k |-> Roster(team)[i]]
  <2>1. CASE HasColumns(table, {"name", "role"})
    BY <1>1, <1>3, <2>1
  <2>2. CASE ~HasColumns(table, {"name", "role"})
    <3>1. Roster(team) = <<>>
      BY <1>1, <2>2
    <3>2. Roster(team) \in Seq({}) /\ Len(Roster(team)) = 0
      BY <3>1, EmptySeq
    <3>3. Roster(team) \in [1..0 -> {}]
      BY <3>2, LenProperties
    <3>4. QED
      BY <3>3
  <2>3. QED
    BY <2>1, <2>2
<1>5. Roster(team) \in [1..k -> Range(Roster(team))]
  BY <1>4 DEF Range
<1>6. QED
  BY <1>5, SeqDef

\* triageIssue decides for a member of the roster, or nobody.
LEMMA DecisionIsLabel ==
  ASSUME NEW d \in Docs, NEW text \in Texts
  PROVE  Decided(text, d) \in MemberLabels[d] \cup {Empty}
<1> DEFINE roster == Roster(Team[d])
           module == BestModule(text, Modules(Routing[d]))
           rule == BestRule(text, Rules(Routing[d]))
           Calls(m) == \E k \in RoleKeywords :
                         k.role \cap m.role # {} /\ k.issue \cap text # {}
           called == {i \in 1..Len(roster) : Calls(roster[i])}
           leads == {i \in 1..Len(roster) :
                       roster[i].role \cap {"lead", "architect"} # {}}
           choices == <<FindMember(module.primary, roster),
                        FindMember(module.secondary, roster),
                        FindMember(rule.agent, roster),
                        RoleMatch(text, roster),
                        Lead(roster)>>
<1>1. Decided(text, d) = FirstOf(choices).name
  <2>1. Decided(text, d) = Decision(text, Team[d], Routing[d])
    BY DEF Decided, Decisions
  <2>2. QED
    BY <2>1 DEF Decision
<1>2. RoleMatch(text, roster) = Chosen(roster, called)
  BY DEF RoleMatch, First, SelectInSeq, Chosen
<1>3. Lead(roster) = Chosen(roster, leads)
  BY DEF Lead, First, SelectInSeq, Chosen
<1>4. called \subseteq 1..Len(roster) /\ leads \subseteq 1..Len(roster)
  OBVIOUS
<1>5. Len(roster) \in Nat /\ DOMAIN roster = 1..Len(roster)
  BY RosterIsSeq, LenProperties
<1> HIDE DEF roster, module, rule, called, leads
<1>6. IsMember(RoleMatch(text, roster), roster) /\ IsMember(Lead(roster), roster)
  BY <1>2, <1>3, <1>4, <1>5, ChosenIsMember DEF IsMember
<1>7. Len(choices) = 5 /\ \A i \in 1..5 : IsMember(choices[i], roster)
  BY <1>5, <1>6, FindMemberIsMember
<1> HIDE DEF choices
<1>8. IsMember(FirstOf(choices), roster)
  BY <1>7, FirstOfIsMember
<1>9. NoMember.name = Empty
  BY DEF NoMember
<1>10. MemberLabels[d] = {roster[i].name : i \in 1..Len(roster)}
  BY <1>5 DEF MemberLabels, roster
<1>11. QED
  BY <1>1, <1>8, <1>9, <1>10 DEF IsMember

\* A decision for somebody is a label.
LEMMA DecisionType ==
  ASSUME NEW d \in Docs, NEW text \in Texts, Decided(text, d) # Empty
  PROVE  Decided(text, d) \in Labels
<1>1. Decided(text, d) \in MemberLabels[d]
  BY DecisionIsLabel
<1>2. QED
  BY <1>1 DEF Labels

-------------------------------------------------------------------------------
(* Owners of modules.                                                      *)

\* The function that BestModule computes with.
Bests(text, modules, f, n) ==
  f = [i \in 0..n |->
         IF i = 0 THEN NoModule
         ELSE IF /\ Includes(text, modules[i].path)
                 /\ Length(modules[i].path) > Length(f[i - 1].path)
              THEN modules[i] ELSE f[i - 1]]

\* There is such a function of every length, by the least length without one.
LEMMA BestsExists ==
  ASSUME NEW text, NEW modules, NEW n \in Nat
  PROVE  \E f : Bests(text, modules, f, n)
<1> DEFINE Without == {m \in Nat : ~ \E f : Bests(text, modules, f, m)}
<1>1. SUFFICES ASSUME Without # {} PROVE FALSE
  OBVIOUS
<1>2. PICK m \in Without : \A k \in Without : m <= k
  BY <1>1, LeastNumber
<1>3. m \in Nat /\ ~ \E f : Bests(text, modules, f, m)
  OBVIOUS
<1>4. CASE m = 0
  <2> DEFINE f == [i \in 0..0 |-> NoModule]
  <2>1. Bests(text, modules, f, m)
    BY <1>4 DEF Bests
  <2>2. QED
    BY <1>3, <2>1
<1>5. CASE m # 0
  <2>1. m - 1 \in Nat /\ m - 1 \notin Without
    BY <1>2, <1>3, <1>5
  <2>2. PICK f : Bests(text, modules, f, m - 1)
    BY <2>1
  <2> DEFINE Better == /\ Includes(text, modules[m].path)
                       /\ Length(modules[m].path) > Length(f[m - 1].path)
             last == IF Better THEN modules[m] ELSE f[m - 1]
             g == [i \in 0..m |-> IF i = m THEN last ELSE f[i]]
  <2>3. ASSUME NEW i \in 0..m
        PROVE  g[i] = IF i = 0 THEN NoModule
                      ELSE IF /\ Includes(text, modules[i].path)
                              /\ Length(modules[i].path) > Length(g[i - 1].path)
                           THEN modules[i] ELSE g[i - 1]
    <3>1. CASE i = m
      <4>1. g[i] = last /\ g[i - 1] = f[m - 1]
        BY <1>3, <1>5, <3>1
      <4>2. QED
        BY <1>5, <3>1, <4>1
    <3>2. CASE i # m
      <4>1. i \in 0..(m - 1)
        BY <1>3, <3>2
      <4>2. f[i] = IF i = 0 THEN NoModule
                   ELSE IF /\ Includes(text, modules[i].path)
                           /\ Length(modules[i].path) > Length(f[i - 1].path)
                        THEN modules[i] ELSE f[i - 1]
        BY <2>2, <4>1 DEF Bests
      <4>3. g[i] = f[i] /\ (i # 0 => g[i - 1] = f[i - 1])
        BY <1>3, <4>1
      <4>4. QED
        BY <4>2, <4>3
    <3>3. QED
      BY <3>1, <3>2
  <2>4. DOMAIN g = 0..m
    OBVIOUS
  <2> HIDE DEF g
  <2>5. Bests(text, modules, g, m)
    <3>1. g = [i \in 0..m |-> g[i]]
      BY <2>4 DEF g
    <3>2. QED
      BY <2>3, <3>1 DEF Bests
  <2>6. QED
    BY <1>3, <2>5
<1>6. QED
  BY <1>4, <1>5

\* No path in the text is longer than that of the best module, which is none or
\* has a path in the text.
LEMMA BestModuleIsBest ==
  ASSUME NEW text, NEW modules, Len(modules) \in Nat,
         \A i \in 1..Len(modules) : Length(modules[i].path) \in Nat
  PROVE  LET best == BestModule(text, modules)
             Matching == {i \in 1..Len(modules) : Includes(text, modules[i].path)}
         IN  /\ best = NoModule \/ \E i \in Matching : best = modules[i]
             /\ \A i \in Matching : Length(modules[i].path) <= Length(best.path)
<1> DEFINE n == Len(modules)
           Matches(i) == Includes(text, modules[i].path)
           Size(i) == Length(modules[i].path)
<1>1. PICK f : Bests(text, modules, f, n) /\ BestModule(text, modules) = f[n]
  <2> DEFINE f == CHOOSE f : Bests(text, modules, f, n)
  <2>1. Bests(text, modules, f, n)
    BY BestsExists
  <2>2. BestModule(text, modules) = f[n]
    BY DEF BestModule, Bests
  <2>3. QED
    BY <2>1, <2>2
<1> DEFINE Good(m) ==
             /\ \/ f[m] = NoModule
                \/ \E i \in 1..m : Matches(i) /\ f[m] = modules[i]
             /\ Length(f[m].path) \in Nat
             /\ \A i \in 1..m : Matches(i) => Size(i) <= Length(f[m].path)
           Without == {m \in 0..n : ~Good(m)}
<1>2. ASSUME Without # {} PROVE FALSE
  <2>1. Without \subseteq Nat
    OBVIOUS
  <2>2. PICK m \in Without : \A k \in Without : m <= k
    BY <1>2, <2>1, LeastNumber
  <2>3. m \in 0..n /\ ~Good(m)
    OBVIOUS
  <2>4. f[m] = IF m = 0 THEN NoModule
               ELSE IF Matches(m) /\ Size(m) > Length(f[m - 1].path)
                    THEN modules[m] ELSE f[m - 1]
    BY <1>1, <2>3 DEF Bests
  <2>5. CASE m = 0
    <3>1. f[m] = NoModule /\ NoModule.path = {}
      BY <2>4, <2>5 DEF NoModule, Empty
    <3>2. Length(f[m].path) = 0
      BY <3>1, FS_EmptySet DEF Length
    <3>3. 1..m = {}
      BY <2>5
    <3>4. f[m] = NoModule /\ Length(f[m].path) \in Nat
      BY <3>1, <3>2
    <3> HIDE DEF Matches, Size, Without
    <3>5. Good(m)
      BY <3>3, <3>4
    <3>6. QED
      BY <2>3, <3>5
  <2>6. CASE m # 0
    <3>1. m - 1 \in 0..n /\ m \in 1..n /\ 1..m = 1..(m - 1) \cup {m}
      BY <2>3, <2>6
    <3>2. m - 1 \notin Without
      BY <2>2, <2>3, <2>6
    <3>3. Good(m - 1)
      BY <3>1, <3>2
    <3>4. Size(m) \in Nat
      BY <3>1
    <3> HIDE DEF Matches, Size, Without
    <3>5. CASE Matches(m) /\ Size(m) > Length(f[m - 1].path)
      <4>1. f[m] = modules[m] /\ Length(f[m].path) = Size(m)
        BY <2>4, <2>6, <3>5 DEF Size
      <4>2. ASSUME NEW i \in 1..(m - 1), Matches(i) PROVE Size(i) <= Size(m)
        <5>1. Size(i) <= Length(f[m - 1].path) /\ Size(i) \in Nat
          BY <3>1, <3>3, <4>2 DEF Size
        <5>2. QED
          BY <3>3, <3>4, <3>5, <5>1
      <4>3. QED
        BY <2>3, <3>1, <3>4, <3>5, <4>1, <4>2
    <3>6. CASE ~(Matches(m) /\ Size(m) > Length(f[m - 1].path))
      <4>1. f[m] = f[m - 1]
        BY <2>4, <2>6, <3>6
      <4>2. Matches(m) => Size(m) <= Length(f[m - 1].path)
        BY <3>3, <3>4, <3>6
      <4>3. QED
        BY <2>3, <3>1, <3>3, <4>1, <4>2
    <3>7. QED
      BY <3>5, <3>6
  <2>7. QED
    BY <2>5, <2>6
<1>3. n \in 0..n
  OBVIOUS
<1>4. Good(n)
  BY <1>2, <1>3
<1>5. QED
  BY <1>1, <1>4

\* The rows of the table of modules that count have a path, which has a size.
LEMMA ModulesHavePaths ==
  ASSUME NEW d \in Docs
  PROVE  LET modules == Modules(Routing[d])
         IN  /\ Len(modules) \in Nat
             /\ DOMAIN modules = 1..Len(modules)
             /\ \A i \in 1..Len(modules) :
                  Length(modules[i].path) \in Nat /\ Length(modules[i].path) # 0
<1> DEFINE table == Routing[d].modules
           Valid(r) == Empty \notin {Cell(r, "module"), Cell(r, "primary")}
           positions == {i \in DOMAIN table.rows : Valid(table.rows[i])}
           rows == Kept(table.rows, positions)
           Owners(r) == [path |-> Cell(r, "module"), primary |-> Cell(r, "primary"),
                         secondary |-> NormalizeName(Cell(r, "secondary"))]
           Good == {table.rows[i] : i \in positions \cap (1..Len(table.rows))}
<1>1. Modules(Routing[d]) =
        IF HasColumns(table, {"module", "primary"})
        THEN [i \in DOMAIN rows |-> Owners(rows[i])] ELSE <<>>
  BY DEF Modules
<1>2. /\ table.rows \in Seq(Range(table.rows))
      /\ \A row \in Range(table.rows), column \in table.columns :
           IsFiniteSet(Cell(row, column))
  BY TriageAssumption
<1>3. Len(table.rows) \in Nat
  BY <1>2, LenProperties
<1>4. rows \in Seq(Good)
  BY <1>3, KeptIsSeq
<1>5. ASSUME HasColumns(table, {"module", "primary"}), NEW r \in Good
      PROVE  Length(Owners(r).path) \in Nat /\ Length(Owners(r).path) # 0
  <2>1. Cell(r, "module") # {} /\ r \in Range(table.rows)
    BY DEF Range, Empty
  <2>2. IsFiniteSet(Cell(r, "module"))
    BY <1>2, <1>5, <2>1 DEF HasColumns
  <2>3. Owners(r).path = Cell(r, "module")
    OBVIOUS
  <2>4. QED
    BY <2>1, <2>2, <2>3, FS_EmptySet, FS_CardinalityType DEF Length
<1> HIDE DEF table, positions, rows, Owners, Good
<1>6. /\ Len(rows) \in Nat
      /\ DOMAIN rows = 1..Len(rows)
      /\ \A i \in 1..Len(rows) : rows[i] \in Good
  BY <1>4, LenProperties, ElementOfSeq
<1>7. CASE HasColumns(table, {"module", "primary"})
  <2>1. PICK modules : modules = [i \in 1..Len(rows) |-> Owners(rows[i])]
    OBVIOUS
  <2>2. Modules(Routing[d]) = modules
    BY <1>1, <1>6, <1>7, <2>1
  <2>3. Len(modules) = Len(rows) /\ DOMAIN modules = 1..Len(modules)
    BY <1>6, <2>1
  <2>4. QED
    BY <1>5, <1>6, <1>7, <2>1, <2>2, <2>3
<1>8. CASE ~HasColumns(table, {"module", "primary"})
  <2>1. Modules(Routing[d]) = <<>>
    BY <1>1, <1>8
  <2>2. QED
    BY <2>1
<1>9. QED
  BY <1>7, <1>8

\* The first of several choices, if it is somebody.
LEMMA FirstIsChosen ==
  ASSUME NEW members, Len(members) \in Nat, Len(members) # 0,
         members[1] # NoMember
  PROVE  FirstOf(members) = members[1]
<1> DEFINE passed == {i \in 1..Len(members) : members[i] # NoMember}
<1>1. FirstOf(members) = Chosen(members, passed)
  BY DEF FirstOf, First, SelectInSeq, Chosen
<1>2. 1 \in passed /\ passed \subseteq Nat /\ \A i \in passed : 1 <= i
  OBVIOUS
<1> HIDE DEF passed
<1>3. Min(passed) \in passed /\ Min(passed) <= 1
  BY <1>2, MinIsLeast
<1>4. Min(passed) = 1
  <2>1. \A k \in Nat : k <= 1 /\ 1 <= k => k = 1
    OBVIOUS
  <2>2. QED
    BY <1>2, <1>3, <2>1
<1>5. QED
  BY <1>1, <1>2, <1>4 DEF Chosen

\* A name that normalisation neither empties nor makes another's is found.
LEMMA FindMemberByName ==
  ASSUME NEW roster, Len(roster) \in Nat, NEW names, NEW name \in Recognised(names),
         names = {roster[i].name : i \in 1..Len(roster)}
  PROVE  FindMember(name, roster).name = name /\ FindMember(name, roster) # NoMember
<1> DEFINE t == NormalizeName(name)
           ByName == {i \in 1..Len(roster) : NormalizeName(roster[i].name) = t}
           ByRole == {i \in 1..Len(roster) : NormalizeName(roster[i].role) = t}
           ByPartOfName ==
             {i \in 1..Len(roster) : Overlap(t, NormalizeName(roster[i].name))}
           ByPartOfRole ==
             {i \in 1..Len(roster) : Overlap(t, NormalizeName(roster[i].role))}
           choices == <<Chosen(roster, ByName), Chosen(roster, ByRole),
                        Chosen(roster, ByPartOfName), Chosen(roster, ByPartOfRole)>>
<1>1. FindMember(name, roster) =
        IF t = Empty THEN NoMember ELSE FirstOf(choices)
  BY DEF FindMember, First, SelectInSeq, Chosen
<1>2. t # Empty
  BY DEF Recognised
<1>3. PICK i \in 1..Len(roster) : roster[i].name = name
  BY DEF Recognised
<1>4. i \in ByName /\ ByName \subseteq 1..Len(roster)
  BY <1>3
<1>5. ASSUME NEW j \in ByName PROVE roster[j].name = name
  BY DEF Recognised
<1>6. name # Empty
  BY <1>2 DEF NormalizeName, Empty
<1> HIDE DEF t, ByName, ByRole, ByPartOfName, ByPartOfRole
<1>7. Min(ByName) \in ByName
  <2>1. ByName \subseteq Nat /\ ByName # {}
    BY <1>4
  <2>2. QED
    BY <2>1, MinIsElement
<1>8. Chosen(roster, ByName) = roster[Min(ByName)]
  BY <1>4, <1>7 DEF Chosen
<1>9. Chosen(roster, ByName).name = name /\ Chosen(roster, ByName) # NoMember
  BY <1>5, <1>6, <1>7, <1>8 DEF NoMember
<1>10. Len(choices) = 4 /\ choices[1] = Chosen(roster, ByName)
  OBVIOUS
<1> HIDE DEF choices
<1>11. FirstOf(choices) = choices[1]
  BY <1>9, <1>10, FirstIsChosen
<1>12. QED
  BY <1>1, <1>2, <1>9, <1>10, <1>11

\* The primary owner of the most specific module gets the issue.
LEMMA OwnerIsDecided ==
  ASSUME NEW text \in Texts, NEW d \in Docs, NEW name \in ModuleOwners[d][text]
  PROVE  Decided(text, d) = name
<1> DEFINE roster == Roster(Team[d])
           modules == Modules(Routing[d])
           best == BestModule(text, modules)
           rule == BestRule(text, Rules(Routing[d]))
           choices == <<FindMember(best.primary, roster),
                        FindMember(best.secondary, roster),
                        FindMember(rule.agent, roster),
                        RoleMatch(text, roster),
                        Lead(roster)>>
<1>1. PICK m \in MostSpecific(text, Routing[d]) : m.primary = name
  BY DEF ModuleOwners
<1>2. name \in Recognised(MemberLabels[d])
  BY DEF ModuleOwners
<1>3. /\ Len(modules) \in Nat
      /\ DOMAIN modules = 1..Len(modules)
      /\ \A i \in 1..Len(modules) :
           Length(modules[i].path) \in Nat /\ Length(modules[i].path) # 0
  BY ModulesHavePaths
<1>4. /\ best = NoModule
         \/ \E i \in 1..Len(modules) :
              Includes(text, modules[i].path) /\ best = modules[i]
      /\ \A i \in 1..Len(modules) :
           Includes(text, modules[i].path) =>
             Length(modules[i].path) <= Length(best.path)
  BY <1>3, BestModuleIsBest
<1>5. MatchingModules(text, Routing[d]) =
        {modules[i] : i \in {j \in 1..Len(modules) : Includes(text, modules[j].path)}}
  BY <1>3 DEF MatchingModules
<1>6. PICK k \in 1..Len(modules) :
        Includes(text, modules[k].path) /\ m = modules[k]
  BY <1>1, <1>5 DEF MostSpecific
<1>7. \A i \in 1..Len(modules) :
        Includes(text, modules[i].path) =>
          modules[i] = m \/ Length(modules[i].path) < Length(m.path)
  BY <1>1, <1>5 DEF MostSpecific
<1>8. Len(roster) \in Nat /\ DOMAIN roster = 1..Len(roster)
  BY RosterIsSeq, LenProperties
<1>9. MemberLabels[d] = {roster[i].name : i \in 1..Len(roster)}
  BY <1>8 DEF MemberLabels
<1>10. Decided(text, d) = FirstOf(choices).name
  <2>1. Decided(text, d) = Decision(text, Team[d], Routing[d])
    BY DEF Decided, Decisions
  <2>2. QED
    BY <2>1 DEF Decision
<1> HIDE DEF roster, modules, best, rule
<1>11. best = m
  <2>1. Length(m.path) <= Length(best.path) /\ Length(m.path) \in Nat \ {0}
    BY <1>3, <1>4, <1>6
  <2>2. CASE best = NoModule
    <3>1. best.path = {}
      BY <2>2 DEF NoModule, Empty
    <3>2. Length(best.path) = 0
      BY <3>1, FS_EmptySet DEF Length
    <3>3. ~ \E k1 \in Nat \ {0} : k1 <= 0
      OBVIOUS
    <3>4. QED
      BY <2>1, <3>2, <3>3
  <2>3. CASE \E i \in 1..Len(modules) :
               Includes(text, modules[i].path) /\ best = modules[i]
    <3>1. PICK i \in 1..Len(modules) :
            Includes(text, modules[i].path) /\ best = modules[i]
      BY <2>3
    <3>2. Length(best.path) \in Nat
      BY <1>3, <3>1
    <3>3. best = m \/ Length(best.path) < Length(m.path)
      BY <1>7, <3>1
    <3>4. ~(Length(best.path) < Length(m.path))
      BY <2>1, <3>2
    <3>5. QED
      BY <3>3, <3>4
  <2>4. QED
    BY <1>4, <2>2, <2>3
<1>12. /\ FindMember(best.primary, roster).name = name
       /\ FindMember(best.primary, roster) # NoMember
  BY <1>1, <1>2, <1>8, <1>9, <1>11, FindMemberByName
<1>13. Len(choices) = 5 /\ choices[1] = FindMember(best.primary, roster)
  OBVIOUS
<1> HIDE DEF choices
<1>14. FirstOf(choices) = choices[1]
  BY <1>12, <1>13, FirstIsChosen
<1>15. QED
  BY <1>10, <1>12, <1>13, <1>14

-------------------------------------------------------------------------------
(* The inductive invariant.                                                *)

\* What a run has read of an issue.
Entry == [number : Numbers, text : Texts, labels : SUBSET Labels, pr : BOOLEAN]

\* What it may have read: a text the issue has had.
Read == {e \in Entry : e.text \in issues[e.number].texts}

\* What it may apply: the decision on a text the issue has had, under documents
\* that a run has checked out.
Explained ==
  {x \in Result :
     \E text \in issues[x.number].texts, d \in versions :
       x.label = Decided(text, d)}

\* What a run holds is explained by the history, and a comment is only due for
\* a label that was added.
RunInv(run) ==
  /\ run.pc = "fetch" => run.docs \in versions
  /\ run.all \in Seq(Read)
  /\ run.results \in Seq(Explained)
  /\ run.pc = "comment" =>
       Head(run.results).label \in issues[Head(run.results).number].labelled

\* An issue has had its text since it was opened.
HistoryInv ==
  \A n \in Numbers :
    IF issues[n].state = "new" THEN issues[n].texts = {}
    ELSE issues[n].text \in issues[n].texts

IssuesInv == HistoryInv /\ OwnersAreDecided /\ CommentsTellTheTruth

RunsInv == \A r \in Runs : RunInv(runs[r])

IInv == TypeOK /\ IssuesInv /\ RunsInv

\* What TypeOK says of the runs and of the rest.
RunType(run) ==
  run \in Run /\ (run.pc \in {"label", "comment"} <=> run.results # <<>>)

RunsTyped == runs \in [Runs -> Run] /\ \A r \in Runs : RunType(runs[r])

IssuesTyped ==
  /\ docs \in Docs /\ versions \subseteq Docs
  /\ issues \in [Numbers -> Issue]

\* History only grows.
Grows ==
  /\ versions \subseteq versions'
  /\ \A n \in Numbers : /\ issues[n].texts \subseteq issues'[n].texts
                        /\ issues[n].labelled \subseteq issues'[n].labelled

\* The types are those of the runs, of the issues and of two counters.
LEMMA Types ==
  TypeOK <=> /\ IssuesTyped /\ RunsTyped
             /\ touches \in 0..MaxTouches /\ faults \in 0..MaxFaults
BY DEF TypeOK, IssuesTyped, RunsTyped, RunType, Run

\* What is explained stays so.
LEMMA RunStays ==
  ASSUME NEW run, RunInv(run), Grows, RunType(run)
  PROVE  RunInv(run)'
<1>1. Read \subseteq Read'
  BY DEF Read, Entry, Grows
<1>2. Explained \subseteq Explained'
  BY DEF Explained, Result, Grows
<1>3. run.all \in Seq(Read') /\ run.results \in Seq(Explained')
  BY <1>1, <1>2, SeqMonotonic DEF RunInv
<1>4. ASSUME run.pc = "comment"
      PROVE  Head(run.results).label \in issues'[Head(run.results).number].labelled
  <2>1. run.results # <<>> /\ run.results \in Seq(Result)
    BY <1>4 DEF RunType, Run
  <2>2. Head(run.results) \in Result
    BY <2>1, HeadTailProperties
  <2>3. Head(run.results).number \in Numbers
    BY <2>2 DEF Result
  <2>4. QED
    BY <1>4, <2>3 DEF RunInv, Grows
<1>5. QED
  BY <1>3, <1>4 DEF RunInv, Grows

\* No run takes a step.
LEMMA RunsStay ==
  ASSUME RunsTyped, RunsInv, Grows, runs' = runs
  PROVE  RunsTyped' /\ RunsInv'
<1>1. \A r \in Runs : RunInv(runs[r])'
  <2>1. ASSUME NEW r \in Runs PROVE RunInv(runs[r])'
    <3>1. PICK run : run = runs[r]
      OBVIOUS
    <3>2. RunInv(run) /\ RunType(run)
      BY <3>1 DEF RunsInv, RunsTyped
    <3>3. RunInv(run)'
      BY <3>2, RunStays
    <3>4. QED
      BY <3>1, <3>3 DEF RunInv
  <2>2. QED
    BY <2>1
<1>2. QED
  BY <1>1 DEF RunsTyped, RunsInv, RunType

\* One run takes a step.
LEMMA RunSteps ==
  ASSUME RunsTyped, RunsInv, Grows, NEW r \in Runs, NEW run,
         Set(r, run), RunType(run), RunInv(run)'
  PROVE  RunsTyped' /\ RunsInv'
<1>1. /\ runs' = [runs EXCEPT ![r] = run]
      /\ runs \in [Runs -> Run]
      /\ run \in Run
  BY DEF Set, RunsTyped, RunType
<1>2. runs' \in [Runs -> Run] /\ runs'[r] = run
  BY <1>1
<1>3. ASSUME NEW other \in Runs
      PROVE  RunInv(runs[other])' /\ RunType(runs'[other])
  <2>1. PICK held : held = runs'[other]
    OBVIOUS
  <2>2. CASE other = r
    BY <1>2, <2>2 DEF RunInv
  <2>3. CASE other # r
    <3>1. held = runs[other]
      BY <1>1, <2>1, <2>3
    <3>2. RunInv(held) /\ RunType(held)
      BY <3>1 DEF RunsInv, RunsTyped
    <3>3. RunInv(held)'
      BY <3>2, RunStays
    <3>4. QED
      BY <2>1, <3>2, <3>3 DEF RunInv
  <2>4. QED
    BY <2>2, <2>3
<1>4. QED
  BY <1>2, <1>3 DEF RunsTyped, RunsInv, RunType

-------------------------------------------------------------------------------
(* Issues.                                                                 *)

\* One issue changes.
LEMMA IssueChanges ==
  ASSUME IssuesTyped, IssuesInv, NEW n \in Numbers, NEW issue \in Issue,
         issues' = [issues EXCEPT ![n] = issue],
         UNCHANGED <<docs, versions>>,
         issues[n].texts \subseteq issue.texts,
         issues[n].labelled \subseteq issue.labelled,
         IF issue.state = "new" THEN issue.texts = {} ELSE issue.text \in issue.texts,
         \A label \in issue.labels \ issue.assigned :
           \/ label \in issues[n].labels \ issues[n].assigned
           \/ \E text \in issues[n].texts, d \in versions :
                label = Decided(text, d),
         issue.comments \subseteq issue.labelled
  PROVE  IssuesTyped' /\ IssuesInv' /\ Grows
<1>1. /\ issues \in [Numbers -> Issue]
      /\ issues' \in [Numbers -> Issue]
      /\ issues'[n] = issue
      /\ \A m \in Numbers : m # n => issues'[m] = issues[m]
  BY DEF IssuesTyped
<1>2. IssuesTyped'
  BY <1>1 DEF IssuesTyped
<1>3. Grows
  BY <1>1 DEF Grows
<1>4. HistoryInv'
  BY <1>1 DEF IssuesInv, HistoryInv
<1>5. CommentsTellTheTruth'
  BY <1>1 DEF IssuesInv, CommentsTellTheTruth
<1>6. OwnersAreDecided'
  <2>1. ASSUME NEW m \in Numbers, NEW label \in issues'[m].labels \ issues'[m].assigned
        PROVE  \E text \in issues'[m].texts, d \in versions' :
                 label = Decided(text, d)
    <3>1. \E text \in issues[m].texts, d \in versions : label = Decided(text, d)
      <4>1. CASE m = n /\ label \notin issues[n].labels \ issues[n].assigned
        BY <1>1, <2>1, <4>1
      <4>2. CASE m = n /\ label \in issues[n].labels \ issues[n].assigned
        BY <4>2 DEF IssuesInv, OwnersAreDecided
      <4>3. CASE m # n
        BY <1>1, <2>1, <4>3 DEF IssuesInv, OwnersAreDecided
      <4>4. QED
        BY <4>1, <4>2, <4>3
    <3>2. QED
      BY <1>3, <3>1 DEF Grows
  <2>2. QED
    BY <2>1 DEF OwnersAreDecided, Decided, Decisions
<1>7. QED
  BY <1>2, <1>3, <1>4, <1>5, <1>6 DEF IssuesInv

\* No issue changes, whatever becomes of the documents.
LEMMA IssuesStay ==
  ASSUME IssuesTyped, IssuesInv, UNCHANGED issues, docs' \in Docs,
         versions \subseteq versions', versions' \subseteq Docs
  PROVE  IssuesTyped' /\ IssuesInv' /\ Grows
<1>1. IssuesTyped' /\ Grows
  BY DEF IssuesTyped, Grows
<1>2. HistoryInv' /\ CommentsTellTheTruth'
  BY DEF IssuesInv, HistoryInv, CommentsTellTheTruth
<1>3. OwnersAreDecided'
  <2>1. ASSUME NEW m \in Numbers, NEW label \in issues'[m].labels \ issues'[m].assigned
        PROVE  \E text \in issues'[m].texts, d \in versions' :
                 label = Decided(text, d)
    BY DEF IssuesInv, OwnersAreDecided
  <2>2. QED
    BY <2>1 DEF OwnersAreDecided, Decided, Decisions
<1>4. QED
  BY <1>1, <1>2, <1>3 DEF IssuesInv

-------------------------------------------------------------------------------
(* People.                                                                 *)

\* An issue has the fields of an issue, and its history.
LEMMA IssueFields ==
  ASSUME IssuesTyped, IssuesInv, NEW n \in Numbers
  PROVE  /\ issues[n] \in Issue
         /\ IF issues[n].state = "new" THEN issues[n].texts = {}
            ELSE issues[n].text \in issues[n].texts
         /\ issues[n].comments \subseteq issues[n].labelled
         /\ \A label \in issues[n].labels \ issues[n].assigned :
              \E text \in issues[n].texts, d \in versions :
                label = Decided(text, d)
BY DEF IssuesTyped, IssuesInv, HistoryInv, CommentsTellTheTruth, OwnersAreDecided

\* What people do to issues and documents leaves them typed and explained.
LEMMA PeopleStep ==
  ASSUME IssuesTyped, IssuesInv, People
  PROVE  IssuesTyped' /\ IssuesInv' /\ Grows
<1>1. ASSUME NEW n \in Numbers, NEW text \in Texts, NEW pr \in BOOLEAN,
             Open(n, text, pr)
      PROVE  IssuesTyped' /\ IssuesInv' /\ Grows
  <2> DEFINE issue == [issues[n] EXCEPT !.state = "open", !.text = text,
                                        !.pr = pr, !.texts = {text}]
  <2>1. /\ issues[n].state = "new"
        /\ issues' = [issues EXCEPT ![n] = issue]
        /\ UNCHANGED <<docs, versions>>
    BY <1>1 DEF Open, IssuesTyped
  <2>2. /\ issue \in Issue
        /\ issue.state = "open"
        /\ issue.text = text
        /\ issue.texts = {text}
        /\ issue.labels = issues[n].labels
        /\ issue.comments = issues[n].comments
        /\ issue.assigned = issues[n].assigned
        /\ issue.labelled = issues[n].labelled
    BY IssueFields DEF Issue
  <2> HIDE DEF issue
  <2>3. QED
    BY <2>1, <2>2, IssueFields, IssueChanges
<1>2. ASSUME NEW n \in Numbers, NEW text \in Texts, Edit(n, text)
      PROVE  IssuesTyped' /\ IssuesInv' /\ Grows
  <2> DEFINE issue == [issues[n] EXCEPT !.text = text,
                                        !.texts = @ \cup {text}]
  <2>1. /\ issues[n].state = "open"
        /\ issues' = [issues EXCEPT ![n] = issue]
        /\ UNCHANGED <<docs, versions>>
    BY <1>2 DEF Edit, IssuesTyped
  <2>2. /\ issue \in Issue
        /\ issue.state = "open"
        /\ issue.text = text
        /\ issue.texts = issues[n].texts \cup {text}
        /\ issue.labels = issues[n].labels
        /\ issue.comments = issues[n].comments
        /\ issue.assigned = issues[n].assigned
        /\ issue.labelled = issues[n].labelled
    BY <2>1, IssueFields DEF Issue
  <2> HIDE DEF issue
  <2>3. QED
    BY <2>1, <2>2, IssueFields, IssueChanges
<1>3. ASSUME NEW n \in Numbers, Close(n)
      PROVE  IssuesTyped' /\ IssuesInv' /\ Grows
  <2> DEFINE issue == [issues[n] EXCEPT !.state = "closed"]
  <2>1. /\ issues[n].state = "open"
        /\ issues' = [issues EXCEPT ![n] = issue]
        /\ UNCHANGED <<docs, versions>>
    BY <1>3 DEF Close, IssuesTyped
  <2>2. /\ issue \in Issue
        /\ issue.state = "closed"
        /\ issue.text = issues[n].text
        /\ issue.texts = issues[n].texts
        /\ issue.labels = issues[n].labels
        /\ issue.comments = issues[n].comments
        /\ issue.assigned = issues[n].assigned
        /\ issue.labelled = issues[n].labelled
    BY IssueFields DEF Issue
  <2> HIDE DEF issue
  <2>3. QED
    BY <2>1, <2>2, IssueFields, IssueChanges
<1>4. ASSUME NEW n \in Numbers, NEW label \in Labels, Assign(n, label)
      PROVE  IssuesTyped' /\ IssuesInv' /\ Grows
  <2> DEFINE issue == [issues[n] EXCEPT !.labels = @ \cup {label},
                                        !.assigned = @ \cup {label},
                                        !.labelled = @ \cup {label}]
  <2>1. /\ issues' = [issues EXCEPT ![n] = issue]
        /\ UNCHANGED <<docs, versions>>
    BY <1>4 DEF Assign, IssuesTyped
  <2>2. /\ issue \in Issue
        /\ issue.state = issues[n].state
        /\ issue.text = issues[n].text
        /\ issue.texts = issues[n].texts
        /\ issue.labels = issues[n].labels \cup {label}
        /\ issue.comments = issues[n].comments
        /\ issue.assigned = issues[n].assigned \cup {label}
        /\ issue.labelled = issues[n].labelled \cup {label}
    BY IssueFields DEF Issue
  <2> HIDE DEF issue
  <2>3. QED
    BY <2>1, <2>2, IssueFields, IssueChanges
<1>5. ASSUME NEW n \in Numbers, NEW label \in Labels, Unassign(n, label)
      PROVE  IssuesTyped' /\ IssuesInv' /\ Grows
  <2> DEFINE issue == [issues[n] EXCEPT !.labels = @ \ {label}]
  <2>1. /\ issues' = [issues EXCEPT ![n] = issue]
        /\ UNCHANGED <<docs, versions>>
    BY <1>5 DEF Unassign, IssuesTyped
  <2>2. /\ issue \in Issue
        /\ issue.state = issues[n].state
        /\ issue.text = issues[n].text
        /\ issue.texts = issues[n].texts
        /\ issue.labels = issues[n].labels \ {label}
        /\ issue.comments = issues[n].comments
        /\ issue.assigned = issues[n].assigned
        /\ issue.labelled = issues[n].labelled
    BY IssueFields DEF Issue
  <2> HIDE DEF issue
  <2>3. QED
    BY <2>1, <2>2, IssueFields, IssueChanges
<1>6. ASSUME NEW d \in Docs, Commit(d)
      PROVE  IssuesTyped' /\ IssuesInv' /\ Grows
  <2>1. docs' = d /\ versions' = versions /\ issues' = issues
    BY <1>6 DEF Commit
  <2>2. QED
    BY <2>1, IssuesStay DEF IssuesTyped
<1>7. QED
  BY <1>1, <1>2, <1>3, <1>4, <1>5, <1>6 DEF People

\* The counters keep their bounds.
LEMMA Counters ==
  ASSUME touches \in 0..MaxTouches, faults \in 0..MaxFaults, [Next]_vars
  PROVE  touches' \in 0..MaxTouches /\ faults' \in 0..MaxFaults
<1>1. ASSUME People
      PROVE  faults' = faults /\ (touches' = touches \/ Touch)
  <2>1. ASSUME NEW n \in Numbers, NEW text \in Texts, NEW pr \in BOOLEAN,
               Open(n, text, pr)
        PROVE  faults' = faults /\ touches' = touches
    BY <2>1 DEF Open
  <2>2. ASSUME NEW n \in Numbers, NEW text \in Texts, Edit(n, text)
        PROVE  Touch
    BY <2>2 DEF Edit
  <2>3. ASSUME NEW n \in Numbers, Close(n) PROVE Touch
    BY <2>3 DEF Close
  <2>4. ASSUME NEW n \in Numbers, NEW label \in Labels,
               Assign(n, label) \/ Unassign(n, label)
        PROVE  Touch
    BY <2>4 DEF Assign, Unassign
  <2>5. ASSUME NEW d \in Docs, Commit(d) PROVE Touch
    BY <2>5 DEF Commit
  <2>6. Touch => faults' = faults
    BY DEF Touch
  <2>7. QED
    BY <1>1, <2>1, <2>2, <2>3, <2>4, <2>5, <2>6 DEF People
<1>2. ASSUME NEW r \in Runs, Heartbeat(r)
      PROVE  \/ touches' = touches /\ (faults' = faults \/ Fault)
             \/ /\ touches < MaxTouches /\ touches' = touches + 1
                /\ faults' = faults
  <2>1. Start(r) \/ Proceed(r) => touches' = touches /\ faults' = faults
    BY DEF Start, CheckOut, Proceed, FetchPage, AddLabel, CreateComment
  <2>2. FailFetch(r) \/ FailApply(r) => Fault
    BY DEF FailFetch, FailApply
  <2>3. Fault => touches' = touches
    BY DEF Fault
  <2>4. ASSUME NEW d \in Docs, StartElsewhere(r, d)
        PROVE  /\ touches < MaxTouches /\ touches' = touches + 1
               /\ faults' = faults
    BY <2>4 DEF StartElsewhere, CheckOut
  <2>5. QED
    BY <1>2, <2>1, <2>2, <2>3, <2>4 DEF Heartbeat
<1>3. Touch => touches < MaxTouches /\ touches' = touches + 1
  BY DEF Touch
<1>4. Fault => faults < MaxFaults /\ faults' = faults + 1
  BY DEF Fault
<1>5. CASE People
  BY <1>1, <1>3, <1>5, TriageAssumption
<1>6. CASE \E r \in Runs : Heartbeat(r)
  <2>1. PICK r \in Runs : Heartbeat(r)
    BY <1>6
  <2>2. \/ touches' = touches /\ (faults' = faults \/ Fault)
        \/ touches < MaxTouches /\ touches' = touches + 1 /\ faults' = faults
    BY <1>2, <2>1
  <2>3. QED
    BY <1>4, <2>2, TriageAssumption
<1>7. CASE UNCHANGED vars
  BY <1>7 DEF vars
<1>8. QED
  BY <1>5, <1>6, <1>7 DEF Next

-------------------------------------------------------------------------------
(* Runs.                                                                   *)

\* The fields of a run that is not under way.
LEMMA IdleFields ==
  Idle \in [pc : {"idle"}, docs : Docs, page : {1}, all : {<<>>}, results : {<<>>}]
<1> DEFINE none == <<>>
<1>1. Idle \in [pc : {"idle"}, docs : Docs, page : {1}, all : {none},
                results : {none}]
  BY TriageAssumption DEF Idle
<1>2. QED
  BY <1>1

\* A run that has read nothing and has nothing to apply, with the documents it
\* holds checked out before or by this step.
LEMMA BlankRun ==
  ASSUME NEW pc \in {"idle", "fetch"}, NEW d \in Docs,
         NEW run \in [pc : {pc}, docs : {d}, page : {1}, all : {<<>>},
                      results : {<<>>}]
  PROVE  /\ RunType(run)
         /\ pc = "idle" => RunInv(run)
         /\ d \in versions' => RunInv(run)'
<1> DEFINE none == <<>>
<1>1. /\ none \in Seq(Entry) /\ none \in Seq(Read) /\ none \in Seq(Read')
      /\ none \in Seq(Result) /\ none \in Seq(Explained)
      /\ none \in Seq(Explained')
  BY EmptySeq
<1>2. run \in [pc : {pc}, docs : {d}, page : {1}, all : {none}, results : {none}]
  OBVIOUS
<1>3. run.results = <<>>
  BY <1>2
<1> HIDE DEF none
<1>4. RunType(run)
  BY <1>1, <1>2, <1>3 DEF RunType, Run, Entry
<1>5. pc = "idle" => RunInv(run)
  BY <1>1, <1>2 DEF RunInv
<1>6. d \in versions' => RunInv(run)'
  BY <1>1, <1>2 DEF RunInv
<1>7. QED
  BY <1>4, <1>5, <1>6

\* A run that ends holds nothing.
LEMMA IdleRun ==
  RunType(Idle) /\ RunInv(Idle)
<1>1. PICK d \in Docs :
        Idle \in [pc : {"idle"}, docs : {d}, page : {1}, all : {<<>>},
                  results : {<<>>}]
  BY IdleFields
<1>2. QED
  BY <1>1, BlankRun

\* The listing has the issues that are open.
LEMMA ListingIsOpen ==
  ASSUME IssuesTyped
  PROVE  Listing \in Seq({n \in Numbers : issues[n].state = "open"})
<1> DEFINE newest == [i \in Numbers |-> LastIssue + 1 - i]
           positions == {i \in Numbers : issues[newest[i]].state = "open"}
           Shown == {n \in Numbers : issues[n].state = "open"}
           T == {newest[i] : i \in positions \cap (1..Len(newest))}
<1>1. Listing = Kept(newest, positions)
  BY DEF Listing
<1>2. LastIssue \in Nat
  BY TriageAssumption
<1>3. /\ \A i \in Numbers : newest[i] \in Numbers
      /\ newest \in Seq(Numbers)
  <2>1. \A i \in Numbers : newest[i] \in Numbers
    BY <1>2 DEF Numbers
  <2>2. newest \in [1..LastIssue -> Numbers]
    BY <2>1 DEF Numbers
  <2>3. QED
    BY <1>2, <2>1, <2>2, SeqDef
<1>4. Len(newest) \in Nat
  BY <1>3, LenProperties
<1>5. T \subseteq Shown
  BY <1>3
<1> HIDE DEF newest, positions, T, Shown
<1>6. Kept(newest, positions) \in Seq(T)
  BY <1>4, KeptIsSeq DEF T
<1>7. Listing \in Seq(Shown)
  BY <1>1, <1>5, <1>6, SeqMonotonic
<1>8. QED
  BY <1>7 DEF Shown

\* What a page lists is a text the issue has.
LEMMA ListedIsRead ==
  ASSUME IssuesTyped, HistoryInv,
         NEW n \in {m \in Numbers : issues[m].state = "open"}
  PROVE  Listed(n) \in Read
<1>1. issues[n] \in Issue /\ issues[n].text \in issues[n].texts
  BY DEF IssuesTyped, HistoryInv
<1>2. Listed(n) \in Entry
  BY <1>1 DEF Listed, Entry, Issue
<1>3. Listed(n).number = n /\ Listed(n).text = issues[n].text
  BY DEF Listed
<1>4. QED
  BY <1>1, <1>2, <1>3 DEF Read

\* A page is a sequence of such entries.
LEMMA PageIsRead ==
  ASSUME IssuesTyped, HistoryInv, NEW page \in Nat \ {0}
  PROVE  Page(Listing, page) \in Seq(Read)
<1> DEFINE Shown == {n \in Numbers : issues[n].state = "open"}
           first == (page - 1) * PerPage
           On == {j \in 1..PerPage : first + j <= Len(Listing)}
<1>1. Listing \in Seq(Shown)
  BY ListingIsOpen
<1>2. PerPage \in Nat /\ page - 1 \in Nat
  BY TriageAssumption
<1>3. first \in Nat
  BY <1>2
<1>4. Len(Listing) \in Nat
  BY <1>1, LenProperties
<1> HIDE DEF Shown, first
<1>5. PICK k \in Nat : On = 1..k
  <2>1. CASE Len(Listing) - first < 0
    <3>1. On = 1..0
      BY <1>2, <1>3, <1>4, <2>1
    <3>2. QED
      BY <3>1
  <2>2. CASE Len(Listing) - first >= PerPage
    <3>1. On = 1..PerPage
      BY <1>2, <1>3, <1>4, <2>2
    <3>2. QED
      BY <1>2, <3>1
  <2>3. CASE Len(Listing) - first >= 0 /\ Len(Listing) - first < PerPage
    <3>1. Len(Listing) - first \in Nat
      BY <1>3, <1>4, <2>3
    <3>2. On = 1..(Len(Listing) - first)
      BY <1>2, <1>3, <1>4, <2>3
    <3>3. QED
      BY <3>1, <3>2
  <2>4. \/ Len(Listing) - first < 0
        \/ Len(Listing) - first >= PerPage
        \/ Len(Listing) - first >= 0 /\ Len(Listing) - first < PerPage
    BY <1>2, <1>3, <1>4
  <2> HIDE DEF On
  <2>5. QED
    BY <2>1, <2>2, <2>3, <2>4
<1>6. ASSUME NEW i \in On PROVE Listed(Listing[first + i]) \in Read
  <2>1. first + i \in 1..Len(Listing)
    BY <1>2, <1>3, <1>4
  <2>2. Listing[first + i] \in Shown
    BY <1>1, <2>1, ElementOfSeq
  <2>3. QED
    BY <2>2, ListedIsRead DEF Shown
<1>7. Page(Listing, page) = [i \in On |-> Listed(Listing[first + i])]
  BY DEF Page, first
<1> HIDE DEF On
<1>8. Page(Listing, page) \in [1..k -> Read]
  BY <1>5, <1>6, <1>7
<1>9. QED
  BY <1>8, SeqDef

\* The results are decisions on texts that were read.
LEMMA ResultsAreExplained ==
  ASSUME IssuesTyped, NEW all \in Seq(Read), NEW d \in versions
  PROVE  Results(all, d) \in Seq(Explained)
<1> DEFINE Goes(e) == /\ IsUntriaged(e, MemberLabels[d])
                      /\ Decided(e.text, d) # Empty
           positions == {k \in DOMAIN all : Goes(all[k])}
           triaged == Kept(all, positions)
           T == {all[k] : k \in positions \cap (1..Len(all))}
           Result1(e) == [number |-> e.number, label |-> Decided(e.text, d)]
<1>1. Results(all, d) = [k \in DOMAIN triaged |-> Result1(triaged[k])]
  BY DEF Results
<1>2. Len(all) \in Nat
  BY LenProperties
<1>3. triaged \in Seq(T)
  BY <1>2, KeptIsSeq
<1>4. ASSUME NEW e \in T PROVE Result1(e) \in Explained
  <2>1. e \in Read /\ Decided(e.text, d) # Empty
    BY ElementOfSeq
  <2>2. e \in Entry /\ e.text \in issues[e.number].texts /\ d \in Docs
    BY <2>1 DEF Read, IssuesTyped
  <2>3. e.number \in Numbers /\ e.text \in Texts
    BY <2>2 DEF Entry
  <2>4. Decided(e.text, d) \in Labels
    BY <2>1, <2>2, <2>3, DecisionType
  <2>5. Result1(e) \in Result
    BY <2>3, <2>4 DEF Result
  <2>6. Result1(e).number = e.number /\ Result1(e).label = Decided(e.text, d)
    OBVIOUS
  <2> HIDE DEF Result1
  <2>7. QED
    BY <2>2, <2>5, <2>6 DEF Explained
<1> HIDE DEF triaged, T, positions, Result1
<1>5. PICK n \in Nat : DOMAIN triaged = 1..n /\ triaged \in [1..n -> T]
  BY <1>3, LenProperties
<1>6. Results(all, d) \in [1..n -> Explained]
  BY <1>1, <1>4, <1>5
<1>7. QED
  BY <1>6, SeqDef

\* What a run goes on with after a result.
LEMMA NextResultRun ==
  ASSUME NEW run, RunType(run), RunInv(run), run.results # <<>>
  PROVE  RunType(NextResult(run)) /\ RunInv(NextResult(run))
<1>1. CASE Len(run.results) = 1
  BY <1>1, IdleRun DEF NextResult
<1>2. CASE Len(run.results) # 1
  <2> DEFINE rest == Tail(run.results)
             next == [run EXCEPT !.pc = "label", !.results = rest]
  <2>1. NextResult(run) = next
    BY <1>2 DEF NextResult
  <2>2. run \in Run /\ run.results \in Seq(Result) /\ run.results \in Seq(Explained)
    BY DEF RunType, RunInv, Run
  <2>3. /\ rest \in Seq(Result)
        /\ rest \in Seq(Explained)
        /\ Len(rest) = Len(run.results) - 1
    BY <2>2, HeadTailProperties
  <2>4. rest # <<>>
    <3>1. Len(run.results) \in Nat \ {0}
      BY <2>2, EmptySeq
    <3>2. Len(rest) # 0
      BY <1>2, <2>3, <3>1
    <3>3. QED
      BY <3>2, EmptySeq
  <2> HIDE DEF rest
  <2>5. /\ next \in Run
        /\ next.pc = "label"
        /\ next.results = rest
        /\ next.all = run.all
    BY <2>2, <2>3 DEF Run
  <2> HIDE DEF next
  <2>6. RunType(next)
    BY <2>4, <2>5 DEF RunType
  <2>7. RunInv(next)
    BY <2>3, <2>5 DEF RunInv
  <2>8. QED
    BY <2>1, <2>6, <2>7
<1>3. QED
  BY <1>1, <1>2

-------------------------------------------------------------------------------
(* Steps.                                                                  *)

\* A run moves on and no issue changes.
LEMMA RunMoves ==
  ASSUME IssuesTyped, IssuesInv, RunsTyped, RunsInv,
         UNCHANGED <<docs, versions, issues>>,
         NEW r \in Runs, NEW run, Set(r, run), RunType(run), RunInv(run)
  PROVE  IssuesTyped' /\ IssuesInv' /\ RunsTyped' /\ RunsInv'
<1>1. IssuesTyped' /\ IssuesInv' /\ Grows
  BY IssuesStay DEF IssuesTyped
<1>2. RunInv(run)'
  BY <1>1, RunStays
<1>3. QED
  BY <1>1, <1>2, RunSteps

\* The types and the explanation of what one run holds.
LEMMA RunHolds ==
  ASSUME RunsTyped, RunsInv, NEW r \in Runs
  PROVE  RunType(runs[r]) /\ RunInv(runs[r]) /\ runs[r] \in Run
BY DEF RunsTyped, RunsInv, RunType

\* A run starts with the documents of its ref.
LEMMA CheckOutStep ==
  ASSUME IssuesTyped, IssuesInv, RunsTyped, RunsInv, NEW r \in Runs,
         NEW d \in Docs, CheckOut(r, d)
  PROVE  IssuesTyped' /\ IssuesInv' /\ RunsTyped' /\ RunsInv'
<1> PICK run : run = [Idle EXCEPT !.pc = "fetch", !.docs = d]
  OBVIOUS
<1>1. /\ Set(r, run)
      /\ versions' = versions \cup {d}
      /\ UNCHANGED <<docs, issues>>
  BY DEF CheckOut
<1>2. IssuesTyped' /\ IssuesInv' /\ Grows
  BY <1>1, IssuesStay DEF IssuesTyped
<1>3. run \in [pc : {"fetch"}, docs : {d}, page : {1}, all : {<<>>},
               results : {<<>>}]
  <2> DEFINE none == <<>>
  <2>1. Idle \in [pc : {"idle"}, docs : Docs, page : {1}, all : {none},
                  results : {none}]
    BY IdleFields
  <2> HIDE DEF none
  <2>2. run \in [pc : {"fetch"}, docs : {d}, page : {1}, all : {none},
                 results : {none}]
    BY <2>1
  <2>3. QED
    BY <2>2 DEF none
<1>4. RunType(run) /\ RunInv(run)'
  BY <1>1, <1>3, BlankRun
<1>5. QED
  BY <1>1, <1>2, <1>4, RunSteps

\* The documents are those of the default branch, or of another ref.
LEMMA StartSteps ==
  ASSUME IssuesTyped, IssuesInv, RunsTyped, RunsInv, NEW r \in Runs,
         Start(r) \/ \E d \in Docs : StartElsewhere(r, d)
  PROVE  IssuesTyped' /\ IssuesInv' /\ RunsTyped' /\ RunsInv'
<1>1. PICK d \in Docs : CheckOut(r, d)
  BY DEF Start, StartElsewhere, IssuesTyped
<1>2. QED
  BY <1>1, CheckOutStep

\* A page adds to what was read; the last one leads to decisions on all of it.
LEMMA FetchPageStep ==
  ASSUME IssuesTyped, IssuesInv, RunsTyped, RunsInv, NEW r \in Runs, FetchPage(r)
  PROVE  IssuesTyped' /\ IssuesInv' /\ RunsTyped' /\ RunsInv'
<1> PICK run : run = runs[r]
  OBVIOUS
<1> PICK page : page = Page(Listing, run.page)
  OBVIOUS
<1> PICK results : results = Results(run.all \o page, run.docs)
  OBVIOUS
<1>1. /\ run.pc = "fetch"
      /\ UNCHANGED <<docs, versions, issues>>
      /\ \/ Set(r, [run EXCEPT !.page = @ + 1, !.all = @ \o page])
         \/ results = <<>> /\ Set(r, Idle)
         \/ /\ results # <<>>
            /\ Set(r, [Idle EXCEPT !.pc = "label", !.results = results])
  BY DEF FetchPage
<1>2. /\ RunType(run) /\ RunInv(run) /\ run \in Run
      /\ run.page \in Nat \ {0}
      /\ run.docs \in versions
  <2>1. RunType(run) /\ RunInv(run) /\ run \in Run
    BY RunHolds
  <2>2. QED
    BY <1>1, <2>1 DEF RunInv, Run
<1>3. page \in Seq(Read) /\ run.all \in Seq(Read)
  BY <1>2, PageIsRead DEF IssuesInv, RunInv
<1>4. run.all \o page \in Seq(Read)
  BY <1>3, ConcatProperties
<1>5. results \in Seq(Explained)
  BY <1>2, <1>4, ResultsAreExplained
<1>6. Read \subseteq Entry /\ Explained \subseteq Result
  BY DEF Read, Explained
<1>7. run.all \o page \in Seq(Entry) /\ results \in Seq(Result)
  BY <1>4, <1>5, <1>6, SeqMonotonic
<1>8. CASE Set(r, [run EXCEPT !.page = @ + 1, !.all = @ \o page])
  <2> DEFINE all == run.all \o page
  <2>1. PICK next : next = [run EXCEPT !.page = @ + 1, !.all = all]
    OBVIOUS
  <2>2. all \in Seq(Entry) /\ all \in Seq(Read)
    BY <1>4, <1>7
  <2> HIDE DEF all
  <2>3. /\ next \in Run
        /\ next.pc = "fetch"
        /\ next.docs = run.docs
        /\ next.all = all
        /\ next.results = run.results
    <3>1. run.page + 1 \in Nat \ {0}
      BY <1>2 DEF Run
    <3>2. PICK page2 \in Nat \ {0} : page2 = run.page + 1
      BY <3>1
    <3>3. next = [run EXCEPT !.page = page2, !.all = all]
      BY <2>1, <3>2
    <3>4. all \in Seq([number : Numbers, text : Texts, labels : SUBSET Labels,
                      pr : BOOLEAN])
      BY <2>2 DEF Entry
    <3>5. QED
      BY <1>1, <1>2, <3>3, <3>4 DEF Run
  <2>4. RunType(next)
    BY <1>1, <1>2, <2>3 DEF RunType
  <2>5. RunInv(next)
    BY <1>1, <1>2, <2>2, <2>3 DEF RunInv
  <2>6. Set(r, next)
    BY <1>8, <2>1 DEF all
  <2>7. QED
    BY <1>1, <2>4, <2>5, <2>6, RunMoves
<1>9. CASE results = <<>> /\ Set(r, Idle)
  BY <1>1, <1>9, IdleRun, RunMoves
<1>10. CASE /\ results # <<>>
            /\ Set(r, [Idle EXCEPT !.pc = "label", !.results = results])
  <2>1. PICK next : next = [Idle EXCEPT !.pc = "label", !.results = results]
    OBVIOUS
  <2>2. RunType(Idle) /\ RunInv(Idle)
    BY IdleRun
  <2>3. /\ next \in Run
        /\ next.pc = "label"
        /\ next.all = Idle.all
        /\ next.results = results
    BY <1>7, <2>1, <2>2 DEF RunType, Run
  <2>4. RunType(next)
    BY <1>10, <2>3 DEF RunType
  <2>5. RunInv(next)
    BY <1>5, <2>2, <2>3 DEF RunInv
  <2>6. QED
    BY <1>1, <1>10, <2>1, <2>4, <2>5, RunMoves
<1>11. QED
  BY <1>1, <1>8, <1>9, <1>10

\* A request fails and the run ends.
LEMMA FailFetchStep ==
  ASSUME IssuesTyped, IssuesInv, RunsTyped, RunsInv, NEW r \in Runs, FailFetch(r)
  PROVE  IssuesTyped' /\ IssuesInv' /\ RunsTyped' /\ RunsInv'
<1>1. Set(r, Idle) /\ UNCHANGED <<docs, versions, issues>>
  BY DEF FailFetch, Fault
<1>2. QED
  BY <1>1, IdleRun, RunMoves

\* A result is given up.
LEMMA FailApplyStep ==
  ASSUME IssuesTyped, IssuesInv, RunsTyped, RunsInv, NEW r \in Runs, FailApply(r)
  PROVE  IssuesTyped' /\ IssuesInv' /\ RunsTyped' /\ RunsInv'
<1> PICK run : run = runs[r]
  OBVIOUS
<1>1. /\ Set(r, NextResult(run))
      /\ run.pc \in {"label", "comment"}
      /\ UNCHANGED <<docs, versions, issues>>
  BY DEF FailApply, Fault
<1>2. RunType(run) /\ RunInv(run)
  BY RunHolds
<1>3. run.results # <<>>
  BY <1>1, <1>2 DEF RunType
<1>4. RunType(NextResult(run)) /\ RunInv(NextResult(run))
  BY <1>2, <1>3, NextResultRun
<1>5. QED
  BY <1>1, <1>4, RunMoves

\* A label that is added is explained, and the comment on it is due.
LEMMA AddLabelStep ==
  ASSUME IssuesTyped, IssuesInv, RunsTyped, RunsInv, NEW r \in Runs, AddLabel(r)
  PROVE  IssuesTyped' /\ IssuesInv' /\ RunsTyped' /\ RunsInv'
<1> PICK run : run = runs[r]
  OBVIOUS
<1> DEFINE n == Head(run.results).number
           label == Head(run.results).label
           issue == [issues[n] EXCEPT !.labels = @ \cup {label},
                                      !.labelled = @ \cup {label}]
<1>1. RunType(run) /\ RunInv(run) /\ run \in Run /\ run.pc = "label"
  BY RunHolds DEF AddLabel
<1>2. run.results # <<>> /\ run.results \in Seq(Explained)
  BY <1>1 DEF RunType, RunInv
<1>3. Head(run.results) \in Explained
  BY <1>2, HeadTailProperties
<1>4. /\ n \in Numbers
      /\ label \in Labels
      /\ \E text \in issues[n].texts, d \in versions : label = Decided(text, d)
  BY <1>3 DEF Explained, Result
<1>5. /\ issues' = [issues EXCEPT ![n].labels = @ \cup {label},
                                  ![n].labelled = @ \cup {label}]
      /\ Set(r, [run EXCEPT !.pc = "comment"])
      /\ UNCHANGED <<docs, versions>>
  BY DEF AddLabel
<1> HIDE DEF n, label
<1>6. issues' = [issues EXCEPT ![n] = issue]
  BY <1>4, <1>5 DEF IssuesTyped
<1>7. /\ issue \in Issue
      /\ issue.state = issues[n].state
      /\ issue.text = issues[n].text
      /\ issue.texts = issues[n].texts
      /\ issue.labels = issues[n].labels \cup {label}
      /\ issue.comments = issues[n].comments
      /\ issue.assigned = issues[n].assigned
      /\ issue.labelled = issues[n].labelled \cup {label}
  BY <1>4, IssueFields DEF Issue
<1> HIDE DEF issue
<1>8. IssuesTyped' /\ IssuesInv' /\ Grows
  <2>1. IF issue.state = "new" THEN issue.texts = {} ELSE issue.text \in issue.texts
    BY <1>4, <1>7, IssueFields
  <2>2. /\ issues[n].texts \subseteq issue.texts
        /\ issues[n].labelled \subseteq issue.labelled
        /\ issue.comments \subseteq issue.labelled
    BY <1>4, <1>7, IssueFields
  <2>3. ASSUME NEW x \in issue.labels \ issue.assigned
        PROVE  \/ x \in issues[n].labels \ issues[n].assigned
               \/ \E text \in issues[n].texts, d \in versions : x = Decided(text, d)
    BY <1>4, <1>7, <2>3
  <2>4. issue \in Issue /\ UNCHANGED <<docs, versions>>
    BY <1>5, <1>7
  <2>5. QED
    BY <1>4, <1>6, <2>1, <2>2, <2>3, <2>4, IssueChanges
<1>9. issues'[n].labelled = issues[n].labelled \cup {label}
  BY <1>4, <1>6, <1>7 DEF IssuesTyped
<1>10. PICK next : next = [run EXCEPT !.pc = "comment"]
  OBVIOUS
<1>11. /\ next \in Run
       /\ next.pc = "comment"
       /\ next.all = run.all
       /\ next.results = run.results
  BY <1>1, <1>10 DEF Run
<1>12. RunType(next)
  BY <1>2, <1>11 DEF RunType
<1>13. RunInv(next)'
  <2>1. RunInv(run)'
    BY <1>1, <1>8, RunStays
  <2>2. label \in issues'[n].labelled
    BY <1>9
  <2>3. Head(next.results).label \in issues'[Head(next.results).number].labelled
    BY <1>11, <2>2 DEF n, label
  <2>4. QED
    BY <1>11, <2>1, <2>3 DEF RunInv
<1>14. QED
  BY <1>5, <1>8, <1>10, <1>12, <1>13, RunSteps

\* A comment is made on a label that was added.
LEMMA CreateCommentStep ==
  ASSUME IssuesTyped, IssuesInv, RunsTyped, RunsInv, NEW r \in Runs,
         CreateComment(r)
  PROVE  IssuesTyped' /\ IssuesInv' /\ RunsTyped' /\ RunsInv'
<1> PICK run : run = runs[r]
  OBVIOUS
<1> DEFINE n == Head(run.results).number
           label == Head(run.results).label
           issue == [issues[n] EXCEPT !.comments = @ \cup {label}]
<1>1. RunType(run) /\ RunInv(run) /\ run \in Run /\ run.pc = "comment"
  BY RunHolds DEF CreateComment
<1>2. run.results # <<>> /\ run.results \in Seq(Explained)
  BY <1>1 DEF RunType, RunInv
<1>3. Head(run.results) \in Explained
  BY <1>2, HeadTailProperties
<1>4. n \in Numbers /\ label \in Labels /\ label \in issues[n].labelled
  BY <1>1, <1>3 DEF Explained, Result, RunInv
<1>5. /\ issues' = [issues EXCEPT ![n].comments = @ \cup {label}]
      /\ Set(r, NextResult(run))
      /\ UNCHANGED <<docs, versions>>
  BY DEF CreateComment
<1> HIDE DEF n, label
<1>6. issues' = [issues EXCEPT ![n] = issue]
  BY <1>4, <1>5 DEF IssuesTyped
<1>7. /\ issue \in Issue
      /\ issue.state = issues[n].state
      /\ issue.text = issues[n].text
      /\ issue.texts = issues[n].texts
      /\ issue.labels = issues[n].labels
      /\ issue.comments = issues[n].comments \cup {label}
      /\ issue.assigned = issues[n].assigned
      /\ issue.labelled = issues[n].labelled
  BY <1>4, IssueFields DEF Issue
<1> HIDE DEF issue
<1>8. IssuesTyped' /\ IssuesInv' /\ Grows
  <2>1. IF issue.state = "new" THEN issue.texts = {} ELSE issue.text \in issue.texts
    BY <1>4, <1>7, IssueFields
  <2>2. /\ issues[n].texts \subseteq issue.texts
        /\ issues[n].labelled \subseteq issue.labelled
        /\ issue.comments \subseteq issue.labelled
    BY <1>4, <1>7, IssueFields
  <2>3. ASSUME NEW x \in issue.labels \ issue.assigned
        PROVE  \/ x \in issues[n].labels \ issues[n].assigned
               \/ \E text \in issues[n].texts, d \in versions : x = Decided(text, d)
    BY <1>4, <1>7, <2>3
  <2>4. issue \in Issue /\ UNCHANGED <<docs, versions>>
    BY <1>5, <1>7
  <2>5. QED
    BY <1>4, <1>6, <2>1, <2>2, <2>3, <2>4, IssueChanges
<1>9. RunType(NextResult(run)) /\ RunInv(NextResult(run))
  BY <1>1, <1>2, NextResultRun
<1>10. PICK next : next = NextResult(run)
  OBVIOUS
<1>11. RunInv(next)'
  BY <1>8, <1>9, <1>10, RunStays
<1>12. QED
  BY <1>5, <1>8, <1>9, <1>10, <1>11, RunSteps

\* The inductive invariant is kept by every step.
LEMMA NextInv ==
  IInv /\ [Next]_vars => IInv'
<1> SUFFICES ASSUME IInv, [Next]_vars PROVE IInv'
  OBVIOUS
<1>1. /\ IssuesTyped /\ RunsTyped /\ IssuesInv /\ RunsInv
      /\ touches \in 0..MaxTouches /\ faults \in 0..MaxFaults
  BY Types DEF IInv
<1>2. IssuesTyped' /\ RunsTyped' /\ IssuesInv' /\ RunsInv'
  <2>1. CASE People
    <3>1. runs' = runs
      BY <2>1 DEF People, Open, Close, Edit, Assign, Unassign, Commit, Touch
    <3>2. QED
      BY <1>1, <2>1, <3>1, PeopleStep, RunsStay
  <2>2. ASSUME NEW r \in Runs, Heartbeat(r)
        PROVE  IssuesTyped' /\ RunsTyped' /\ IssuesInv' /\ RunsInv'
    BY <1>1, <2>2, StartSteps, FetchPageStep, AddLabelStep, CreateCommentStep,
       FailFetchStep, FailApplyStep DEF Heartbeat, Proceed
  <2>3. CASE UNCHANGED vars
    <3>1. UNCHANGED <<docs, versions, issues, runs>>
      BY <2>3 DEF vars
    <3>2. IssuesTyped' /\ IssuesInv' /\ Grows
      BY <1>1, <3>1, IssuesStay DEF IssuesTyped
    <3>3. QED
      BY <1>1, <3>1, <3>2, RunsStay
  <2>4. QED
    BY <2>1, <2>2, <2>3 DEF Next
<1>3. touches' \in 0..MaxTouches /\ faults' \in 0..MaxFaults
  BY <1>1, Counters
<1>4. TypeOK'
  BY <1>2, <1>3 DEF TypeOK, IssuesTyped, RunsTyped, RunType, Run
<1>5. QED
  BY <1>2, <1>4 DEF IInv

\* It holds before any issue is opened.
LEMMA InitInv ==
  Init => IInv
<1> SUFFICES ASSUME Init PROVE IInv
  OBVIOUS
<1>1. NewIssue \in Issue /\ NewIssue.state = "new" /\ NewIssue.texts = {}
      /\ NewIssue.labels = {} /\ NewIssue.comments = {}
  <2>1. (CHOOSE text \in Texts : TRUE) \in Texts
    BY TriageAssumption
  <2>2. QED
    BY <2>1 DEF NewIssue, Issue
<1>2. docs \in Docs /\ versions = {} /\ \A n \in Numbers : issues[n] = NewIssue
  BY DEF Init
<1>3. IssuesTyped
  BY <1>1 DEF Init, IssuesTyped
<1>4. IssuesInv
  BY <1>1, <1>2 DEF IssuesInv, HistoryInv, OwnersAreDecided, CommentsTellTheTruth
<1>5. RunsTyped /\ RunsInv
  <2>1. runs = [r \in Runs |-> Idle] /\ Idle \in Run
    BY IdleRun DEF Init, RunType
  <2> HIDE DEF Idle
  <2>2. QED
    BY <2>1, IdleRun DEF RunsTyped, RunsInv
<1>6. touches \in 0..MaxTouches /\ faults \in 0..MaxFaults
  BY TriageAssumption DEF Init
<1>7. QED
  BY <1>3, <1>4, <1>5, <1>6, Types DEF IInv

-------------------------------------------------------------------------------
(* The theorems.                                                           *)

\* What issues and runs hold is typed and explained by what the issues have said
\* and by the documents runs have checked out, on the default branch or elsewhere.
THEOREM HistoryExplains ==
  Spec => []IInv
BY InitInv, NextInv, PTL DEF Spec

\* Every variable keeps its type; in particular a run only decides for members
\* of its roster, and has something to apply exactly as long as it applies it.
THEOREM TypeCorrect ==
  Spec => []TypeOK
<1>1. IInv => TypeOK
  BY DEF IInv
<1>2. QED
  BY <1>1, HistoryExplains, PTL

\* Whoever owns an issue was named by a person, or is the decision on a text the
\* issue has had under documents that a run has checked out, however many runs
\* overlap and whatever refs they were started on.
THEOREM OwnersWereDecided ==
  Spec => []OwnersAreDecided
<1>1. IInv => OwnersAreDecided
  BY DEF IInv, IssuesInv
<1>2. QED
  BY <1>1, HistoryExplains, PTL

\* An owner is only announced on an issue that was given to that owner, whatever
\* calls fail in between.
THEOREM CommentsAreTrue ==
  Spec => []CommentsTellTheTruth
<1>1. IInv => CommentsTellTheTruth
  BY DEF IInv, IssuesInv
<1>2. QED
  BY <1>1, HistoryExplains, PTL

\* An issue whose text names a module goes to the primary owner of the most
\* specific one, for all documents: no rule, role or shorter path comes first.
THEOREM OwnerOfModule ==
  Spec => []ModuleOwnerGetsIssue
<1>1. IInv => ModuleOwnerGetsIssue
  <2>1. ASSUME IInv, NEW n \in Numbers,
               NEW name \in ModuleOwners[docs][issues[n].text]
        PROVE  Decided(issues[n].text, docs) = name
    <3>1. issues[n].text \in Texts /\ docs \in Docs
      BY <2>1 DEF IInv, TypeOK, Issue
    <3>2. QED
      BY <3>1, OwnerIsDecided
  <2>2. QED
    BY <2>1 DEF ModuleOwnerGetsIssue
<1>2. QED
  BY <1>1, HistoryExplains, PTL
===============================================================================
