----------------------------- MODULE MCIssueTriage -----------------------------
(* Documents and texts for TLC. *)
EXTENDS IssueTriage, TLC

MCTexts == {{"src", "api"}, {"test"}}

Row(name, role) == [name |-> name, role |-> role]

\* A roster under "Members" with a lead, the scribe, a row that is too short and
\* a name that is a part of another.
LedTeam ==
  [members |->
     [columns |-> {"name", "role"},
      rows |-> <<Row({"scribe"}, {"session"}),
                 [name |-> {"intern"}],
                 Row({"theo", "dora"}, {"backend", "engineer"}),
                 Row({"theo"}, {"backend", "engineer"}),
                 Row({"aria"}, {"lead"})>>],
   roster |-> NoTable]

\* A roster under the other heading, without a lead and with a member of whose
\* name normalisation leaves nothing.
LeadlessTeam ==
  [members |-> NoTable,
   roster |-> [columns |-> {"name", "role"},
               rows |-> <<Row({"sign"}, {"platform"}),
                          Row({"theo"}, {"engineer"})>>]]

\* A document without a table of rules under a heading the script knows.
PartRouting ==
  [rules |-> NoTable,
   modules |->
     [columns |-> {"module", "primary"},
      rows |-> <<[module |-> {"src"}, primary |-> {"session"}]>>]]

FullRouting ==
  [rules |->
     [columns |-> {"work type", "agent", "examples"},
      rows |-> <<("work type" :> {"testing"}) @@ [agent |-> {"session"},
                   examples |-> <<{"test"}, {"src"}>>],
                 ("work type" :> {"design"}) @@ [agent |-> {"lead"},
                   examples |-> <<{"test"}>>]>>],
   modules |->
     [columns |-> {"module", "primary", "secondary"},
      rows |-> <<[module |-> {"src", "api"}, primary |-> {"theo"},
                  secondary |-> {"sign"}],
                 [module |-> {"src"}, primary |-> {"aria"},
                  secondary |-> {"theo"}]>>]]

MCDocs == {"led", "leadless"}
MCTeam == [led |-> LedTeam, leadless |-> LeadlessTeam]
MCRouting == [led |-> FullRouting, leadless |-> PartRouting]
===============================================================================
