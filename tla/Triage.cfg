SPECIFICATION FairSpec
CONSTANTS
  Runs = {r1, r2}
  LastIssue = 2
  Texts <- MCTexts
  Docs <- MCDocs
  Team <- MCTeam
  Routing <- MCRouting
  PerPage = 1
  MaxTouches = 1
  MaxFaults = 1
INVARIANTS
  TypeOK
  OwnersAreDecided
  CommentsTellTheTruth
  ModuleOwnerGetsIssue
PROPERTIES
  EveryIssueGetsOwner
