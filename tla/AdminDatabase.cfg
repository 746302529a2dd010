SPECIFICATION FairSpec
CONSTANTS
  Processes = {p1, p2, p3}
  Accounts = {a}
  None = None
  MaxCrashes = 2
INVARIANTS
  TypeOK
  VersionTellsTheSchema
PROPERTIES
  AccountsSurvive
  RetriesSucceed
