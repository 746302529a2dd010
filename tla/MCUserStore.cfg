SPECIFICATION FairSpec
CONSTANTS
  Tables <- AllTables
  Names = {"ann"}
  Passwords = {"p"}
  Requests = {r1, r2, r3}
  Limit = 1
  None = None
  Failed = Failed
INVARIANTS
  TypeOK
  PermitsBalanced
  WaitsOnlyWhenBusy
  VerdictIsRecent
PROPERTIES
  EveryLoginIsAnswered
