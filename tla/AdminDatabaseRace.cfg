SPECIFICATION Spec
CONSTANTS
  Processes = {p1, p2}
  Accounts = {a}
  None = None
  MaxCrashes = 0
INVARIANTS
  MigrationIsNoError
