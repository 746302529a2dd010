SPECIFICATION Spec
SYMMETRY Symmetry
CONSTANTS
  Admins = {x, y}
  Passwords = {p, q}
  Tokens = {1, 2, 3}
  Browsers = {b1}
  Requests = {r1, r2}
  None = None
  Keep = Keep
  AdminTtl = 2
  PreAuthTtl = 1
  MaxSessions = 2
  MaxAttempts = 2
  Window = 1
  Verifications = 2
  MaxTime = 2
  MaxRestarts = 1
  MaxVersion = 3
CONSTRAINTS
  InOrder
  OneAdminOrTwoForAWhile
INVARIANTS
  TypeOK
  RateLimited
  PermitsBalanced
  SessionCapacity
PROPERTIES
  CurrentCredentialAccess
  ChangesAreProven
  SessionsEndForAReason
