SPECIFICATION Spec
SYMMETRY Symmetry
CONSTANTS
  Admins = {x}
  Passwords = {p}
  Tokens = {t1, t2}
  Browsers = {b1}
  Requests = {r1, r2}
  None = None
  Keep = Keep
  AdminTtl = 2
  PreAuthTtl = 1
  MaxSessions = 2
  MaxAttempts = 2
  Window = 1
  Verifications = 2
  MaxTime = 0
  MaxRestarts = 0
  MaxVersion = 1
INVARIANTS
  TabsKeepTheirForms
