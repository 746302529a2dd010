SPECIFICATION Spec
SYMMETRY Symmetry
CONSTANTS
  a = a
  b = b
  ra = ra
  rb = rb
  v1 = v1
  v2 = v2
  None = None
  Users = {u1}
  Clients = {a, b}
  Requests <- AnyRequest
  Configs <- Policies
  RedirectUris = {ra, rb}
  Verifiers = {v1, v2}
  SessionIds = {s1, s2}
  Codes = {c1}
  Slots = {l1, l2}
  SessionTtl = 1
  CodeTtl = 1
  MaxTime = 2
  MaxRestarts = 1
CONSTRAINT
  TwoTabsOrAnyState
INVARIANTS
  TypeOK
  ExchangeOutcome
  TokenSoonAfterLogin
  PromptedLogin
  PkceEnforced
