SPECIFICATION Spec
SYMMETRY Symmetry
CONSTANTS
  a = a
  b = b
  ra = ra
  rb = rb
  v1 = v1
  v2 = v2
  None = None
  Users = {u1, u2}
  Clients = {a}
  Requests <- TwoTabs
  Configs <- OnlyA
  RedirectUris = {ra}
  Verifiers = {v1, v2}
  SessionIds = {s1, s2}
  Codes = {c1}
  Slots = {l1, l2}
  SessionTtl = 2
  CodeTtl = 1
  MaxTime = 2
  MaxRestarts = 0
INVARIANTS
  FreshLogin
