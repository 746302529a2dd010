SPECIFICATION Spec
SYMMETRY Symmetry
CONSTANTS
  Configs <- AllConfigs
  Subjects <- TwoNames
  States = {s1, s2}
  UpstreamCodes = {u1, u2}
  Codes = {c1, c2}
  ConsentIds = {k1, k2}
  Slots = {l1, l2}
  None = None
  ReauthTtl = 2
  ConsentTtl = 2
  Timeout = 1
  MaxTime = 6
  MaxRestarts = 1
CONSTRAINT
  OneOverTimeOrTwoAtOnce
INVARIANTS
  TypeOK
  ClientHearsOnce
  NothingVanishes
  SoonAfterRequest
  AuthenticatedForThisRequest
  SubjectsAreDistinct
