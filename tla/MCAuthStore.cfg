SPECIFICATION Spec
SYMMETRY Symmetry
CONSTANTS
  Workers = {w1, w2}
  SessionIds = {s1}
  Codes = {c1}
  States = {st1, st2}
  Nonces = {n1, n2}
  ConsentIds = {t1}
  Providers = {p1, p2}
  SessionTtl = 1
  CodeTtl = 1
  ReauthTtl = 1
  ConsentTtl = 1
  MaxTime = 1
INVARIANTS
  TypeOK
  ConsumedAtMostOnce
  RefusalIsFinal
PROPERTIES
  NoPrematureLoss
  DeliveredInTime
  ImplementsSingleUse
