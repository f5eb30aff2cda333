SPECIFICATION Spec
CONSTANTS
  r1 = r1
  r2 = r2
  u1 = u1
  u2 = u2
  d1 = d1
  d2 = d2
  a1 = a1
  a2 = a2
  User = {u1, u2}
  Name = {example, shop}
  Local = {info, sales}
  DomainID = {d1, d2}
  AliasID = {a1, a2}
  Request = {r1, r2}
  DomainLimit = 1
  AliasLimit = 1
  MayFail = TRUE
  None = None
SYMMETRY Symmetry
INVARIANTS
  TypeOK
  VerifiedOwnersControlTheZone
  AliasesFollowTheirDomain
  LimitsHoldUpToRaces
  SSLIsResetOnlyByRaces
