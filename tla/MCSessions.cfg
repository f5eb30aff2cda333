SPECIFICATION Spec
CONSTANTS
  Email = {mail}
  c1 = c1
  c2 = c2
  t1 = t1
  t2 = t2
  t3 = t3
  u1 = u1
  u2 = u2
  User = {u1, u2}
  Token = {t1, t2, t3}
  Client = {c1, c2}
  MaxFailedAttempts = 2
  FailedAttemptWindow = 0
  RefreshTokenExpiry = 1
  MayFail = TRUE
  None = None
  MaxTime = 1
SYMMETRY Symmetry
INVARIANTS
  TypeOK
  ATokenIsExchangedOnce
  HeldTokensWork
  FailedAttemptsAreBounded
