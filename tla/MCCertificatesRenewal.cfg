SPECIFICATION FairSpec
CONSTANTS
  Domain = {d1}
  Request = {r1, r2}
  Loader = Loader
  MaxConcurrent = 1
  MaxRenewals = 1
  Validity = 2
  RenewalDays = 1
  RetryInterval = 0
  MayFail = FALSE
  MaxTime = 4
  MaxCrashes = 0
PROPERTIES ExpiringIsRenewed
