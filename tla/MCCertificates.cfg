SPECIFICATION Spec
CONSTANTS
  Domain = {d1, d2}
  Request = {r1, r2}
  Loader = Loader
  MaxConcurrent = 1
  MaxRenewals = 1
  Validity = 2
  RenewalDays = 1
  RetryInterval = 1
  MayFail = TRUE
  MaxTime = 3
  MaxCrashes = 1
SYMMETRY Symmetry
INVARIANTS TypeOK ClaimsAreExact EnabledDomainIsCovered ServedCertificatesAreActive
PROPERTIES OnlyItsCreatorChangesARow
