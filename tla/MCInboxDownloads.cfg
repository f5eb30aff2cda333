SPECIFICATION Spec
CONSTANTS
  alice = alice
  bob = bob
  sales = sales
  r1 = r1
  User = {alice, bob}
  Alias = {sales}
  EmailID = {2}
  Carriers = {2}
  Request = {r1}
  UserOf <- MCUserOf
  RcptOf <- MCRcptOf
  ReceivedAt <- MCReceivedAt
  PerPage = 1
  MaxBulkOperationItems = 2
  DownloadLimit = 1
  MaxDownloads = 2
  MayFail = TRUE
  None = None
INVARIANTS
  DownloadsAreLimited
CHECK_DEADLOCK FALSE
