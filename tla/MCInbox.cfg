SPECIFICATION Spec
CONSTANTS
  alice = alice
  bob = bob
  sales = sales
  r1 = r1
  User = {alice, bob}
  Alias = {sales}
  EmailID = {1, 2, 3}
  Carriers = {2}
  Request = {r1}
  UserOf <- MCUserOf
  RcptOf <- MCRcptOf
  ReceivedAt <- MCReceivedAt
  PerPage = 1
  MaxBulkOperationItems = 2
  DownloadLimit = 1
  MaxDownloads = 1
  MayFail = TRUE
  None = None
INVARIANTS
  TypeOK
  AnswersMissOnlyWhatMoved
  MissingOnlyIfDeletionAsked
CHECK_DEADLOCK FALSE
