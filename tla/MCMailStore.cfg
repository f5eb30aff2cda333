SPECIFICATION FairSpec
CONSTANTS
  a1 = a1
  m1 = m1
  p1 = p1
  p2 = p2
  d1 = d1
  NoAlias = NoAlias
  mail = mail
  example = example
  Message = {m1}
  Alias = {a1}
  Part = {p1, p2}
  Request = {d1}
  Domain = {example}
  User = {mail}
  DomainOf <- OneDomain
  UserOf <- OneUser
  IngestTimeout = 1
  AgeThreshold = 2
  BatchSize = 1
  Faults = TRUE
INVARIANTS
  TypeOK
  AttachmentsKeepTheirObjects
  JobSparesUploads
  NoRowOutlivesItsParent
  AnnouncedMailIsComplete
PROPERTIES
  OrphansGo
  DataIsAnswered
CHECK_DEADLOCK FALSE
