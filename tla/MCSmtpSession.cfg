SPECIFICATION SessionSpec
CONSTANTS
  a1 = a1
  a2 = a2
  a3 = a3
  Address = {a1, a2, a3}
  Sender = {alice, bob}
  Null = Null
  MaxRecipients = 2
  MaxMessageSize = 2
  TLSConfigured = TRUE
  MaxLines = 5
  Letter <- MCLetter
  MaxAttachmentSize = 4
  MaxTotalAttachmentSize = 5
  NoBody = "none"
  MaxNesting = 3
  Name <- MCName
SYMMETRY Symmetry
INVARIANTS
  SessionTypeOK
  EnvelopeIsWhatWasAccepted
  EveryPartIsAccountedFor
