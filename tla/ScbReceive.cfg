CONSTANTS
  CuRequests = {"NOP"}
  RuRequests = {"NOP", "START", "ABORT"}
  SoftReset = FALSE
  HardReset = FALSE
SPECIFICATION FairSpec
PROPERTIES
  MailboxServed
  WorkNoticed
CHECK_DEADLOCK TRUE
