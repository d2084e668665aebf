CONSTANTS
  CuRequests = {"NOP", "START", "RESUME", "ABORT"}
  RuRequests = {"NOP"}
  SoftReset = TRUE
  HardReset = TRUE
SPECIFICATION Spec
INVARIANTS
  NoLostWork
  SettingWins
  AcknowledgedIsGone
PROPERTIES
  InterruptAfterStatus
  MailboxSafety
CHECK_DEADLOCK TRUE
