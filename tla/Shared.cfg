SPECIFICATION Spec
CONSTANTS
  Structs = {"scp", "iscp", "scb", "cb", "tcb", "tdr", "conf", "rfd", "rbd", "tbd"}
  MaxWrites = 2
  FrameLen = 7
  Space = 12
  MinPiece = 1
  SizeMod = 32
INVARIANTS
  Understood
  CopyExact
CHECK_DEADLOCK FALSE
