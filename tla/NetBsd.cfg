CONSTANTS
  nframes = 2
  nrxbuf = 3
  NTXBUF = 2
  Rfds = {0, 1}
  Rbds = {0, 1, 2}
  Cbs = {0, 1, 2}
  Boards = {"ef", "ai", "ob2"}
  Frames = 3
  Sends = 2
  MaxLen = 2
  MaxFaults = 1
  Prompt = TRUE
  UpWhileReady = FALSE
  Null = Null
SPECIFICATION Spec
INVARIANTS
  
  
  RestartWhereStopped
  TransmitInOrderUncut
  NoLostTransmission
  NoLostInterrupt
CHECK_DEADLOCK FALSE
CONSTRAINT FewFrames
