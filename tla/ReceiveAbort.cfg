CONSTANTS
  Rfds <- AreaRfds
  Rf <- AreaRf
  Rbds <- AreaRbds
  Bd <- AreaBd
  Heads <- AreaHeads
  Frames <- AreaFrames
  Fr <- AreaFr
  Configs <- PlainOnly
  Pulses <- AnyPulse
  ResetStates <- NoResets
  FifoDepth = 1
  CntRange = 1
  Null = Null
SPECIFICATION Spec
INVARIANTS
  WritesInArea
