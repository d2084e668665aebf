CONSTANTS
  Rfds <- AreaRfds
  Rf <- AreaRf
  Rbds <- AreaRbds
  Bd <- AreaBd
  Heads <- AreaHeads
  Frames <- AreaFrames
  Fr <- AreaFr
  Configs <- AreaConfigs
  Pulses <- AnyPulse
  ResetStates <- ResetInFrame
  FifoDepth = 1
  CntRange = 1
  Null = Null
SPECIFICATION Spec
INVARIANTS
  Verdict
  FiledWhole
  Rewound
  WritesItsOwn
PROPERTIES
  UnitPromise
CONSTRAINT UpToTheCut
